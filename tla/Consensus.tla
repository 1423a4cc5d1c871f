------------------------------ MODULE Consensus -----------------------------
(***************************************************************************)
(* run_decision: several runners are asked where a run should go           *)
(* (direction), what is wrong with it (review), or both, and their answers *)
(* are condensed to a status, a pick and a brief for the host.  The host   *)
(* that gathers the answers, pays the estimated cost and remembers the     *)
(* escalation points is the caller's (external); a request is built here   *)
(* as the answers arrive, in any order.                                    *)
(* A vote has a decision, a value (tasks and patterns are numbers, in the  *)
(* order of their names) and a source (the set of keywords in its name;    *)
(* empty if the runner gave none).                                         *)
(***************************************************************************)
EXTENDS Auditors

CONSTANTS
  EscalateKeys,    \* escalation points the host may ask about
  Budgets,         \* token budgets to begin with
  Universe,        \* task_universe: the run's tasks
  LegalPatterns,   \* the five patterns (their numbers)
  Votes,           \* votes that may be cast, those no list knows too
  CandidateReplies, ReviewReplies,      \* results the scheduler may return
  MaxVotes, MaxCandidates, MaxReviews,  \* bounds: answers of each kind
  MaxDecisions                          \* bound: decisions asked for

VARIABLES
  request,   \* the DecisionRunRequest being built; Idle if there is none
  budget,    \* the host's remaining tokens
  spawned,   \* the escalation points it has recorded
  outcome,   \* the last DecisionOutcome
  decisions  \* decisions so far

vars == <<request, budget, spawned, outcome, decisions>>

EST_TOKENS_PER_ROUND == 18000

\* rounds_needed.
RoundsNeeded(kind, diverge) ==
  CASE kind = "both"      -> IF diverge THEN 3 ELSE 2
    [] kind = "direction" -> IF diverge THEN 2 ELSE 1
    [] kind = "review"    -> 1
Cost(r) == EST_TOKENS_PER_ROUND * RoundsNeeded(r.kind, r.diverge)

\* The families among some votes; the families of runners with these names.
Families(sources) == {Family(s) : s \in sources}
Sources(votes) == {votes[i].source : i \in 1 .. Len(votes)}

\* Mutant of HasMinimumVoteFamilies: names are counted, not families.
HasMinimumVoteSources(votes) == Cardinality(Sources(votes)) >= 2

\* has_minimum_vote_families.
HasMinimumVoteFamilies(votes) == Cardinality(Families(Sources(votes))) >= 2

\* The items of a list, and that it is one.
Items(s) == {s[i] : i \in 1 .. Len(s)}
IsList(s) == s \in Seq(Items(s))

-----------------------------------------------------------------------------
\* parse_direction_vote_values, parse_direction_vote_value: malformed items
\* are skipped; nothing at all if all are.
ParseDirectionVotes(items) ==
  Picked(items, {i \in 1 .. Len(items) : items[i].decision # "malformed"})

\* fill_missing_sources.
FillMissingSources(votes, runner) ==
  [i \in 1 .. Len(votes) |-> IF votes[i].source = {} THEN [votes[i] EXCEPT !.source = {runner}]
                             ELSE votes[i]]

\* What merge_candidates takes from one result: its structured findings if a
\* vote is among them, otherwise the votes in its text.
CandidatesOf(result) ==
  LET structured == ParseDirectionVotes(result.findings)
  IN  IF ~result.ok THEN << >>
      ELSE FillMissingSources(IF structured # << >> THEN structured
                              ELSE ParseDirectionVotes(result.text), result.runner)

\* f[1] \o ... \o f[n].
Flatten(f) ==
  LET upto[i \in 0 .. Len(f)] == IF i = 0 THEN << >> ELSE upto[i - 1] \o f[i]
  IN  upto[Len(f)]

\* merge_candidates.
MergeCandidates(results) == Flatten([i \in 1 .. Len(results) |-> CandidatesOf(results[i])])

IsLegalPattern(value) == value \in LegalPatterns

\* candidate_task_base: Some(ids), as a set of at most one set.
CandidateTaskBase(r) == IF Universe # {} THEN {Universe} ELSE r.validIds

\* validate_candidate: a proposed task must be in a base that is there.
ValidateCandidate(c, base) ==
  CASE c.decision = "pick_task"    -> \E ids \in base : c.value \in ids
    [] c.decision = "pick_pattern" -> IsLegalPattern(c.value)
    [] OTHER                       -> TRUE

\* diverge_phase, candidate_sources.
DivergePhase(r) ==
  LET proposed == MergeCandidates(r.candidates)
      all      == 1 .. Len(proposed)
      good     == {i \in all : ValidateCandidate(proposed[i], CandidateTaskBase(r))}
  IN  [candidates |-> Picked(proposed, good),
       invalid    |-> Picked(proposed, all \ good),
       sources    |-> Sources(proposed)]

\* candidate_task_ids.
CandidateTaskIds(pool) ==
  {pool.candidates[i].value : i \in {j \in 1 .. Len(pool.candidates) :
                                       pool.candidates[j].decision = "pick_task"}}

\* is_valid_vote: without a list of ids any task will do.
IsValidVote(v, ids) ==
  CASE v.decision = "pick_task"    -> \A s \in ids : v.value \in s
    [] v.decision = "pick_pattern" -> IsLegalPattern(v.value)
    [] OTHER                       -> TRUE

\* vote_key, and the order of the strings it makes.
VoteKey(v) == <<v.decision, IF v.decision = "needs_human" THEN 0 ELSE v.value>>
KeyBefore(a, b) ==
  \/ a[1] = "pick_pattern" /\ b[1] = "pick_task"
  \/ a[1] = b[1] /\ a[2] < b[2]

NoPick == <<"none", 0>>
Human(votes) == {i \in 1 .. Len(votes) : votes[i].decision = "needs_human"}

\* The key with most votes, among equals the one that sorts first.
Winner(keys, count) ==
  CHOOSE k \in keys : \A j \in keys \ {k} :
    count[k] > count[j] \/ (count[k] = count[j] /\ KeyBefore(k, j))

\* tally_votes.
TallyVotes(votes, ids) ==
  LET all   == 1 .. Len(votes)
      valid == {i \in all : IsValidVote(votes[i], ids)}
      keyed == valid \ Human(votes)
      keys  == {VoteKey(votes[i]) : i \in keyed}
      count == [k \in keys |-> Cardinality({i \in keyed : VoteKey(votes[i]) = k})]
      pick  == IF keys = {} THEN NoPick ELSE Winner(keys, count)
  IN  [pick |-> pick, count |-> IF keys = {} THEN 0 ELSE count[pick],
       votes |-> Picked(votes, valid), invalid |-> Picked(votes, all \ valid),
       minority |-> Picked(votes, {i \in valid : VoteKey(votes[i]) # pick}),
       human |-> Cardinality(valid \cap Human(votes))]

\* run_direction_phases: the votes are held against the candidates, if two
\* families proposed some; otherwise against the host's list.
NoPool == [candidates |-> << >>, invalid |-> << >>, sources |-> {}]
RunDirectionPhases(r) ==
  LET single == TallyVotes(r.votes, r.validIds)
      pool   == DivergePhase(r)
  IN  IF ~r.diverge \/ r.candidates = << >>
      THEN [tally |-> single, pool |-> NoPool, used |-> FALSE, fallback |-> FALSE]
      ELSE IF ~HasMinimumVoteFamilies(pool.candidates)
      THEN [tally |-> single, pool |-> pool, used |-> FALSE, fallback |-> TRUE]
      ELSE [tally |-> TallyVotes(r.votes, {CandidateTaskIds(pool)}), pool |-> pool,
            used |-> TRUE, fallback |-> FALSE]

-----------------------------------------------------------------------------
\* has_minimum_valid_reviewers.
HasMinimumValidReviewers(results) ==
  LET answered == {i \in 1 .. Len(results) : results[i].ok /\ results[i].text # "blank"}
  IN  Cardinality({Family({results[i].runner}) : i \in answered}) >= 2

\* Findings of one result: the structured ones that parse; else those in the
\* text, all of them or, if one does not parse or there is none
\* (parse_findings_values), the whole text as one finding of medium severity.
\* No finding names a source of its own.
Valid(items) == Picked(items, {i \in 1 .. Len(items) : items[i] \in Severities})
FindingsOf(result) ==
  LET listed     == /\ result.text = "json"
                    /\ result.items # << >> /\ Valid(result.items) = result.items
      severities == IF Valid(result.findings) # << >> THEN Valid(result.findings)
                    ELSE IF listed THEN result.items
                    ELSE IF result.text = "blank" THEN << >> ELSE <<"medium">>
  IN  IF ~result.ok THEN << >>
      ELSE [i \in 1 .. Len(severities) |-> [severity |-> severities[i], source |-> result.runner]]

\* merge_findings.
MergeFindings(results) == Flatten([i \in 1 .. Len(results) |-> FindingsOf(results[i])])

-----------------------------------------------------------------------------
\* compose_status.
ComposeStatus(kind, tally) ==
  IF kind = "review" \/ (tally.count >= 2 /\ Human(tally.minority) = {})
  THEN "converged" ELSE "needs_info"

\* Mutant of BudgetFooter: what this round costs is not subtracted.
BudgetFooterBefore(consumed, before, cost) == cost = 0 \/ before >= cost

\* budget_footer: is there enough for another round like this one?
BudgetFooter(consumed, before, cost) ==
  LET after == IF before > consumed THEN before - consumed ELSE 0
  IN  cost = 0 \/ after >= cost

\* edge_outcome, build_budget_brief, build_needs_human_brief.
EdgeOutcome(r, reason, record) ==
  [status |-> "needs_human", request |-> r, reason |-> reason, pick |-> NoPick, used |-> FALSE,
   consumed |-> 0, record |-> record, shown |-> {}, findings |-> << >>,
   enough |-> BudgetFooter(0, budget, Cost(r))]

\* What build_decision_brief shows of the direction track: votes, invalid
\* votes and the candidate pool.
Shown(d) ==
  Items(d.tally.votes) \cup Items(d.tally.invalid)
    \cup Items(d.pool.candidates) \cup Items(d.pool.invalid)

\* run_decision.
RunDecision(r) ==
  LET d      == RunDirectionPhases(r)
      asks   == r.kind \in {"direction", "both"}
      checks == r.kind \in {"review", "both"}
  IN  IF budget < Cost(r) THEN EdgeOutcome(r, "budget_exhausted", {})
      ELSE IF r.key \in spawned THEN EdgeOutcome(r, "already spawned", {})
      ELSE IF asks /\ ~HasMinimumVoteFamilies(d.tally.votes)
      THEN EdgeOutcome(r, "direction track", {r.key})
      ELSE IF checks /\ ~HasMinimumValidReviewers(r.reviews)
      THEN EdgeOutcome(r, "review track", {r.key})
      ELSE [status |-> ComposeStatus(r.kind, d.tally), request |-> r,
            reason |-> IF asks /\ d.fallback THEN "fallback" ELSE "none",
            pick |-> IF asks THEN d.tally.pick ELSE NoPick, used |-> asks /\ d.used,
            consumed |-> Cost(r), record |-> {r.key},
            shown |-> IF asks THEN Shown(d) ELSE {},
            findings |-> IF checks THEN MergeFindings(r.reviews) ELSE << >>,
            enough |-> BudgetFooter(Cost(r), budget, Cost(r))]

-----------------------------------------------------------------------------
Idle == [kind |-> "none"]
NoOutcome == [status |-> "none"]

Init ==
  /\ request = Idle
  /\ budget \in Budgets
  /\ spawned \in SUBSET EscalateKeys      \* by earlier decisions
  /\ outcome = NoOutcome
  /\ decisions = 0

\* The host opens a request: direction, review or both about a point.
Ask ==
  /\ request = Idle
  /\ decisions < MaxDecisions
  /\ \E kind \in {"direction", "review", "both"}, key \in EscalateKeys, diverge \in BOOLEAN,
        ids \in {{}, {Universe}} :
       request' = [kind |-> kind, key |-> key, diverge |-> diverge, validIds |-> ids,
                   candidates |-> << >>, votes |-> << >>, reviews |-> << >>]
  /\ outcome' = NoOutcome
  /\ UNCHANGED <<budget, spawned, decisions>>

Directs == request # Idle /\ request.kind \in {"direction", "both"}
Reviews == request # Idle /\ request.kind \in {"review", "both"}

CandidateArrives ==
  /\ Directs /\ request.diverge /\ request.votes = << >>
  /\ Len(request.candidates) < MaxCandidates
  /\ \E c \in CandidateReplies : request' = [request EXCEPT !.candidates = Append(@, c)]
  /\ UNCHANGED <<budget, spawned, outcome, decisions>>

VoteArrives ==
  /\ Directs /\ request.reviews = << >>
  /\ Len(request.votes) < MaxVotes
  /\ \E v \in Votes : request' = [request EXCEPT !.votes = Append(@, v)]
  /\ UNCHANGED <<budget, spawned, outcome, decisions>>

ReviewArrives ==
  /\ Reviews
  /\ Len(request.reviews) < MaxReviews
  /\ \E r \in ReviewReplies : request' = [request EXCEPT !.reviews = Append(@, r)]
  /\ UNCHANGED <<budget, spawned, outcome, decisions>>

\* The host decides on what has come so far, pays and remembers.
Decide ==
  /\ request # Idle
  /\ LET o == RunDecision(request) IN
       /\ outcome' = o
       /\ budget' = budget - o.consumed
       /\ spawned' = spawned \cup o.record
  /\ decisions' = decisions + 1
  /\ request' = Idle

Next == Ask \/ CandidateArrives \/ VoteArrives \/ ReviewArrives \/ Decide

-----------------------------------------------------------------------------
Decided == outcome # NoOutcome
Backers(o) == {i \in 1 .. Len(o.request.votes) : VoteKey(o.request.votes[i]) = o.pick}
Reversed(s) == [i \in 1 .. Len(s) |-> s[Len(s) + 1 - i]]

\* A direction that run_decision calls converged was picked by at least two
\* votes, among votes of at least two families, without a vote for a human,
\* from what the candidates' authors proposed if there was a pool, and would
\* be the same had the answers arrived in the opposite order.
ConvergedIsBacked ==
  Decided /\ outcome.status = "converged" /\ outcome.request.kind # "review" =>
    LET r == outcome.request
        proposed == MergeCandidates(r.candidates)
    IN /\ Cardinality(Backers(outcome)) >= 2
       /\ Cardinality(Families(Sources(r.votes))) >= 2
       /\ Human(r.votes) = {}
       /\ outcome.used /\ outcome.pick[1] = "pick_task" =>
            \E i \in 1 .. Len(proposed) : VoteKey(proposed[i]) = outcome.pick
       /\ RunDirectionPhases([r EXCEPT !.votes = Reversed(@),
                                       !.candidates = Reversed(@)]).tally.pick = outcome.pick

\* The host is shown everything that was said: every well-formed vote and
\* candidate is in the brief and every reviewer that answered has a finding
\* there, one who said that it has none included; and when the budget footer promises another
\* round, the budget gate will not refuse it.
BriefIsComplete ==
  Decided =>
    LET r == outcome.request
        refused == outcome.reason \in {"budget_exhausted", "already spawned",
                                       "direction track", "review track"}
    IN /\ ~refused /\ r.kind # "review" =>
            /\ Items(r.votes) \subseteq outcome.shown
            /\ r.diverge => Items(MergeCandidates(r.candidates)) \subseteq outcome.shown
       /\ ~refused /\ r.kind # "direction" =>
            \A i \in 1 .. Len(r.reviews) :
              (r.reviews[i].ok /\ r.reviews[i].text # "blank") =>
                \E j \in 1 .. Len(outcome.findings) : outcome.findings[j].source = r.reviews[i].runner
       /\ outcome.enough <=> RunDecision(r).reason # "budget_exhausted"
       /\ budget >= 0
=============================================================================
