---------------------------- MODULE Convergence -----------------------------
(***************************************************************************)
(* audit-ledger.md: the rounds of an audit, how a round is appended, and   *)
(* what the numbers of blockers from round to round are taken to mean.     *)
(* The file is a record: whether it has a Round Summary at all ("torn" is  *)
(* the empty file between truncation and writing), whether the template's  *)
(* empty row is still there, and the filled rows in order.                 *)
(***************************************************************************)
EXTENDS Integers, Sequences, FiniteSets, Picks

Absent   == [file |-> "absent",  placeholder |-> FALSE, rows |-> << >>]
Torn     == [file |-> "torn",    placeholder |-> FALSE, rows |-> << >>]
Template == [file |-> "ok",      placeholder |-> TRUE,  rows |-> << >>]
\* A hand-edited file with a count that is not a number.
Garbled  == [file |-> "garbled", placeholder |-> FALSE, rows |-> << >>]

\* parse_ledger: an error, or the rows with at least one count.  Without the
\* Round Summary heading there are no rows, and no error either.
ParseFails(l) == l.file = "garbled"
ParseLedger(l) == l.rows

\* LedgerRound::blockers.
Blockers(rounds) == [i \in 1 .. Len(rounds) |-> rounds[i].high + rounds[i].critical]

\* The first element of a non-empty set of numbers.
Least(S) == CHOOSE x \in S : \A y \in S : x <= y

\* Mutant of EvaluateLedger: only the last two rounds are compared.
EvaluateLastPair(rounds, strict) ==
  LET b == Blockers(rounds) n == Len(b) IN
  IF n = 0 THEN "NO_OBSERVATIONS"
  ELSE IF b[n] = 0 THEN "CONVERGED"
  ELSE IF n > 1 /\ b[n] > b[n - 1] THEN "REBOUND"
  ELSE IF strict /\ n > 1 /\ b[n] = b[n - 1] THEN "STALLED"
  ELSE "CONVERGING"

EvaluateLedger(rounds, strict) ==
  LET b == Blockers(rounds)
      n == Len(b)
      Rises(i)  == b[i + 1] > b[i]
      Stalls(i) == strict /\ b[i + 1] = b[i] /\ b[i] > 0
      against   == {i \in 1 .. n - 1 : Rises(i) \/ Stalls(i)}
  IN  IF n = 0 THEN "NO_OBSERVATIONS"
      ELSE IF b[n] = 0 THEN "CONVERGED"
      ELSE IF against = {} THEN "CONVERGING"
      ELSE IF Rises(Least(against)) THEN "REBOUND" ELSE "STALLED"

\* LedgerCheckReport::exit_code, evaluate_text: what `lto check --ledger' returns.
LedgerExit(l, strict) ==
  IF l.file # "ok" THEN "error"
  ELSE IF EvaluateLedger(ParseLedger(l), strict) \in {"REBOUND", "STALLED"} THEN "1" ELSE "0"

-----------------------------------------------------------------------------
\* The sequence without repetitions of neighbours.
Deduped(b) == Picked(b, {i \in 1 .. Len(b) : i = 1 \/ b[i] # b[i - 1]})

\* peak_values: local maxima, the ends included.
PeakValues(b) ==
  LET d == Deduped(b)
      n == Len(d)
      Peak(i) == (i = 1 \/ d[i] > d[i - 1]) /\ (i = n \/ d[i] > d[i + 1])
  IN  IF n < 2 THEN d ELSE Picked(d, {i \in 1 .. n : Peak(i)})

ClassifyEnvelope(peaks) ==
  LET Pairwise(R(_, _)) == \A i \in 1 .. Len(peaks) - 1 : R(peaks[i], peaks[i + 1]) IN
  IF Len(peaks) < 2 THEN "unknown"
  ELSE IF Pairwise(LAMBDA x, y : y < x) THEN "shrinking"
  ELSE IF Pairwise(LAMBDA x, y : y > x) THEN "expanding"
  ELSE IF Pairwise(LAMBDA x, y : y = x) THEN "flat"
  ELSE "unknown"

\* Turns of the sequence of changes, the equal ones left out.
Turns(b) ==
  LET d == Deduped(b) IN
  Cardinality({i \in 2 .. Len(d) - 1 : (d[i] > d[i - 1]) # (d[i + 1] > d[i])})

\* has_lineage: both cells are there and filled.
HasLineage(round) == round.auditors # {} /\ round.coverage = "filled"

\* diagnose, for a ledger with at least one round.
Diagnose(rounds) ==
  LET b == Blockers(rounds)
      improving == \E i \in 1 .. Len(b) - 1 : b[i + 1] < b[i]
      worsening == \E i \in 1 .. Len(b) - 1 : b[i + 1] > b[i]
  IN [sufficient  |-> Len(b) >= 3,
      terminal    |-> IF b[Len(b)] = 0 THEN "zero" ELSE "nonzero",
      direction   |-> IF improving THEN IF worsening THEN "mixed" ELSE "improving"
                      ELSE IF worsening THEN "worsening" ELSE "flat",
      oscillation |-> CASE Turns(b) = 0 -> "none"
                        [] Turns(b) = 1 -> "single_rebound"
                        [] OTHER        -> "alternating",
      envelope    |-> ClassifyEnvelope(PeakValues(b)),
      lineage     |-> \A i \in 1 .. Len(rounds) : HasLineage(rounds[i])]

SuggestsEntropyReview(d) ==
  /\ d.sufficient
  /\ d.oscillation # "single_rebound"
  /\ d.oscillation = "alternating" \/ d.envelope # "shrinking"

-----------------------------------------------------------------------------
\* Mutant of EnsureExists: the template is written over the file.
EnsureExistsAlways(l) == Template

\* ensure_exists.
EnsureExists(l) == IF l.file = "absent" THEN Template ELSE l

\* next_round_label: R1 while the template's row is there.
NextRoundLabel(l) ==
  IF l.placeholder \/ l.rows = << >> THEN 1
  ELSE 1 + CHOOSE m \in {l.rows[i].label : i \in 1 .. Len(l.rows)} :
             \A i \in 1 .. Len(l.rows) : l.rows[i].label <= m

\* upgrade_schema: a row written before there was a coverage column gets an
\* empty cell there.
UpgradeSchema(rows) ==
  [i \in 1 .. Len(rows) |->
    IF rows[i].coverage = "none" THEN [rows[i] EXCEPT !.coverage = "empty"] ELSE rows[i]]

\* append refuses to write what it cannot read back: no rows after the
\* insertion (no Round Summary heading) or a count that does not parse.
CanAppend(l) == l.file = "ok"

\* The text append writes: the row replaces the placeholder or follows the
\* last round.
Appended(l, row) ==
  [l EXCEPT !.placeholder = FALSE,
            !.rows = Append(UpgradeSchema(l.rows), [row EXCEPT !.label = NextRoundLabel(l)])]
=============================================================================
