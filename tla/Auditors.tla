------------------------------ MODULE Auditors ------------------------------
(***************************************************************************)
(* Who audits a run, and how replies become the numbers of a round.        *)
(* A runtime name is the set of family keywords it contains; a runner of   *)
(* the pool is named by its own keyword.                                   *)
(***************************************************************************)
EXTENDS Integers, Sequences, FiniteSets, Picks

\* family: the first keyword of this list that the name contains decides; a
\* name without any is a family of its own.
FamilyKeys ==
  << <<"claude", "Claude">>, <<"anthropic", "Claude">>, <<"codex", "Codex">>,
     <<"gpt", "Codex">>, <<"openai", "Codex">>, <<"pi", "Pi">>, <<"deepseek", "Pi">>,
     <<"agy", "Agy">>, <<"gemini", "Agy">>, <<"google", "Agy">> >>

Family(runtime) ==
  LET hits == {i \in 1 .. Len(FamilyKeys) : FamilyKeys[i][1] \in runtime}
  IN  IF hits = {} THEN runtime
      ELSE {FamilyKeys[CHOOSE i \in hits : \A j \in hits : i <= j][2]}

SameFamily(a, b) == Family(a) = Family(b)

\* pick_auditors_with.
PickAuditorsWith(pool, host, allowSame) ==
  LET picked == Picked(pool, {i \in 1 .. Len(pool) : ~SameFamily({pool[i]}, host)})
  IN  IF allowSame \/ host = {"unknown"} \/ picked = << >> THEN pool ELSE picked

\* pick_auditors_preferred: restricted to, and ordered by, the preference.
PickAuditorsPreferred(pool, host, allowSame, prefer) ==
  LET base    == PickAuditorsWith(pool, host, allowSame)
      ordered == SelectSeq(prefer, LAMBDA r : \E i \in 1 .. Len(base) : base[i] = r)
  IN  IF ordered = << >> THEN base ELSE ordered

\* pick_auditors_for_run: two failures in a row rest a runner, unless the host
\* names whom it prefers.
PickAuditorsForRun(pool, host, allowSame, prefer, streaks) ==
  LET base == PickAuditorsPreferred(pool, host, allowSame, prefer)
  IN  IF prefer # << >> THEN base
      ELSE SelectSeq(base, LAMBDA r : streaks[r] < 2)

\* audit_failure_streaks: one runner.finished event of an audit.
StreakAfter(streaks, r, status) ==
  [streaks EXCEPT ![r] = IF status = "ok" THEN 0 ELSE @ + 1]

-----------------------------------------------------------------------------
\* normalize_severity; "bad" stands for a name it does not know and for an
\* item without severity or claim.
Severities == {"critical", "high", "medium", "low"}

\* parse_findings_text and parse_structured_findings.  A reply is the list of
\* items of its JSON (json is FALSE for prose) and the number of times the
\* words "high" and "critical" occur in it.  The result: are there structured
\* findings, and which.
ParseStructuredFindings(reply) ==
  LET valid == SelectSeq(reply.items, LAMBDA s : s \in Severities)
  IN  [some  |-> reply.json /\ (reply.items = << >> \/ valid # << >>),
       items |-> valid]

\* SeverityCounts::add_reply: words are counted where there is no structure.
AddReply(counts, reply) ==
  LET found == ParseStructuredFindings(reply)
      n(S)  == Cardinality({i \in 1 .. Len(found.items) : found.items[i] \in S})
  IN  IF found.some
      THEN [high |-> counts.high + n({"high"}), critical |-> counts.critical + n({"critical"})]
      ELSE [high |-> counts.high + reply.high, critical |-> counts.critical + reply.critical]
=============================================================================
