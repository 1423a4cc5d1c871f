----------------------------- MODULE StateMerge -----------------------------
(***************************************************************************)
(* How save_run reconciles two versions of a keyed collection of           *)
(* state.json: the one on disk (cur) and the one the command holds (nxt).  *)
(* An item is a record with a field key; a collection is a sequence.       *)
(***************************************************************************)
EXTENDS Naturals, Sequences, FiniteSets, Picks

Keys(s) == {s[i].key : i \in 1 .. Len(s)}

LastOf(s, k) ==
  LET n == CHOOSE i \in 1 .. Len(s) :
             s[i].key = k /\ \A j \in i + 1 .. Len(s) : s[j].key # k
  IN  s[n]

\* Positions whose key occurs nowhere later, nowhere earlier.
IsLast(s, i)  == \A j \in i + 1 .. Len(s) : s[j].key # s[i].key
IsFirst(s, i) == \A j \in 1 .. i - 1 : s[j].key # s[i].key

\* The items of cur in place, each replaced by the last item of nxt with its
\* key (a key that is twice in cur: the later one is replaced).
Kept(cur, nxt) ==
  [i \in 1 .. Len(cur) |->
    IF cur[i].key \in Keys(nxt) /\ IsLast(cur, i)
    THEN LastOf(nxt, cur[i].key) ELSE cur[i]]

\* The positions of nxt with new keys, once each.
NewAt(cur, nxt) == {i \in 1 .. Len(nxt) : nxt[i].key \notin Keys(cur) /\ IsFirst(nxt, i)}

\* The items of nxt with new keys, in order, once each.
Fresh(cur, nxt) ==
  [n \in 1 .. Cardinality(NewAt(cur, nxt)) |->
     LastOf(nxt, nxt[Nth(NewAt(cur, nxt), n)].key)]

Merged(cur, nxt) == Kept(cur, nxt) \o Fresh(cur, nxt)
=============================================================================
