------------------------------ MODULE MergeLoop -----------------------------
(***************************************************************************)
(* merge_stable_by_key as the code runs it: the disk's items are copied,   *)
(* a map from key to position is filled, then the command's items are      *)
(* taken one by one.                                                       *)
(***************************************************************************)
EXTENDS StateMerge

CONSTANTS Key, Val,   \* keys and contents of items
          MaxLen      \* bound: items in each version of the collection

VARIABLES cur, nxt,   \* the two versions
          merged,     \* the result so far
          positions,  \* key -> index in merged; 0 if there is none
          taken       \* items of nxt already taken

vars == <<cur, nxt, merged, positions, taken>>

Item == [key : Key, val : Val]
Collection == UNION {[1 .. n -> Item] : n \in 0 .. MaxLen}

LastIndex(s, k) ==
  IF k \in Keys(s)
  THEN CHOOSE i \in 1 .. Len(s) : s[i].key = k /\ IsLast(s, i) ELSE 0

Init ==
  /\ cur \in Collection
  /\ nxt \in Collection
  /\ merged = cur
  /\ positions = [k \in Key |-> LastIndex(cur, k)]
  /\ taken = 0

\* Mutant of Take: a known key is left alone.
TakeKeepsOld ==
  /\ taken < Len(nxt)
  /\ LET item == nxt[taken + 1]
         at   == positions[item.key] IN
       IF at # 0
       THEN UNCHANGED <<merged, positions>>
       ELSE /\ merged' = Append(merged, item)
            /\ positions' = [positions EXCEPT ![item.key] = Len(merged) + 1]
  /\ taken' = taken + 1
  /\ UNCHANGED <<cur, nxt>>

Take ==
  /\ taken < Len(nxt)
  /\ LET item == nxt[taken + 1]
         at   == positions[item.key] IN
       IF at # 0
       THEN /\ merged' = [merged EXCEPT ![at] = item]
            /\ UNCHANGED positions
       ELSE /\ merged' = Append(merged, item)
            /\ positions' = [positions EXCEPT ![item.key] = Len(merged) + 1]
  /\ taken' = taken + 1
  /\ UNCHANGED <<cur, nxt>>

-----------------------------------------------------------------------------
\* The result so far is the merge of the disk's version with the items taken.
IsMerge ==
  /\ merged = Merged(cur, SubSeq(nxt, 1, taken))
  /\ \A k \in Key : positions[k] = LastIndex(merged, k)

\* Merging the same version again changes nothing.
Idempotent == taken = Len(nxt) => Merged(merged, nxt) = merged
=============================================================================
