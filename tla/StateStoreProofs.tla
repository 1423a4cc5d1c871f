-------------------------- MODULE StateStoreProofs --------------------------
(***************************************************************************)
(* The safety of StateStore, for any processes, commands, windows and      *)
(* jobs and any bounds: what the flock of .state.lock, the second read of  *)
(* save_run and the merge guarantee together.  And the rules that Rules    *)
(* sets side by side: the gates of closing, the loop of that merge, the    *)
(* verdict over a ledger, what jobs may do, how a panel decides, and that  *)
(* a failure does not open the autonomous gate.                            *)
(***************************************************************************)
EXTENDS StateStore, Rules, StateMergeProofs

AnyItem == UNION {Item(c) : c \in Collections}
Shape == [phase : Phases, rest : Author, contract : Author,
          items : [Collections -> Seq(AnyItem)]]
Typed(s) == s \in Shape /\ \A c \in Collections : s.items[c] \in Seq(Item(c))

\* The items of t are those of s, or written by a.
Sourced(s, t, a) ==
  \A i \in 1 .. Len(t) : t[i].val = a \/ \E j \in 1 .. Len(s) : t[i] = s[j]

\* A copy of a copy.
LEMMA SourcedThrough ==
  ASSUME NEW s, NEW t, NEW u, NEW a, Sourced(s, t, a), Sourced(t, u, a)
  PROVE  Sourced(s, u, a)
BY DEF Sourced

LEMMA AppendFacts ==
  ASSUME NEW c \in Collections, NEW s \in Seq(Item(c)), NEW k \in KeyOf(c), NEW a \in Author
  PROVE  LET x == [key |-> k, val |-> a]
             t == Append(s, x) IN
         /\ t \in Seq(Item(c))
         /\ Extends(s, t)
         /\ Sourced(s, t, a)
         /\ OneEach(s) /\ k \notin Keys(s) => OneEach(t)
<1> DEFINE x == [key |-> k, val |-> a]
           t == Append(s, x)
<1>1. x \in Item(c) /\ x.key = k /\ x.val = a
  BY DEF Item
<1> HIDE DEF x
<1>2. /\ t \in Seq(Item(c)) /\ Len(t) = Len(s) + 1 /\ Len(s) \in Nat
      /\ t[Len(s) + 1] = x
      /\ \A i \in 1 .. Len(s) : t[i] = s[i]
  BY <1>1
<1> HIDE DEF t
<1>3. Extends(s, t)
  BY <1>2 DEF Extends
<1>4. Sourced(s, t, a)
  BY <1>1, <1>2 DEF Sourced
<1>5. ASSUME OneEach(s), k \notin Keys(s) PROVE OneEach(t)
  <2>1. \A i \in 1 .. Len(s) : s[i].key # k
    BY <1>5 DEF Keys
  <2> QED BY <1>1, <1>2, <1>5, <2>1 DEF OneEach
<1> QED BY <1>2, <1>3, <1>4, <1>5 DEF t, x

\* What Update makes of one collection.
Marked(s, k, v) ==
  [i \in 1 .. Len(s) |-> IF s[i].key = k /\ IsLast(s, i) THEN [s[i] EXCEPT !.val = v] ELSE s[i]]

LEMMA MarkedFacts ==
  ASSUME NEW c \in Collections, NEW s \in Seq(Item(c)), NEW k, NEW a \in Author
  PROVE  LET t == Marked(s, k, a) IN
         /\ t \in Seq(Item(c))
         /\ Extends(s, t)
         /\ Sourced(s, t, a)
         /\ OneEach(s) => OneEach(t)
<1> DEFINE t == Marked(s, k, a)
<1>1. t = [i \in 1 .. Len(s) |-> IF s[i].key = k /\ IsLast(s, i)
                                 THEN [s[i] EXCEPT !.val = a] ELSE s[i]]
  BY DEF Marked
<1>2. ASSUME NEW i \in 1 .. Len(s)
      PROVE  /\ t[i] \in Item(c) /\ t[i].key = s[i].key
             /\ t[i].val = a \/ t[i] = s[i]
  <2>1. s[i] \in Item(c)
    OBVIOUS
  <2>2. t[i] = IF s[i].key = k /\ IsLast(s, i) THEN [s[i] EXCEPT !.val = a] ELSE s[i]
    BY <1>1
  <2> QED BY <2>1, <2>2 DEF Item
<1>3. t \in Seq(Item(c)) /\ Len(t) = Len(s) /\ Len(s) \in Nat
  BY <1>1, <1>2
<1> HIDE DEF t
<1> QED BY <1>2, <1>3 DEF t, Extends, Sourced, OneEach

\* decision::next_id always finds an id: one of Len + 1 numbers is no key.
LEMMA NextIdFacts ==
  ASSUME NEW s, Typed(s)
  PROVE  NextId(s) \in Nat /\ NextId(s) \notin Keys(s.items["decisions"])
<1> DEFINE d == s.items["decisions"]
           f == [n \in 1 .. Len(d) + 1 |-> CHOOSE i \in 1 .. Len(d) : d[i].key = n]
<1>1. d \in Seq(Item("decisions")) /\ Len(d) \in Nat
  BY DEF Typed, Collections
<1> HIDE DEF d
<1>2. \E n \in 1 .. Len(d) + 1 : n \notin Keys(d)
  <2>1. SUFFICES ASSUME \A n \in 1 .. Len(d) + 1 : n \in Keys(d) PROVE FALSE
    OBVIOUS
  <2>2. ASSUME NEW n \in 1 .. Len(d) + 1
        PROVE  f[n] \in 1 .. Len(d) /\ d[f[n]].key = n
    <3>1. \E i \in 1 .. Len(d) : d[i].key = n
      BY <2>1 DEF Keys
    <3> QED BY <3>1
  <2>3. f \in [1 .. Len(d) + 1 -> 1 .. Len(d)]
    BY <2>2
  <2>4. \A n, m \in 1 .. Len(d) + 1 : f[n] = f[m] => n = m
    BY <2>2
  <2> HIDE DEF f
  <2>5. /\ IsFiniteSet(1 .. Len(d)) /\ Cardinality(1 .. Len(d)) = Len(d)
        /\ IsFiniteSet(1 .. Len(d) + 1) /\ Cardinality(1 .. Len(d) + 1) = Len(d) + 1
    BY <1>1, FS_Interval
  <2>6. \E n, m \in 1 .. Len(d) + 1 : n # m /\ f[n] = f[m]
    <3> DEFINE S == 1 .. Len(d) + 1
               T == 1 .. Len(d)
    <3>1. IsFiniteSet(S) /\ IsFiniteSet(T) /\ Cardinality(T) < Cardinality(S) /\ f \in [S -> T]
      BY <1>1, <2>3, <2>5
    <3> HIDE DEF S, T
    <3>2. \E n, m \in S : n # m /\ f[n] = f[m]
      BY <3>1, FS_PigeonHole
    <3> QED BY <3>2 DEF S
  <2> QED BY <2>4, <2>6
<1>3. NextId(s) = CHOOSE n \in 1 .. Len(d) + 1 : n \notin Keys(d)
  BY DEF NextId, d
<1>4. NextId(s) \in 1 .. Len(d) + 1 /\ NextId(s) \notin Keys(d)
  BY <1>2, <1>3
<1> QED BY <1>1, <1>4 DEF d
-----------------------------------------------------------------------------
\* The inductive invariant.
Steps == {"idle", "lock", "load", "edit", "emit", "reload", "persist",
          "sync", "mirror", "announce", "undo"}

TypeInv ==
  /\ pc \in [Proc -> Steps]
  /\ kind \in [Proc -> Commands \cup {"none"}]
  /\ ran \in [Proc -> 0 .. MaxCommands]
  /\ lock \in Proc \cup {Free}
  /\ Typed(disk)
  /\ snap \in [Proc -> Shape]
  /\ \A p \in Proc : Typed(snap[p])
  /\ orig \in [Proc -> [contract : Author, mirror : Author]]
  /\ mirror \in Author
  /\ agreed \in Author
  /\ overlapped \in BOOLEAN
  /\ crashes \in 0 .. MaxCrashes

\* Under the lock: save_run from its second read on, and a locked command from
\* its only read on.
Holding(p) ==
  \/ pc[p] \in {"reload", "persist", "mirror", "announce", "undo"}
  \/ pc[p] \in {"load", "edit"} /\ kind[p] \in LockedKinds

\* What a command is up to, one command at a time.
Flow(p) ==
  /\ pc[p] # "idle" => kind[p] \in Commands /\ ran[p] \in 1 .. MaxCommands
  /\ pc[p] = "emit" => kind[p] \in UnlockedKinds
  /\ pc[p] = "reload" => kind[p] \in UnlockedKinds
  /\ pc[p] = "sync" => kind[p] = "phase"
  /\ pc[p] \in {"mirror", "announce", "undo"} => kind[p] = "contract"
  /\ Holding(p) => lock = p

FlowInv == \A p \in Proc : Flow(p)

\* What a command under the lock knows of the file.
Snapped(p) ==
  /\ pc[p] = "edit" /\ kind[p] \in LockedKinds => snap[p] = disk
  /\ pc[p] = "persist" =>
       /\ \A c \in Collections :
            Extends(disk.items[c], snap[p].items[c]) /\ OneEach(snap[p].items[c])
       /\ snap[p].contract = IF kind[p] = "contract" THEN Me(p) ELSE disk.contract
  /\ pc[p] \in {"mirror", "announce", "undo"} => snap[p] = disk

SnapInv == \A p \in Proc : Snapped(p)

FileInv ==
  /\ disk.contract = agreed
  /\ \A c \in Collections : OneEach(disk.items[c])

\* While nothing was written under a command's hands, what it holds is its own
\* or on disk, and the disk holds the newest of each item.
Reading(p) ==
  \/ pc[p] \in {"edit", "emit", "reload", "persist"}
  \/ pc[p] = "lock" /\ kind[p] \in UnlockedKinds

Newest ==
  \A c \in Collections : \A i \in 1 .. Len(disk.items[c]) :
    /\ <<c, disk.items[c][i].key>> \in DOMAIN newest
    /\ disk.items[c][i].val = newest[<<c, disk.items[c][i].key>>]
OwnOrRead(p) ==
  Reading(p) => \A c \in Collections : Sourced(disk.items[c], snap[p].items[c], Me(p))

CurrentInv == ~overlapped => Newest /\ \A p \in Proc : OwnOrRead(p)

\* While nothing was killed either, the two files differ only between the
\* writes of a contract set.
Undisturbed == crashes = 0 /\ ~overlapped
Mirrored == mirror = disk.contract \/ \E p \in Proc : pc[p] = "mirror"
Copied(p) ==
  /\ pc[p] = "sync" => snap[p].contract = disk.contract
  /\ pc[p] \in {"persist", "mirror", "announce", "undo"} /\ kind[p] = "contract"
       => orig[p].mirror = orig[p].contract

MirrorInv == Undisturbed => Mirrored /\ \A p \in Proc : Copied(p)

IInv == TypeInv /\ FlowInv /\ SnapInv /\ FileInv /\ CurrentInv /\ MirrorInv

-----------------------------------------------------------------------------
\* What every edit keeps: the command's own items come on top of what it read.
Edited(p, s, e) ==
  /\ Typed(e)
  /\ \A c \in Collections :
       /\ Extends(s.items[c], e.items[c])
       /\ Sourced(s.items[c], e.items[c], Me(p))
  /\ kind[p] \in LockedKinds /\ (\A c \in Collections : OneEach(s.items[c]))
       => \A c \in Collections : OneEach(e.items[c])
  /\ e.contract = IF kind[p] = "contract" THEN Me(p) ELSE s.contract

LEMMA SameItems ==
  ASSUME NEW S, NEW s \in Seq(S), NEW a
  PROVE  Extends(s, s) /\ Sourced(s, s, a)
<1>1. Sourced(s, s, a)
  BY DEF Sourced
<1>2. Len(s) \in Nat
  OBVIOUS
<1> QED BY <1>1, <1>2 DEF Extends

LEMMA ItemInAny ==
  ASSUME NEW c \in Collections, NEW t \in Seq(Item(c))
  PROVE  t \in Seq(AnyItem)
<1>1. \A x \in Item(c) : x \in AnyItem
  BY DEF AnyItem
<1> QED BY <1>1

LEMMA OneCollection ==
  ASSUME NEW s, Typed(s), NEW d \in Collections, NEW t \in Seq(Item(d))
  PROVE  LET e == [s EXCEPT !.items[d] = t] IN
         /\ Typed(e)
         /\ e.contract = s.contract
         /\ \A c \in Collections : e.items[c] = IF c = d THEN t ELSE s.items[c]
<1> DEFINE e == [s EXCEPT !.items[d] = t]
<1>1. t \in Seq(AnyItem)
  BY ItemInAny
<1>2. e \in Shape /\ e.contract = s.contract
  BY <1>1 DEF Typed, Shape
<1>3. \A c \in Collections : e.items[c] = IF c = d THEN t ELSE s.items[c]
  BY DEF Typed, Shape
<1>4. \A c \in Collections : e.items[c] \in Seq(Item(c))
  BY <1>3 DEF Typed
<1> QED BY <1>2, <1>3, <1>4 DEF Typed

LEMMA PushFacts ==
  ASSUME NEW s, Typed(s), NEW d \in Collections, NEW k \in KeyOf(d), NEW a \in Author
  PROVE  LET e == Push(s, d, k, a) IN
         /\ Typed(e)
         /\ e.contract = s.contract
         /\ \A c \in Collections :
              /\ Extends(s.items[c], e.items[c])
              /\ Sourced(s.items[c], e.items[c], a)
              /\ OneEach(s.items[c]) /\ (c = d => k \notin Keys(s.items[c]))
                   => OneEach(e.items[c])
<1> DEFINE t == Append(s.items[d], [key |-> k, val |-> a])
           e == Push(s, d, k, a)
<1>1. \A c \in Collections : s.items[c] \in Seq(Item(c))
  BY DEF Typed
<1>2. /\ t \in Seq(Item(d)) /\ Extends(s.items[d], t) /\ Sourced(s.items[d], t, a)
      /\ OneEach(s.items[d]) /\ k \notin Keys(s.items[d]) => OneEach(t)
  BY <1>1, AppendFacts
<1>3. e = [s EXCEPT !.items[d] = t]
  BY DEF Push
<1> HIDE DEF t, e
<1>4. /\ Typed(e) /\ e.contract = s.contract
      /\ \A c \in Collections : e.items[c] = IF c = d THEN t ELSE s.items[c]
  BY <1>2, <1>3, OneCollection
<1>5. \A c \in Collections : Extends(s.items[c], s.items[c]) /\ Sourced(s.items[c], s.items[c], a)
  BY <1>1, SameItems
<1>6. /\ Typed(e) /\ e.contract = s.contract
      /\ \A c \in Collections :
              /\ Extends(s.items[c], e.items[c])
              /\ Sourced(s.items[c], e.items[c], a)
              /\ OneEach(s.items[c]) /\ (c = d => k \notin Keys(s.items[c]))
                   => OneEach(e.items[c])
  BY <1>2, <1>4, <1>5
<1> QED BY <1>6 DEF e

LEMMA UpdateFacts ==
  ASSUME NEW s, Typed(s), NEW d \in Collections, NEW k, NEW a \in Author
  PROVE  LET e == Update(s, d, k, a) IN
         /\ Typed(e)
         /\ e.contract = s.contract
         /\ \A c \in Collections :
              /\ Extends(s.items[c], e.items[c])
              /\ Sourced(s.items[c], e.items[c], a)
              /\ OneEach(s.items[c]) => OneEach(e.items[c])
<1> DEFINE t == Marked(s.items[d], k, a)
           e == Update(s, d, k, a)
<1>1. \A c \in Collections : s.items[c] \in Seq(Item(c))
  BY DEF Typed
<1>2. /\ t \in Seq(Item(d)) /\ Extends(s.items[d], t) /\ Sourced(s.items[d], t, a)
      /\ OneEach(s.items[d]) => OneEach(t)
  BY <1>1, MarkedFacts
<1>3. e = [s EXCEPT !.items[d] = t]
  BY DEF Update, Marked
<1> HIDE DEF t, e
<1>4. /\ Typed(e) /\ e.contract = s.contract
      /\ \A c \in Collections : e.items[c] = IF c = d THEN t ELSE s.items[c]
  BY <1>2, <1>3, OneCollection
<1>5. \A c \in Collections : Extends(s.items[c], s.items[c]) /\ Sourced(s.items[c], s.items[c], a)
  BY <1>1, SameItems
<1>6. /\ Typed(e) /\ e.contract = s.contract
      /\ \A c \in Collections :
              /\ Extends(s.items[c], e.items[c])
              /\ Sourced(s.items[c], e.items[c], a)
              /\ OneEach(s.items[c]) => OneEach(e.items[c])
  BY <1>2, <1>4, <1>5
<1> QED BY <1>6 DEF e

LEMMA EditFacts ==
  ASSUME NEW p \in Proc, NEW s, Typed(s), kind[p] \in Commands, Me(p) \in Author,
         NEW e \in Edits(p, s)
  PROVE  Edited(p, s, e)
<1> DEFINE a == Me(p)
<1>1. \A c \in Collections : s.items[c] \in Seq(Item(c))
  BY DEF Typed
<1>2. \A c \in Collections : Extends(s.items[c], s.items[c]) /\ Sourced(s.items[c], s.items[c], a)
  BY <1>1, SameItems
<1>3. kind[p] \in {"task", "preflight", "phase", "dispatch", "collect", "decide",
                   "reaffirm", "contract"}
  BY CommandsAssumption DEF LockedKinds, UnlockedKinds
<1> HIDE DEF a
<1>4. ASSUME kind[p] \in {"task", "preflight"} PROVE Edited(p, s, e)
  <2>1. e = [s EXCEPT !.rest = a]
    BY <1>4 DEF Edits, a
  <2>2. e \in Shape /\ e.contract = s.contract /\ e.items = s.items
    BY <2>1 DEF Typed, Shape, a
  <2> QED BY <1>1, <1>2, <1>4, <2>2 DEF Edited, Typed, a
<1>5. ASSUME kind[p] = "contract" PROVE Edited(p, s, e)
  <2>1. e = [s EXCEPT !.contract = a]
    BY <1>5 DEF Edits, a
  <2>2. e \in Shape /\ e.contract = a /\ e.items = s.items
    BY <2>1 DEF Typed, Shape, a
  <2> QED BY <1>1, <1>2, <1>5, <2>2 DEF Edited, Typed, a
<1>6. ASSUME kind[p] = "phase" PROVE Edited(p, s, e)
  <2>1. PICK to \in Phases \ {s.phase} :
          e = [Push(s, "transitions", <<s.phase, to, a>>, a) EXCEPT !.phase = to]
    BY <1>6 DEF Edits, a
  <2> DEFINE f == Push(s, "transitions", <<s.phase, to, a>>, a)
  <2>2. "transitions" \in Collections /\ <<s.phase, to, a>> \in KeyOf("transitions")
    BY DEF Typed, Shape, Collections, KeyOf, a
  <2>3. /\ Typed(f) /\ f.contract = s.contract
        /\ \A c \in Collections :
             Extends(s.items[c], f.items[c]) /\ Sourced(s.items[c], f.items[c], a)
    BY <2>2, PushFacts DEF a
  <2> HIDE DEF f
  <2>4. e \in Shape /\ e.contract = f.contract /\ e.items = f.items
    BY <2>1, <2>3 DEF Typed, Shape, f
  <2> QED BY <1>6, <2>3, <2>4 DEF Edited, Typed, a, LockedKinds
<1>7. ASSUME kind[p] = "dispatch" PROVE Edited(p, s, e)
  <2>1. "windows" \in Collections /\ KeyOf("windows") = Window
    BY DEF Collections, KeyOf
  <2>2. \/ \E w \in Window : e = Push(s, "windows", w, a)
        \/ \E w \in Keys(s.items["windows"]) : e = Update(s, "windows", w, a)
    BY <1>7 DEF Edits, a
  <2>3. ASSUME NEW w \in Window, e = Push(s, "windows", w, a) PROVE Edited(p, s, e)
    <3>1. /\ Typed(e) /\ e.contract = s.contract
          /\ \A c \in Collections :
               Extends(s.items[c], e.items[c]) /\ Sourced(s.items[c], e.items[c], a)
      BY <2>1, <2>3, PushFacts DEF a
    <3> QED BY <1>7, <3>1 DEF Edited, a, LockedKinds
  <2>4. ASSUME NEW w \in Keys(s.items["windows"]), e = Update(s, "windows", w, a)
        PROVE  Edited(p, s, e)
    <3>1. /\ Typed(e) /\ e.contract = s.contract
          /\ \A c \in Collections :
               Extends(s.items[c], e.items[c]) /\ Sourced(s.items[c], e.items[c], a)
      BY <2>1, <2>4, UpdateFacts DEF a
    <3> QED BY <1>7, <3>1 DEF Edited, a, LockedKinds
  <2> QED BY <2>2, <2>3, <2>4
<1>8. ASSUME kind[p] = "collect" PROVE Edited(p, s, e)
  <2>1. PICK j \in Job : e = Push(s, "agent_runs", <<j, 1>>, a)
    BY <1>8 DEF Edits, a
  <2>2. "agent_runs" \in Collections /\ <<j, 1>> \in KeyOf("agent_runs")
    BY DEF Collections, KeyOf
  <2>3. /\ Typed(e) /\ e.contract = s.contract
        /\ \A c \in Collections :
             Extends(s.items[c], e.items[c]) /\ Sourced(s.items[c], e.items[c], a)
    BY <2>1, <2>2, PushFacts DEF a
  <2> QED BY <1>8, <2>3 DEF Edited, a, LockedKinds
<1>9. ASSUME kind[p] = "decide" PROVE Edited(p, s, e)
  <2>1. e = Push(s, "decisions", NextId(s), a)
    BY <1>9 DEF Edits, a
  <2>2. "decisions" \in Collections /\ KeyOf("decisions") = Nat
    BY DEF Collections, KeyOf
  <2>3. NextId(s) \in Nat /\ NextId(s) \notin Keys(s.items["decisions"])
    BY NextIdFacts
  <2>4. /\ Typed(e) /\ e.contract = s.contract
        /\ \A c \in Collections :
             /\ Extends(s.items[c], e.items[c]) /\ Sourced(s.items[c], e.items[c], a)
             /\ OneEach(s.items[c]) => OneEach(e.items[c])
    BY <2>1, <2>2, <2>3, PushFacts DEF a
  <2> QED BY <1>9, <2>4 DEF Edited, a
<1>10. ASSUME kind[p] = "reaffirm" PROVE Edited(p, s, e)
  <2>1. PICK k \in Keys(s.items["decisions"]) : e = Update(s, "decisions", k, a)
    BY <1>10 DEF Edits, a
  <2>2. "decisions" \in Collections
    BY DEF Collections
  <2>4. /\ Typed(e) /\ e.contract = s.contract
        /\ \A c \in Collections :
             /\ Extends(s.items[c], e.items[c]) /\ Sourced(s.items[c], e.items[c], a)
             /\ OneEach(s.items[c]) => OneEach(e.items[c])
    BY <2>1, <2>2, UpdateFacts DEF a
  <2> QED BY <1>10, <2>4 DEF Edited, a
<1> QED BY <1>3, <1>4, <1>5, <1>6, <1>7, <1>8, <1>9, <1>10

\* What save_run writes: the merge keeps the disk's contract and keys, and its
\* items are the disk's or the command's.
LEMMA ReconciledFacts ==
  ASSUME NEW old, Typed(old), NEW new, Typed(new), NEW a
  PROVE  LET m == Reconciled(old, new) IN
         /\ Typed(m)
         /\ m.contract = old.contract
         /\ \A c \in Collections :
              /\ Extends(old.items[c], m.items[c])
              /\ OneEach(old.items[c]) => OneEach(m.items[c])
              /\ Sourced(old.items[c], new.items[c], a) => Sourced(old.items[c], m.items[c], a)
<1> DEFINE m == Reconciled(old, new)
           it == [c \in Collections |-> Merged(old.items[c], new.items[c])]
<1>1. m = [new EXCEPT !.items = it, !.contract = old.contract]
  BY DEF Reconciled
<1>2. ASSUME NEW c \in Collections
      PROVE  /\ it[c] \in Seq(Item(c)) /\ it[c] \in Seq(AnyItem)
             /\ Extends(old.items[c], it[c])
             /\ OneEach(old.items[c]) => OneEach(it[c])
             /\ Sourced(old.items[c], new.items[c], a) => Sourced(old.items[c], it[c], a)
  <2> DEFINE x == old.items[c]
             y == new.items[c]
             z == Merged(x, y)
  <2>1. x \in Seq(Item(c)) /\ y \in Seq(Item(c))
    BY DEF Typed
  <2> HIDE DEF x, y
  <2>2. /\ z \in Seq(Item(c)) /\ Extends(x, z) /\ (OneEach(x) => OneEach(z))
        /\ \A i \in 1 .. Len(z) : \/ \E j \in 1 .. Len(x) : z[i] = x[j]
                                  \/ \E j \in 1 .. Len(y) : z[i] = y[j]
    BY <2>1, MergeTheorem
  <2> HIDE DEF z
  <2>3. Sourced(x, y, a) => Sourced(x, z, a)
    BY <2>2 DEF Sourced
  <2>4. it[c] = z
    BY DEF x, y, z
  <2>5. z \in Seq(AnyItem)
    BY <2>2, ItemInAny
  <2> HIDE DEF it
  <2> QED BY <2>2, <2>3, <2>4, <2>5 DEF x, y
<1>3. it \in [Collections -> Seq(AnyItem)]
  BY <1>2
<1> HIDE DEF it
<1>4. m \in Shape /\ m.contract = old.contract /\ m.items = it
  BY <1>1, <1>3 DEF Typed, Shape
<1> QED BY <1>2, <1>4 DEF Typed

-----------------------------------------------------------------------------
LEMMA BlankTyped == Typed(Blank) /\ NoOne \in Author /\ NoOrig \in [contract : Author, mirror : Author]
<1>1. NoOne \in Author
  BY DEF Author
<1>2. << >> \in Seq(AnyItem) /\ \A c \in Collections : << >> \in Seq(Item(c))
  OBVIOUS
<1>3. Blank \in Shape
  BY <1>1, <1>2 DEF Blank, Shape, Phases
<1>4. \A c \in Collections : Blank.items[c] = << >>
  BY DEF Blank
<1> QED BY <1>1, <1>2, <1>3, <1>4 DEF Typed, NoOrig

LEMMA MeIsAuthor ==
  ASSUME IInv, NEW p \in Proc, pc[p] # "idle"
  PROVE  Me(p) \in Author /\ kind[p] \in Commands
BY DEF IInv, TypeInv, FlowInv, Flow, Me, Author

\* The lock has one holder.
LEMMA Exclusive ==
  ASSUME FlowInv, NEW p \in Proc, NEW q \in Proc, Holding(p), Holding(q)
  PROVE  p = q
BY DEF FlowInv, Flow

LEMMA TypeStep ==
  ASSUME IInv, [Next]_vars
  PROVE  TypeInv'
<1> USE DEF TypeInv
<1>1. CASE UNCHANGED vars
  BY <1>1 DEF IInv, vars, fileVars, histVars
<1>2. ASSUME NEW p \in Proc, Begin(p) \/ Step(p) \/ Crash(p)
      PROVE  TypeInv'
  <2>0. TypeInv /\ MaxCommands \in Nat /\ MaxCrashes \in Nat /\ "none" \in Commands \cup {"none"}
    BY StoreBounds DEF IInv
  <2>0a. /\ pc[p] # "idle" => ran[p] \in 1 .. MaxCommands
         /\ \A q \in Proc : snap[q] \in Shape
    BY DEF IInv, FlowInv, Flow
  <2>1. ASSUME Finish(p)
        PROVE  /\ pc' \in [Proc -> Steps] /\ kind' \in [Proc -> Commands \cup {"none"}]
               /\ snap' \in [Proc -> Shape] /\ \A q \in Proc : Typed(snap'[q])
               /\ orig' \in [Proc -> [contract : Author, mirror : Author]]
    <3>1. Blank \in Shape /\ Typed(Blank) /\ NoOrig \in [contract : Author, mirror : Author]
      BY BlankTyped DEF Typed
    <3>2. pc' = [pc EXCEPT ![p] = "idle"] /\ "idle" \in Steps
      BY <2>1 DEF Finish, Goto, Steps
    <3> QED BY <2>0, <2>1, <3>1, <3>2 DEF Finish
  <2>2. ASSUME NEW t \in Steps, Stay(p, t)
        PROVE  /\ pc' \in [Proc -> Steps] /\ kind' \in [Proc -> Commands \cup {"none"}]
               /\ snap' \in [Proc -> Shape] /\ \A q \in Proc : Typed(snap'[q])
               /\ orig' \in [Proc -> [contract : Author, mirror : Author]]
    BY <2>0, <2>2 DEF Stay, Goto
  <2>3. ASSUME Overlap(p) PROVE overlapped' \in BOOLEAN
    BY <2>0, <2>3 DEF Overlap
  <2>4. CASE Begin(p)
    <3>1. PICK k \in Commands : /\ kind' = [kind EXCEPT ![p] = k]
                                /\ Goto(p, IF k \in LockedKinds THEN "lock" ELSE "load")
      BY <2>4 DEF Begin
    <3>2. pc' \in [Proc -> Steps]
      BY <2>0, <3>1 DEF Goto, Steps
    <3>3. ran' \in [Proc -> 0 .. MaxCommands]
      BY <2>0, <2>4 DEF Begin
    <3> QED BY <2>0, <2>4, <3>1, <3>2, <3>3 DEF Begin, fileVars, histVars
  <2>5. CASE Acquire(p)
    <3>1. pc' \in [Proc -> Steps]
      BY <2>0, <2>5 DEF Acquire, Goto, Steps
    <3> QED BY <2>0, <2>5, <3>1 DEF Acquire, fileVars, histVars
  <2>6. CASE Load(p)
    <3>1. pc' \in [Proc -> Steps]
      BY <2>0, <2>6 DEF Load, Goto, Steps
    <3>2. disk \in Shape
      BY <2>0 DEF Typed
    <3> QED BY <2>0, <2>6, <3>1, <3>2 DEF Load, fileVars, histVars
  <2>7. CASE Edit(p)
    <3>1. ASSUME NEW e \in Edits(p, snap[p]), snap' = [snap EXCEPT ![p] = e]
          PROVE  snap' \in [Proc -> Shape] /\ \A q \in Proc : Typed(snap'[q])
      <4>1. Typed(e)
        BY <2>0, <2>7, MeIsAuthor, EditFacts DEF Edit, Edited
      <4> QED BY <2>0, <3>1, <4>1 DEF Typed
    <3>2. CASE /\ snap' \in {[snap EXCEPT ![p] = s] : s \in Edits(p, snap[p])}
               /\ Goto(p, CASE kind[p] = "collect" -> "emit"
                            [] kind[p] \in LockedKinds -> "persist"
                            [] OTHER -> "lock")
               /\ orig' = [orig EXCEPT ![p] = [contract |-> snap[p].contract, mirror |-> mirror]]
               /\ UNCHANGED <<lock, kind>>
      <4>1. snap' \in [Proc -> Shape] /\ \A q \in Proc : Typed(snap'[q])
        BY <3>1, <3>2
      <4>2. pc' \in [Proc -> Steps]
        BY <2>0, <3>2 DEF Goto, Steps
      <4>3. orig' \in [Proc -> [contract : Author, mirror : Author]]
        BY <2>0, <2>0a, <3>2 DEF Shape
      <4> QED BY <2>0, <2>7, <3>2, <4>1, <4>2, <4>3 DEF Edit, fileVars, histVars
    <3>3. CASE Finish(p) /\ lock' = IF lock = p THEN Free ELSE lock
      BY <2>0, <2>1, <2>7, <3>3 DEF Edit, fileVars, histVars
    <3> QED BY <2>7, <3>2, <3>3 DEF Edit
  <2>8. CASE EmitFirst(p)
    <3>1. "lock" \in Steps
      BY DEF Steps
    <3> QED BY <2>0, <2>1, <2>2, <2>8, <3>1 DEF EmitFirst, fileVars, histVars
  <2>9. CASE Reload(p)
    <3>1. pc' \in [Proc -> Steps]
      BY <2>0, <2>9 DEF Reload, Goto, Steps
    <3>2. Typed(Reconciled(disk, snap[p]))
      BY <2>0, ReconciledFacts
    <3>3. snap' \in [Proc -> Shape] /\ \A q \in Proc : Typed(snap'[q])
      BY <2>0, <2>9, <3>2 DEF Reload, Typed
    <3> QED BY <2>0, <2>9, <3>1, <3>3 DEF Reload, fileVars, histVars
  <2>10. CASE Persist(p)
    <3>1. "mirror" \in Steps /\ "sync" \in Steps
      BY DEF Steps
    <3>2. /\ pc' \in [Proc -> Steps] /\ kind' \in [Proc -> Commands \cup {"none"}]
          /\ snap' \in [Proc -> Shape] /\ \A q \in Proc : Typed(snap'[q])
          /\ orig' \in [Proc -> [contract : Author, mirror : Author]]
          /\ lock' \in Proc \cup {Free}
      BY <2>0, <2>1, <2>2, <2>10, <3>1 DEF Persist
    <3>3. agreed' \in Author
      BY <2>0, <2>10, MeIsAuthor DEF Persist
    <3> QED BY <2>0, <2>3, <2>10, <3>2, <3>3 DEF Persist
  <2>11. CASE Sync(p)
    BY <2>0, <2>0a, <2>1, <2>11 DEF Sync, histVars, Shape
  <2>12. CASE Mirror(p)
    <3>1. pc' \in [Proc -> Steps]
      BY <2>0, <2>12 DEF Mirror, Goto, Steps
    <3> QED BY <2>0, <2>0a, <2>12, <3>1 DEF Mirror, histVars, Shape
  <2>13. CASE Announce(p)
    <3>1. "undo" \in Steps
      BY DEF Steps
    <3> QED BY <2>0, <2>1, <2>2, <2>13, <3>1 DEF Announce, fileVars, histVars
  <2>14. CASE Undo(p)
    <3>1. Typed(disk')
      <4>1. Typed(snap[p]) /\ orig[p].contract \in Author
        BY <2>0
      <4>2. disk' \in Shape /\ disk'.items = snap[p].items
        BY <2>14, <4>1 DEF Undo, Typed, Shape
      <4> QED BY <4>1, <4>2 DEF Typed
    <3> QED BY <2>0, <2>1, <2>3, <2>14, <3>1 DEF Undo
  <2>15. CASE Crash(p)
    BY <2>0, <2>1, <2>15 DEF Crash, fileVars, histVars
  <2> QED BY <1>2, <2>4, <2>5, <2>6, <2>7, <2>8, <2>9, <2>10, <2>11, <2>12, <2>13, <2>14, <2>15
          DEF Step
<1> QED BY <1>1, <1>2 DEF Next, Quiet

\* A step of p touches no other command, and takes the lock only when it is free.
Aside(p) ==
  /\ \A q \in Proc \ {p} :
       /\ pc'[q] = pc[q] /\ kind'[q] = kind[q] /\ ran'[q] = ran[q]
       /\ snap'[q] = snap[q] /\ orig'[q] = orig[q]
  /\ \/ lock' = lock
     \/ lock = Free /\ lock' = p
     \/ lock = p /\ lock' = Free

LEMMA AsideStep ==
  ASSUME IInv, NEW p \in Proc, Begin(p) \/ Step(p) \/ Crash(p)
  PROVE  Aside(p)
<1>1. TypeInv /\ FlowInv
  BY DEF IInv
<1> USE DEF TypeInv, Aside
<1>2. ASSUME Finish(p)
      PROVE  \A q \in Proc \ {p} : /\ pc'[q] = pc[q] /\ kind'[q] = kind[q]
                                   /\ snap'[q] = snap[q] /\ orig'[q] = orig[q]
  BY <1>1, <1>2 DEF Finish, Goto
<1>3. ASSUME NEW t, Stay(p, t)
      PROVE  \A q \in Proc \ {p} : /\ pc'[q] = pc[q] /\ kind'[q] = kind[q]
                                   /\ snap'[q] = snap[q] /\ orig'[q] = orig[q]
  BY <1>1, <1>3 DEF Stay, Goto
<1>4. pc[p] \in {"persist", "announce", "undo"} => lock = p
  BY <1>1 DEF FlowInv, Flow, Holding
<1>5. CASE Begin(p)
  BY <1>1, <1>5 DEF Begin, Goto
<1>6. CASE Acquire(p)
  BY <1>1, <1>6 DEF Acquire, Goto
<1>7. CASE Load(p)
  BY <1>1, <1>7 DEF Load, Goto
<1>8. CASE Edit(p)
  <2>1. CASE /\ snap' \in {[snap EXCEPT ![p] = e] : e \in Edits(p, snap[p])}
             /\ Goto(p, CASE kind[p] = "collect" -> "emit"
                          [] kind[p] \in LockedKinds -> "persist"
                          [] OTHER -> "lock")
             /\ orig' = [orig EXCEPT ![p] = [contract |-> snap[p].contract, mirror |-> mirror]]
             /\ UNCHANGED <<lock, kind>>
    <3>1. PICK e : snap' = [snap EXCEPT ![p] = e]
      BY <2>1
    <3>2. PICK t : pc' = [pc EXCEPT ![p] = t]
      BY <2>1 DEF Goto
    <3> QED BY <1>1, <1>8, <2>1, <3>1, <3>2 DEF Edit
  <2>2. CASE Finish(p) /\ lock' = IF lock = p THEN Free ELSE lock
    BY <1>1, <1>2, <1>8, <2>2 DEF Edit
  <2> QED BY <1>8, <2>1, <2>2 DEF Edit
<1>9. CASE EmitFirst(p)
  BY <1>1, <1>2, <1>3, <1>9 DEF EmitFirst
<1>10. CASE Reload(p)
  BY <1>1, <1>10 DEF Reload, Goto
<1>11. CASE Persist(p)
  BY <1>1, <1>2, <1>3, <1>4, <1>11 DEF Persist
<1>12. CASE Sync(p)
  BY <1>1, <1>2, <1>12 DEF Sync
<1>13. CASE Mirror(p)
  BY <1>1, <1>13 DEF Mirror, Goto
<1>14. CASE Announce(p)
  BY <1>1, <1>2, <1>3, <1>4, <1>14 DEF Announce
<1>15. CASE Undo(p)
  BY <1>1, <1>2, <1>4, <1>15 DEF Undo
<1>16. CASE Crash(p)
  BY <1>1, <1>2, <1>16 DEF Crash
<1> QED BY <1>5, <1>6, <1>7, <1>8, <1>9, <1>10, <1>11, <1>12, <1>13, <1>14, <1>15, <1>16 DEF Step

LEMMA FlowStep ==
  ASSUME IInv, [Next]_vars
  PROVE  FlowInv'
<1>1. TypeInv /\ FlowInv
  BY DEF IInv
<1>2. CASE UNCHANGED vars
  BY <1>1, <1>2 DEF FlowInv, Flow, Holding, vars
<1>3. ASSUME NEW p \in Proc, Begin(p) \/ Step(p) \/ Crash(p)
      PROVE  FlowInv'
  <2>1. Aside(p)
    BY <1>3, AsideStep
  <2>2. ASSUME NEW q \in Proc \ {p} PROVE Flow(q)'
    <3>1. Flow(q) /\ q # Free /\ p # Free
      BY <1>1, StoreEnvironment DEF FlowInv, Flow
    <3> QED BY <2>1, <3>1 DEF Flow, Aside, Holding
  <2>3. Flow(p)'
    <3> USE DEF TypeInv, Flow, Holding
    <3>1. Flow(p) /\ ran[p] \in 0 .. MaxCommands /\ MaxCommands \in Nat
      BY <1>1, StoreBounds DEF FlowInv, Flow
    <3>2. ASSUME Finish(p) PROVE pc'[p] = "idle" /\ kind'[p] = "none"
      BY <1>1, <3>2 DEF Finish, Goto
    <3>3. ASSUME NEW t, Stay(p, t) PROVE pc'[p] = t /\ kind'[p] = kind[p]
      BY <1>1, <3>3 DEF Stay, Goto
    <3>4. kind[p] \in Commands => kind[p] \in LockedKinds \/ kind[p] \in UnlockedKinds
      BY CommandsAssumption
    <3>5. CASE Begin(p)
      <4>1. PICK k \in Commands : /\ kind' = [kind EXCEPT ![p] = k]
                                  /\ Goto(p, IF k \in LockedKinds THEN "lock" ELSE "load")
        BY <3>5 DEF Begin
      <4>2. kind'[p] = k /\ pc'[p] = IF k \in LockedKinds THEN "lock" ELSE "load"
        BY <1>1, <4>1 DEF Goto
      <4>3. ran'[p] \in 1 .. MaxCommands
        BY <1>1, <3>1, <3>5 DEF Begin
      <4> QED BY <4>2, <4>3
    <3>6. CASE Acquire(p)
      BY <1>1, <3>1, <3>4, <3>6 DEF Acquire, Goto
    <3>7. CASE Load(p)
      BY <1>1, <3>1, <3>7 DEF Load, Goto
    <3>8. CASE Edit(p)
      <4>1. CASE /\ Goto(p, CASE kind[p] = "collect" -> "emit"
                              [] kind[p] \in LockedKinds -> "persist"
                              [] OTHER -> "lock")
                 /\ UNCHANGED <<lock, kind>>
        <5>1. kind[p] = "collect" => kind[p] \in UnlockedKinds /\ kind[p] \notin LockedKinds
          BY DEF UnlockedKinds, LockedKinds
        <5>2. pc'[p] = CASE kind[p] = "collect" -> "emit"
                              [] kind[p] \in LockedKinds -> "persist"
                              [] OTHER -> "lock"
          BY <1>1, <4>1 DEF Goto
        <5>3. \/ pc'[p] = "emit" /\ kind[p] = "collect"
              \/ pc'[p] = "persist" /\ kind[p] \in LockedKinds
              \/ pc'[p] = "lock"
          BY <5>2
        <5> QED BY <1>1, <3>1, <3>8, <4>1, <5>1, <5>3 DEF Edit
      <4>2. CASE Finish(p)
        BY <3>2, <4>2
      <4> QED BY <3>8, <4>1, <4>2 DEF Edit
    <3>9. CASE EmitFirst(p)
      BY <1>1, <3>1, <3>2, <3>3, <3>9 DEF EmitFirst
    <3>10. CASE Reload(p)
      BY <1>1, <3>1, <3>10 DEF Reload, Goto
    <3>11. CASE Persist(p)
      <4>1. \/ pc'[p] = "idle"
            \/ pc'[p] = "sync" /\ kind[p] = "phase" /\ kind'[p] = kind[p]
            \/ pc'[p] = "mirror" /\ kind[p] = "contract" /\ kind'[p] = kind[p] /\ lock' = lock
        BY <3>2, <3>3, <3>11 DEF Persist
      <4> QED BY <3>1, <3>11, <4>1 DEF Persist
    <3>12. CASE Sync(p)
      BY <3>2, <3>12 DEF Sync
    <3>13. CASE Mirror(p)
      BY <1>1, <3>1, <3>13 DEF Mirror, Goto
    <3>14. CASE Announce(p)
      BY <3>1, <3>2, <3>3, <3>14 DEF Announce
    <3>15. CASE Undo(p)
      BY <3>2, <3>15 DEF Undo
    <3>16. CASE Crash(p)
      BY <3>2, <3>16 DEF Crash
    <3> QED BY <1>3, <3>5, <3>6, <3>7, <3>8, <3>9, <3>10, <3>11, <3>12, <3>13, <3>14, <3>15, <3>16
            DEF Step
  <2>4. \A q \in Proc : Flow(q)'
    BY <2>2, <2>3
  <2> QED BY <2>4 DEF FlowInv, Flow
<1> QED BY <1>2, <1>3 DEF Next, Quiet

-----------------------------------------------------------------------------
\* The file changes only in Persist and Undo, by the holder of the lock.
LEMMA FilesStep ==
  ASSUME NEW p \in Proc, Begin(p) \/ Step(p) \/ Crash(p)
  PROVE  \/ UNCHANGED <<disk, newest, agreed, overlapped>>
         \/ Persist(p)
         \/ Undo(p)
BY DEF Step, Begin, Acquire, Load, Edit, EmitFirst, Reload, Sync, Mirror, Announce, Crash,
       fileVars, histVars

LEMMA SnapStep ==
  ASSUME IInv, [Next]_vars
  PROVE  SnapInv'
<1>1. TypeInv /\ FlowInv /\ SnapInv /\ FileInv
  BY DEF IInv
<1>2. CASE UNCHANGED vars
  BY <1>1, <1>2 DEF SnapInv, Snapped, Me, vars, fileVars
<1>3. ASSUME NEW p \in Proc, Begin(p) \/ Step(p) \/ Crash(p)
      PROVE  SnapInv'
  <2>1. Aside(p)
    BY <1>3, AsideStep
  <2>2. ASSUME NEW q \in Proc \ {p} PROVE Snapped(q)'
    <3>1. Snapped(q)
      BY <1>1 DEF SnapInv
    <3>2. CASE UNCHANGED disk
      BY <2>1, <3>1, <3>2 DEF Snapped, Aside, Me
    <3>3. CASE Persist(p) \/ Undo(p)
      <4>1. Holding(p)
        BY <3>3 DEF Persist, Undo, Holding
      <4>2. ~Holding(q)
        BY <1>1, <4>1, Exclusive
      <4> QED BY <2>1, <4>2 DEF Snapped, Holding, Aside
    <3> QED BY <1>3, <3>2, <3>3, FilesStep
  <2>3. Snapped(p)'
    <3> USE DEF TypeInv
    <3>1. Snapped(p)
      BY <1>1 DEF SnapInv
    <3>2. ASSUME Finish(p) PROVE Snapped(p)'
      <4>1. pc'[p] = "idle"
        BY <1>1, <3>2 DEF Finish, Goto
      <4> QED BY <4>1 DEF Snapped
    <3>3. ASSUME pc'[p] \in {"lock", "load", "emit", "reload", "sync"} PROVE Snapped(p)'
      BY <3>3 DEF Snapped
    <3>4. CASE Begin(p)
      <4>1. PICK k \in Commands : Goto(p, IF k \in LockedKinds THEN "lock" ELSE "load")
        BY <3>4 DEF Begin
      <4>2. pc'[p] \in {"lock", "load"}
        BY <1>1, <4>1 DEF Goto
      <4> QED BY <3>3, <4>2
    <3>5. CASE Acquire(p)
      <4>1. pc'[p] \in {"load", "reload"}
        BY <1>1, <3>5 DEF Acquire, Goto
      <4> QED BY <3>3, <4>1
    <3>6. CASE Load(p)
      <4>1. pc'[p] = "edit" /\ snap'[p] = disk'
        BY <1>1, <3>6 DEF Load, Goto, fileVars
      <4> QED BY <4>1 DEF Snapped
    <3>7. CASE Edit(p)
      <4>1. ASSUME NEW e \in Edits(p, snap[p]), snap' = [snap EXCEPT ![p] = e],
                   Goto(p, CASE kind[p] = "collect" -> "emit"
                              [] kind[p] \in LockedKinds -> "persist"
                              [] OTHER -> "lock"),
                   UNCHANGED kind
            PROVE  Snapped(p)'
        <5>1. pc'[p] = CASE kind[p] = "collect" -> "emit"
                         [] kind[p] \in LockedKinds -> "persist"
                         [] OTHER -> "lock"
          BY <1>1, <4>1 DEF Goto
        <5>2. CASE kind[p] \in LockedKinds
          <6>1. Edited(p, snap[p], e)
            BY <1>1, <3>7, MeIsAuthor, EditFacts DEF Edit
          <6>2. snap[p] = disk
            BY <3>1, <3>7, <5>2 DEF Snapped, Edit
          <6>3. \A c \in Collections : Extends(disk.items[c], e.items[c]) /\ OneEach(e.items[c])
            BY <1>1, <5>2, <6>1, <6>2 DEF Edited, FileInv
          <6>4. e.contract = IF kind[p] = "contract" THEN Me(p) ELSE disk.contract
            BY <6>1, <6>2 DEF Edited
          <6>5. pc'[p] = "persist" /\ snap'[p] = e /\ disk' = disk /\ Me(p)' = Me(p)
            <7>1. kind[p] # "collect"
              BY <5>2 DEF LockedKinds
            <7> QED BY <1>1, <3>7, <4>1, <5>1, <5>2, <7>1 DEF Edit, fileVars, Me
          <6> QED BY <4>1, <6>3, <6>4, <6>5 DEF Snapped
        <5>3. CASE kind[p] \notin LockedKinds
          <6>1. pc'[p] \in {"emit", "lock"}
            BY <5>1, <5>3
          <6> QED BY <3>3, <6>1
        <5> QED BY <5>2, <5>3
      <4> QED BY <3>2, <3>7, <4>1 DEF Edit
    <3>8. CASE EmitFirst(p)
      <4>1. CASE Stay(p, "lock")
        BY <1>1, <3>3, <4>1 DEF Stay, Goto
      <4> QED BY <3>2, <3>8, <4>1 DEF EmitFirst
    <3>9. CASE Reload(p)
      <4> DEFINE m == Reconciled(disk, snap[p])
      <4>1. /\ m.contract = disk.contract
            /\ \A c \in Collections : Extends(disk.items[c], m.items[c]) /\ OneEach(m.items[c])
        BY <1>1, ReconciledFacts DEF FileInv
      <4>2. pc'[p] = "persist" /\ snap'[p] = m /\ disk' = disk /\ kind' = kind
        BY <1>1, <3>9 DEF Reload, Goto, fileVars
      <4>3. kind[p] # "contract"
        BY <1>1, <3>9 DEF Reload, FlowInv, Flow, UnlockedKinds
      <4> HIDE DEF m
      <4> QED BY <4>1, <4>2, <4>3 DEF Snapped
    <3>10. CASE Persist(p)
      <4>1. CASE Stay(p, "mirror") \/ Stay(p, "sync")
        <5>1. pc'[p] \in {"mirror", "sync"} /\ snap'[p] = disk'
          BY <1>1, <3>10, <4>1 DEF Persist, Stay, Goto
        <5> QED BY <5>1 DEF Snapped
      <4> QED BY <3>2, <3>10, <4>1 DEF Persist
    <3>11. CASE Mirror(p)
      <4>1. pc'[p] = "announce" /\ snap'[p] = disk'
        BY <1>1, <3>1, <3>11 DEF Mirror, Goto, Snapped
      <4> QED BY <4>1 DEF Snapped
    <3>12. CASE Announce(p)
      <4>1. CASE Stay(p, "undo")
        <5>1. pc'[p] = "undo" /\ snap'[p] = disk'
          BY <1>1, <3>1, <3>12, <4>1 DEF Announce, Stay, Goto, Snapped, fileVars
        <5> QED BY <5>1 DEF Snapped
      <4> QED BY <3>2, <3>12, <4>1 DEF Announce
    <3> QED BY <1>3, <3>2, <3>4, <3>5, <3>6, <3>7, <3>8, <3>9, <3>10, <3>11, <3>12
            DEF Step, Sync, Undo, Crash
  <2>4. \A q \in Proc : Snapped(q)'
    BY <2>2, <2>3
  <2> QED BY <2>4 DEF SnapInv
<1> QED BY <1>2, <1>3 DEF Next, Quiet

\* An undo puts the items back as they are on disk.
LEMMA UndoItems ==
  ASSUME IInv, NEW p \in Proc, Undo(p)
  PROVE  disk'.items = disk.items /\ disk'.contract = orig[p].contract
<1>1. snap[p] = disk /\ Typed(disk) /\ orig[p].contract \in Author
  BY DEF IInv, TypeInv, SnapInv, Snapped, Undo
<1> QED BY <1>1 DEF Undo, Typed, Shape

LEMMA FileStep ==
  ASSUME IInv, [Next]_vars
  PROVE  FileInv'
<1>1. TypeInv /\ FlowInv /\ SnapInv /\ FileInv
  BY DEF IInv
<1>2. CASE UNCHANGED <<disk, agreed>>
  BY <1>1, <1>2 DEF FileInv
<1>3. ASSUME NEW p \in Proc, Persist(p) PROVE FileInv'
  <2>1. Snapped(p)
    BY <1>1 DEF SnapInv
  <2>2. /\ \A c \in Collections : OneEach(snap[p].items[c])
        /\ snap[p].contract = IF kind[p] = "contract" THEN Me(p) ELSE agreed
    BY <1>1, <1>3, <2>1 DEF Snapped, Persist, FileInv
  <2> QED BY <1>3, <2>2 DEF FileInv, Persist
<1>4. ASSUME NEW p \in Proc, Undo(p) PROVE FileInv'
  <2>1. disk'.items = disk.items /\ disk'.contract = orig[p].contract
    BY <1>4, UndoItems
  <2> QED BY <1>1, <1>4, <2>1 DEF FileInv, Undo
<1>5. ASSUME NEW p \in Proc, Begin(p) \/ Step(p) \/ Crash(p) PROVE FileInv'
  BY <1>2, <1>3, <1>4, <1>5, FilesStep
<1>6. CASE UNCHANGED vars
  BY <1>2, <1>6 DEF vars, fileVars, histVars
<1> QED BY <1>5, <1>6 DEF Next, Quiet

\* A write that no command without the lock has read before.
LEMMA Unread ==
  ASSUME NEW p \in Proc, Overlap(p), ~overlapped', NEW q \in Proc \ {p}
  PROVE  ~overlapped /\ ~(kind[q] \in UnlockedKinds /\ pc[q] \in {"edit", "emit", "lock", "sync"})
BY DEF Overlap

\* After a save every item on disk is the newest of its key.
LEMMA PersistNewest ==
  ASSUME IInv, ~overlapped, NEW p \in Proc, Persist(p)
  PROVE  Newest'
<1>1. Newest /\ OwnOrRead(p) /\ Snapped(p) /\ Typed(snap[p])
  BY DEF IInv, TypeInv, SnapInv, CurrentInv
<1> DEFINE W == Written(p, snap[p])
<1>2. newest' = [ck \in DOMAIN newest \cup W |-> IF ck \in W THEN Me(p) ELSE newest[ck]]
  BY DEF Persist
<1>3. ASSUME NEW c \in Collections, NEW i \in 1 .. Len(snap[p].items[c])
      PROVE  /\ <<c, snap[p].items[c][i].key>> \in DOMAIN newest \cup W
             /\ snap[p].items[c][i].val = newest'[<<c, snap[p].items[c][i].key>>]
  <2> DEFINE t == snap[p].items[c]
             k == t[i].key
  <2>1. t \in Seq(Item(c)) /\ OneEach(t)
    BY <1>1 DEF Typed, Snapped, Persist
  <2>2. LastOf(t, k) = t[i] /\ k \in Keys(t)
    BY <2>1, OneEachLastOf
  <2>3. ASSUME t[i].val = Me(p) PROVE <<c, k>> \in W
    <3>1. k \in {j \in Keys(t) : LastOf(t, j).val = Me(p)}
      <4> HIDE DEF t
      <4> QED BY <2>2, <2>3
    <3> QED BY <3>1 DEF Written
  <2>4. ASSUME <<c, k>> \in W PROVE t[i].val = Me(p)
    <3>1. PICK d \in Collections :
            <<c, k>> \in {<<d, x>> : x \in {j \in Keys(snap[p].items[d]) :
                                              LastOf(snap[p].items[d], j).val = Me(p)}}
      BY <2>4 DEF Written
    <3>2. PICK x \in {j \in Keys(snap[p].items[d]) : LastOf(snap[p].items[d], j).val = Me(p)} :
            <<c, k>> = <<d, x>>
      <4> HIDE DEF k
      <4> QED BY <3>1
    <3>3. c = d /\ k = x
      <4> HIDE DEF k
      <4> QED BY <3>2
    <3>4. LastOf(t, k).val = Me(p)
      BY <3>2, <3>3
    <3> HIDE DEF t, k
    <3> QED BY <2>2, <3>4
  <2>5. CASE t[i].val = Me(p)
    <3> HIDE DEF W, t, k
    <3> QED BY <1>2, <2>3, <2>5 DEF t, k
  <2>6. CASE t[i].val # Me(p)
    <3>1. Sourced(disk.items[c], t, Me(p))
      BY <1>1 DEF OwnOrRead, Reading, Persist
    <3>2. PICK j \in 1 .. Len(disk.items[c]) : t[i] = disk.items[c][j]
      BY <2>6, <3>1 DEF Sourced
    <3>3. <<c, k>> \in DOMAIN newest /\ newest[<<c, k>>] = t[i].val
      BY <1>1, <3>2 DEF Newest
    <3> HIDE DEF W, t, k
    <3> QED BY <1>2, <2>4, <2>6, <3>3 DEF t, k
  <2> QED BY <2>5, <2>6
<1>4. disk' = snap[p] /\ DOMAIN newest' = DOMAIN newest \cup W
  BY <1>2 DEF Persist
<1> HIDE DEF W
<1> QED BY <1>3, <1>4 DEF Newest

LEMMA CurrentStep ==
  ASSUME IInv, [Next]_vars
  PROVE  CurrentInv'
<1>1. TypeInv /\ FlowInv /\ SnapInv /\ FileInv /\ CurrentInv
  BY DEF IInv
<1>2. CASE UNCHANGED vars
  BY <1>1, <1>2 DEF CurrentInv, Newest, OwnOrRead, Reading, Me, vars, fileVars, histVars
<1>3. ASSUME NEW p \in Proc, Begin(p) \/ Step(p) \/ Crash(p), ~overlapped'
      PROVE  Newest' /\ \A q \in Proc : OwnOrRead(q)'
  <2>1. Aside(p)
    BY <1>3, AsideStep
  <2>2. ASSUME pc'[p] \in {"idle", "load", "sync", "mirror", "announce", "undo"}
        PROVE  OwnOrRead(p)'
    BY <2>2 DEF OwnOrRead, Reading
  <2>3. ASSUME Finish(p) PROVE OwnOrRead(p)'
    <3>1. pc'[p] = "idle"
      BY <1>1, <2>3 DEF Finish, Goto, TypeInv
    <3> QED BY <2>2, <3>1
  <2>4. CASE UNCHANGED <<disk, newest, overlapped>> /\ ~Persist(p) /\ ~Undo(p)
    <3>1. Newest /\ \A q \in Proc : OwnOrRead(q)
      BY <1>1, <1>3, <2>4 DEF CurrentInv
    <3>2. Newest'
      BY <2>4, <3>1 DEF Newest
    <3>3. ASSUME NEW q \in Proc \ {p} PROVE OwnOrRead(q)'
      BY <2>1, <2>4, <3>1 DEF Aside, OwnOrRead, Reading, Me
    <3>4. ASSUME Reading(p), snap'[p] = snap[p], ran'[p] = ran[p] PROVE OwnOrRead(p)'
      BY <2>4, <3>1, <3>4 DEF OwnOrRead, Me
    <3>5. OwnOrRead(p)'
      <4> USE DEF TypeInv
      <4>1. CASE Begin(p)
        <5>1. PICK k \in Commands : /\ kind' = [kind EXCEPT ![p] = k]
                                    /\ Goto(p, IF k \in LockedKinds THEN "lock" ELSE "load")
          BY <4>1 DEF Begin
        <5>2. kind'[p] = k /\ pc'[p] = IF k \in LockedKinds THEN "lock" ELSE "load"
          BY <1>1, <5>1 DEF Goto
        <5>3. k \in LockedKinds => k \notin UnlockedKinds
          BY DEF LockedKinds, UnlockedKinds
        <5> QED BY <5>2, <5>3 DEF OwnOrRead, Reading
      <4>2. CASE Acquire(p)
        <5>1. CASE kind[p] \in LockedKinds
          <6>1. pc'[p] = "load"
            BY <1>1, <4>2, <5>1 DEF Acquire, Goto
          <6> QED BY <2>2, <6>1
        <5>2. CASE kind[p] \notin LockedKinds
          <6>1. Reading(p)
            BY <1>1, <4>2, <5>2, CommandsAssumption DEF FlowInv, Flow, Acquire, Reading
          <6> QED BY <3>4, <4>2, <6>1 DEF Acquire
        <5> QED BY <5>1, <5>2
      <4>3. CASE Load(p)
        <5>1. snap'[p] = disk'
          BY <1>1, <4>3 DEF Load, fileVars
        <5>2. \A c \in Collections : disk.items[c] \in Seq(Item(c))
          BY <1>1 DEF Typed
        <5>3. \A c \in Collections : Sourced(disk.items[c], disk.items[c], Me(p)')
          BY <5>2, SameItems
        <5> QED BY <2>4, <5>1, <5>3 DEF OwnOrRead
      <4>4. CASE Edit(p)
        <5>1. ASSUME NEW e \in Edits(p, snap[p]), snap' = [snap EXCEPT ![p] = e]
              PROVE  OwnOrRead(p)'
          <6>1. Edited(p, snap[p], e)
            BY <1>1, <4>4, MeIsAuthor, EditFacts DEF Edit
          <6>2. \A c \in Collections : Sourced(disk.items[c], snap[p].items[c], Me(p))
            BY <3>1, <4>4 DEF OwnOrRead, Reading, Edit
          <6>3. \A c \in Collections : Sourced(disk.items[c], e.items[c], Me(p))
            <7>1. \A c \in Collections : Sourced(snap[p].items[c], e.items[c], Me(p))
              BY <6>1 DEF Edited
            <7> QED BY <6>2, <7>1, SourcedThrough
          <6>4. snap'[p] = e /\ Me(p)' = Me(p)
            BY <1>1, <4>4, <5>1 DEF Edit, Me
          <6> QED BY <2>4, <6>3, <6>4 DEF OwnOrRead
        <5> QED BY <2>3, <4>4, <5>1 DEF Edit
      <4>5. CASE EmitFirst(p)
        <5>1. Reading(p)
          BY <4>5 DEF EmitFirst, Reading
        <5> QED BY <2>3, <3>4, <4>5, <5>1 DEF EmitFirst, Stay
      <4>6. CASE Reload(p)
        <5>1. \A c \in Collections : Sourced(disk.items[c], snap[p].items[c], Me(p))
          BY <3>1, <4>6 DEF OwnOrRead, Reading, Reload
        <5>2. \A c \in Collections :
                Sourced(disk.items[c], Reconciled(disk, snap[p]).items[c], Me(p))
          BY <1>1, <5>1, ReconciledFacts
        <5>3. snap'[p] = Reconciled(disk, snap[p]) /\ Me(p)' = Me(p)
          BY <1>1, <4>6 DEF Reload, Me
        <5> QED BY <2>4, <5>2, <5>3 DEF OwnOrRead
      <4>7. CASE Mirror(p)
        <5>1. pc'[p] = "announce"
          BY <1>1, <4>7 DEF Mirror, Goto
        <5> QED BY <2>2, <5>1
      <4>8. CASE Announce(p)
        <5>1. CASE Stay(p, "undo")
          <6>1. pc'[p] = "undo"
            BY <1>1, <5>1 DEF Stay, Goto
          <6> QED BY <2>2, <6>1
        <5> QED BY <2>3, <4>8, <5>1 DEF Announce
      <4> QED BY <1>3, <2>3, <2>4, <4>1, <4>2, <4>3, <4>4, <4>5, <4>6, <4>7, <4>8
              DEF Step, Sync, Crash
    <3> QED BY <3>2, <3>3, <3>5
  <2>5. CASE Persist(p)
    <3>1. ASSUME NEW q \in Proc \ {p} PROVE ~Reading(q)
      <4>1. ~(kind[q] \in UnlockedKinds /\ pc[q] \in {"edit", "emit", "lock", "sync"})
        BY <1>3, <2>5, Unread DEF Persist
      <4>2. Holding(p)
        BY <2>5 DEF Persist, Holding
      <4>3. ~Holding(q) /\ Flow(q)
        BY <1>1, <4>2, Exclusive DEF FlowInv
      <4> QED BY <4>1, <4>3, CommandsAssumption DEF Reading, Holding, Flow
    <3>2. ASSUME NEW q \in Proc \ {p} PROVE OwnOrRead(q)'
      BY <2>1, <3>1 DEF OwnOrRead, Reading, Aside
    <3>3. OwnOrRead(p)'
      <4>1. CASE Stay(p, "mirror") \/ Stay(p, "sync")
        <5>1. pc'[p] \in {"mirror", "sync"}
          BY <1>1, <4>1 DEF Stay, Goto, TypeInv
        <5> QED BY <2>2, <5>1
      <4> QED BY <2>3, <2>5, <4>1 DEF Persist
    <3>4. ~overlapped
      BY <1>3, <2>5 DEF Persist, Overlap
    <3>5. Newest'
      BY <2>5, <3>4, PersistNewest
    <3> QED BY <3>2, <3>3, <3>5
  <2>6. CASE Undo(p)
    <3>1. disk'.items = disk.items /\ newest' = newest
      BY <2>6, UndoItems DEF Undo
    <3>2. ~overlapped
      BY <1>3, <2>6 DEF Undo, Overlap
    <3>3. Newest /\ \A q \in Proc : OwnOrRead(q)
      BY <1>1, <3>2 DEF CurrentInv
    <3>4. Newest'
      BY <3>1, <3>3 DEF Newest
    <3>5. ASSUME NEW q \in Proc \ {p} PROVE OwnOrRead(q)'
      BY <2>1, <3>1, <3>3 DEF Aside, OwnOrRead, Reading, Me
    <3> QED BY <2>3, <2>6, <3>4, <3>5 DEF Undo
  <2> QED BY <1>3, <2>4, <2>5, <2>6, FilesStep
<1> QED BY <1>2, <1>3 DEF Next, Quiet, CurrentInv

LEMMA MirrorStep ==
  ASSUME IInv, [Next]_vars
  PROVE  MirrorInv'
<1>1. TypeInv /\ FlowInv /\ SnapInv /\ FileInv /\ MirrorInv
  BY DEF IInv
<1>2. CASE UNCHANGED vars
  BY <1>1, <1>2 DEF MirrorInv, Undisturbed, Mirrored, Copied, vars, fileVars, histVars
<1>3. ASSUME NEW p \in Proc, Begin(p) \/ Step(p) \/ Crash(p), Undisturbed'
      PROVE  Mirrored' /\ \A q \in Proc : Copied(q)'
  <2> USE DEF TypeInv
  <2>1. Aside(p)
    BY <1>3, AsideStep
  <2>2. ASSUME pc'[p] \in {"idle", "lock", "load", "edit", "emit", "reload"} PROVE Copied(p)'
    BY <2>2 DEF Copied
  <2>3. ASSUME Finish(p) PROVE Copied(p)' /\ pc'[p] = "idle"
    BY <1>1, <2>3 DEF Finish, Goto, Copied
  <2>4. ~Crash(p)
    <3>1. crashes \in Nat
      BY <1>1, StoreBounds
    <3> QED BY <1>3, <3>1 DEF Crash, Undisturbed
  <2>5. Undisturbed
    <3>1. crashes' = crashes
      BY <1>3, <2>4 DEF Step, Begin, Acquire, Load, Edit, EmitFirst, Reload, Persist, Sync,
                        Mirror, Announce, Undo
    <3>2. overlapped => overlapped'
      BY <1>3, FilesStep DEF Persist, Undo, Overlap
    <3> QED BY <1>3, <3>1, <3>2 DEF Undisturbed
  <2>6. Mirrored /\ \A q \in Proc : Copied(q)
    BY <1>1, <2>5 DEF MirrorInv
  <2>7. ASSUME UNCHANGED disk, NEW q \in Proc \ {p} PROVE Copied(q)'
    BY <2>1, <2>6, <2>7 DEF Aside, Copied
  <2>8. ASSUME UNCHANGED <<disk, mirror>>, pc[p] # "mirror" PROVE Mirrored'
    <3>1. CASE mirror = disk.contract
      BY <2>8, <3>1 DEF Mirrored
    <3>2. ASSUME NEW q \in Proc, pc[q] = "mirror" PROVE Mirrored'
      <4>1. pc'[q] = "mirror"
        BY <2>1, <2>8, <3>2 DEF Aside
      <4> QED BY <4>1 DEF Mirrored
    <3> QED BY <2>6, <3>1, <3>2 DEF Mirrored
  <2>9. CASE Begin(p)
    <3>1. PICK k \in Commands : Goto(p, IF k \in LockedKinds THEN "lock" ELSE "load")
      BY <2>9 DEF Begin
    <3>2. pc'[p] \in {"lock", "load"}
      BY <1>1, <3>1 DEF Goto
    <3>3. pc[p] # "mirror" /\ UNCHANGED <<disk, mirror>>
      BY <2>9 DEF Begin, fileVars
    <3> QED BY <2>2, <2>7, <2>8, <3>2, <3>3
  <2>10. CASE Acquire(p) \/ Load(p) \/ Reload(p)
    <3>1. pc[p] # "mirror" /\ UNCHANGED <<disk, mirror>>
      BY <2>10 DEF Acquire, Load, Reload, fileVars
    <3>2. CASE Acquire(p) \/ Load(p)
      <4>1. pc'[p] \in {"load", "edit", "reload"}
        BY <1>1, <3>2 DEF Acquire, Load, Goto
      <4> QED BY <2>2, <2>7, <2>8, <3>1, <4>1
    <3>3. CASE Reload(p)
      <4>1. kind'[p] # "contract" /\ pc'[p] = "persist"
        BY <1>1, <3>3 DEF Reload, Goto, FlowInv, Flow, UnlockedKinds
      <4>2. Copied(p)'
        BY <4>1 DEF Copied
      <4> QED BY <2>7, <2>8, <3>1, <4>2
    <3> QED BY <2>10, <3>2, <3>3
  <2>11. CASE Edit(p)
    <3>1. pc[p] = "edit" /\ UNCHANGED <<disk, mirror>>
      BY <2>11 DEF Edit, fileVars
    <3>2. ASSUME Goto(p, CASE kind[p] = "collect" -> "emit"
                           [] kind[p] \in LockedKinds -> "persist"
                           [] OTHER -> "lock"),
                 orig' = [orig EXCEPT ![p] = [contract |-> snap[p].contract, mirror |-> mirror]],
                 UNCHANGED kind
          PROVE  Copied(p)'
      <4>1. pc'[p] \in {"emit", "persist", "lock"}
        BY <1>1, <3>2 DEF Goto
      <4>2. ASSUME kind[p] = "contract" PROVE orig'[p].mirror = orig'[p].contract
        <5>1. kind[p] \in LockedKinds /\ snap[p] = disk
          BY <1>1, <3>1, <4>2 DEF SnapInv, Snapped, LockedKinds
        <5>2. \A q \in Proc : pc[q] # "mirror"
          <6>1. Holding(p)
            BY <3>1, <5>1 DEF Holding
          <6>2. ASSUME NEW q \in Proc, pc[q] = "mirror" PROVE FALSE
            <7>1. Holding(q)
              BY <6>2 DEF Holding
            <7>2. p = q
              BY <1>1, <6>1, <7>1, Exclusive
            <7> QED BY <3>1, <6>2, <7>2
          <6> QED BY <6>2
        <5>3. mirror = disk.contract
          BY <2>6, <5>2 DEF Mirrored
        <5>4. orig'[p] = [contract |-> snap[p].contract, mirror |-> mirror]
          BY <1>1, <3>2
        <5> QED BY <5>1, <5>3, <5>4
      <4> QED BY <3>2, <4>1, <4>2 DEF Copied
    <3>3. Copied(p)'
      BY <2>3, <2>11, <3>2 DEF Edit
    <3> QED BY <2>7, <2>8, <3>1, <3>3
  <2>12. CASE EmitFirst(p)
    <3>1. pc[p] # "mirror" /\ UNCHANGED <<disk, mirror>>
      BY <2>12 DEF EmitFirst, fileVars
    <3>2. CASE Stay(p, "lock")
      <4>1. pc'[p] = "lock"
        BY <1>1, <3>2 DEF Stay, Goto
      <4> QED BY <2>2, <2>7, <2>8, <3>1, <4>1
    <3> QED BY <2>3, <2>7, <2>8, <2>12, <3>1, <3>2 DEF EmitFirst
  <2>13. CASE Persist(p)
    <3>1. \A q \in Proc \ {p} : pc[q] # "sync" \/ kind[q] \notin UnlockedKinds
      BY <1>3, <2>13, Unread DEF Persist, Undisturbed
    <3>2. ASSUME NEW q \in Proc \ {p} PROVE pc[q] # "sync"
      BY <1>1, <3>1, <3>2 DEF FlowInv, Flow, UnlockedKinds
    <3>3. ASSUME NEW q \in Proc \ {p} PROVE Copied(q)'
      BY <2>1, <2>6, <3>2, <3>3 DEF Aside, Copied
    <3>4. Snapped(p) /\ pc[p] = "persist"
      BY <1>1, <2>13 DEF SnapInv, Persist
    <3>5. CASE kind[p] = "contract"
      <4>1. pc'[p] = "mirror" /\ orig' = orig
        BY <1>1, <2>13, <3>5 DEF Persist, Stay, Goto
      <4>2. Copied(p)'
        BY <2>6, <3>4, <3>5, <4>1 DEF Copied
      <4> QED BY <3>3, <4>1, <4>2 DEF Mirrored
    <3>6. CASE kind[p] # "contract"
      <4>1. disk'.contract = disk.contract /\ mirror' = mirror
        BY <2>13, <3>4, <3>6 DEF Snapped, Persist
      <4>2. \A q \in Proc : pc[q] # "mirror"
        <5>1. Holding(p)
          BY <3>4 DEF Holding
        <5>2. ASSUME NEW q \in Proc, pc[q] = "mirror" PROVE FALSE
          <6>1. Holding(q)
            BY <5>2 DEF Holding
          <6>2. p = q
            BY <1>1, <5>1, <6>1, Exclusive
          <6> QED BY <3>4, <5>2, <6>2
        <5> QED BY <5>2
      <4>3. Mirrored'
        BY <2>6, <4>1, <4>2 DEF Mirrored
      <4>4. Copied(p)'
        <5>1. CASE Stay(p, "sync")
          <6>1. pc'[p] = "sync" /\ snap'[p] = disk'
            BY <1>1, <2>13, <5>1 DEF Persist, Stay, Goto
          <6> QED BY <6>1 DEF Copied
        <5> QED BY <2>3, <2>13, <3>6, <5>1 DEF Persist
      <4> QED BY <3>3, <4>3, <4>4
    <3> QED BY <3>5, <3>6
  <2>14. CASE Sync(p)
    <3>1. disk' = disk /\ mirror' = disk.contract
      BY <2>6, <2>14 DEF Sync, Copied
    <3> QED BY <2>3, <2>7, <2>14, <3>1 DEF Sync, Mirrored
  <2>15. CASE Mirror(p)
    <3>1. disk' = disk /\ mirror' = disk.contract /\ pc'[p] = "announce"
            /\ orig' = orig /\ kind' = kind
      BY <1>1, <2>15 DEF Mirror, Goto, SnapInv, Snapped
    <3>2. Copied(p)'
      BY <2>6, <2>15, <3>1 DEF Copied, Mirror
    <3> QED BY <2>7, <3>1, <3>2 DEF Mirrored
  <2>16. CASE Announce(p)
    <3>1. pc[p] # "mirror" /\ UNCHANGED <<disk, mirror>>
      BY <2>16 DEF Announce, fileVars
    <3>2. CASE Stay(p, "undo")
      <4>1. pc'[p] = "undo" /\ orig' = orig /\ kind' = kind
        BY <1>1, <3>2 DEF Stay, Goto
      <4>2. Copied(p)'
        BY <2>6, <2>16, <4>1 DEF Copied, Announce
      <4> QED BY <2>7, <2>8, <3>1, <4>2
    <3> QED BY <2>3, <2>7, <2>8, <2>16, <3>1, <3>2 DEF Announce
  <2>17. CASE Undo(p)
    <3>1. \A q \in Proc \ {p} : pc[q] # "sync" \/ kind[q] \notin UnlockedKinds
      BY <1>3, <2>17, Unread DEF Undo, Undisturbed
    <3>2. ASSUME NEW q \in Proc \ {p} PROVE Copied(q)'
      <4>1. pc[q] # "sync"
        BY <1>1, <3>1 DEF FlowInv, Flow, UnlockedKinds
      <4> QED BY <2>1, <2>6, <4>1 DEF Aside, Copied
    <3>3. disk'.contract = orig[p].contract /\ mirror' = orig[p].mirror
      BY <2>17, UndoItems DEF Undo
    <3>4. orig[p].mirror = orig[p].contract
      BY <1>1, <2>6, <2>17 DEF Copied, Undo, FlowInv, Flow
    <3> QED BY <2>3, <2>17, <3>2, <3>3, <3>4 DEF Undo, Mirrored
  <2> QED BY <1>3, <2>4, <2>9, <2>10, <2>11, <2>12, <2>13, <2>14, <2>15, <2>16, <2>17 DEF Step
<1> QED BY <1>2, <1>3 DEF Next, Quiet, MirrorInv

-----------------------------------------------------------------------------
LEMMA InitIInv == Init => IInv
<1> SUFFICES ASSUME Init PROVE IInv
  OBVIOUS
<1>1. TypeInv
  <2>1. Typed(Blank) /\ Blank \in Shape /\ NoOne \in Author
          /\ NoOrig \in [contract : Author, mirror : Author]
    BY BlankTyped DEF Typed
  <2>2. 0 \in 0 .. MaxCommands /\ 0 \in 0 .. MaxCrashes /\ "idle" \in Steps
    BY StoreBounds DEF Steps
  <2>3. snap \in [Proc -> Shape] /\ \A p \in Proc : Typed(snap[p])
    BY <2>1 DEF Init
  <2> QED BY <2>1, <2>2, <2>3 DEF Init, TypeInv
<1>2. \A c \in Collections : disk.items[c] = << >>
  BY DEF Init, Blank
<1>3. FlowInv /\ SnapInv
  BY DEF Init, FlowInv, Flow, Holding, SnapInv, Snapped
<1>4. FileInv
  <2>1. disk.contract = agreed
    BY DEF Init, Blank
  <2> QED BY <1>2, <2>1 DEF FileInv, OneEach
<1>5. CurrentInv
  <2>1. Newest
    BY <1>2 DEF Newest
  <2> QED BY <2>1 DEF Init, CurrentInv, OwnOrRead, Reading
<1>6. MirrorInv
  <2>1. mirror = disk.contract
    BY DEF Init, Blank
  <2> QED BY <2>1 DEF Init, MirrorInv, Mirrored, Copied
<1> QED BY <1>1, <1>3, <1>4, <1>5, <1>6 DEF IInv

LEMMA IInvStep == IInv /\ [Next]_vars => IInv'
BY TypeStep, FlowStep, SnapStep, FileStep, CurrentStep, MirrorStep DEF IInv

LEMMA Inductive == Spec => []IInv
BY InitIInv, IInvStep, PTL DEF Spec

\* Every state.json the program writes, and every copy a command holds, has the
\* shape that RunState has.
THEOREM TypeTheorem == Spec => []TypeOK
<1>1. IInv => TypeOK
  <2> SUFFICES ASSUME IInv PROVE TypeOK
    OBVIOUS
  <2>1. TypeInv
    BY DEF IInv
  <2>2. ASSUME NEW s, Typed(s)
        PROVE  /\ s.phase \in Phases /\ {s.rest, s.contract} \subseteq Author
               /\ \A c \in Collections : \A i \in 1 .. Len(s.items[c]) : s.items[c][i] \in Item(c)
    <3>1. s.phase \in Phases /\ s.rest \in Author /\ s.contract \in Author
      BY <2>2 DEF Typed, Shape
    <3>2. \A c \in Collections : s.items[c] \in Seq(Item(c))
      BY <2>2 DEF Typed
    <3> QED BY <3>1, <3>2
  <2>3. \A s \in {disk} \cup {snap[p] : p \in Proc} : Typed(s)
    BY <2>1 DEF TypeInv
  <2> QED BY <2>1, <2>2, <2>3 DEF TypeOK, TypeInv, Steps
<1> QED BY <1>1, Inductive, PTL

\* No save and no rollback loses or reorders an item of a merged collection,
\* however many commands save stale copies and wherever they are killed
\* (save_state_preserving_c2, rollback_contract_update).
THEOREM HistoryTheorem == Spec => HistoryKept
<1>1. ASSUME IInv, [Next]_vars
      PROVE  [\A c \in Collections : \A i \in 1 .. Len(disk.items[c]) :
                /\ i <= Len(disk'.items[c])
                /\ disk'.items[c][i].key = disk.items[c][i].key]_vars
  <2>1. SUFFICES ASSUME ~(UNCHANGED vars),
                        NEW c \in Collections, NEW i \in 1 .. Len(disk.items[c])
                 PROVE  i <= Len(disk'.items[c]) /\ disk'.items[c][i].key = disk.items[c][i].key
    OBVIOUS
  <2>2. PICK p \in Proc : Begin(p) \/ Step(p) \/ Crash(p)
    BY <1>1, <2>1 DEF Next, Quiet
  <2>3. disk.items[c] \in Seq(Item(c))
    BY <1>1 DEF IInv, TypeInv, Typed
  <2>4. CASE disk'.items = disk.items
    BY <2>3, <2>4
  <2>5. CASE Persist(p)
    <3>1. Extends(disk.items[c], disk'.items[c])
      BY <1>1, <2>5 DEF IInv, SnapInv, Snapped, Persist
    <3>2. disk'.items[c] \in Seq(Item(c))
      BY <1>1, <2>5 DEF IInv, TypeInv, Typed, Persist
    <3> QED BY <2>3, <3>1, <3>2 DEF Extends
  <2>6. CASE Undo(p)
    BY <1>1, <2>4, <2>6, UndoItems
  <2> QED BY <2>2, <2>4, <2>5, <2>6, FilesStep
<1> QED BY <1>1, Inductive, PTL DEF Spec, HistoryKept

\* The contract on disk is the one contract set wrote last and did not roll
\* back: no stale copy brings an old one back.
THEOREM ContractTheorem == Spec => []ContractKept
<1>1. IInv => ContractKept
  BY DEF IInv, FileInv, ContractKept
<1> QED BY <1>1, Inductive, PTL

\* One item to a key on disk, always; and the newest version of it, as long as
\* no file was written under a command's hands.
THEOREM ItemsTheorem == Spec => []ItemsCurrent
<1>1. IInv => ItemsCurrent
  <2> SUFFICES ASSUME IInv, NEW c \in Collections, NEW i \in 1 .. Len(disk.items[c])
               PROVE  /\ IsLast(disk.items[c], i)
                      /\ overlapped \/ disk.items[c][i].val = newest[<<c, disk.items[c][i].key>>]
    BY DEF ItemsCurrent
  <2>1. disk.items[c] \in Seq(Item(c)) /\ OneEach(disk.items[c])
    BY DEF IInv, TypeInv, Typed, FileInv
  <2>2. IsLast(disk.items[c], i)
    BY <2>1, OneEachIsLast
  <2>3. overlapped \/ disk.items[c][i].val = newest[<<c, disk.items[c][i].key>>]
    BY DEF IInv, CurrentInv, Newest
  <2> QED BY <2>2, <2>3
<1> QED BY <1>1, Inductive, PTL

\* run-state.md shows the contract of state.json whenever nothing runs, unless
\* a command was killed or a file written under its hands.
THEOREM MirrorTheorem == Spec => []MirrorAgrees
<1>1. IInv => MirrorAgrees
  BY DEF IInv, MirrorInv, Undisturbed, Mirrored, MirrorAgrees
<1> QED BY <1>1, Inductive, PTL

-----------------------------------------------------------------------------
(* Rules *)


-----------------------------------------------------------------------------
(* What is said of closing holds of every run, ledger and HEAD. *)

LEMMA VerdictCases ==
  ASSUME NEW rows, NEW strict
  PROVE  /\ rows = << >> => EvaluateLedger(rows, strict) = "NO_OBSERVATIONS"
         /\ (EvaluateLedger(rows, TRUE) = "CONVERGED") <=> (EvaluateLedger(rows, FALSE) = "CONVERGED")
<1>1. ASSUME rows = << >> PROVE Len(Blockers(rows)) = 0
  BY <1>1 DEF Blockers
<1> QED BY <1>1 DEF EvaluateLedger

LEMMA GatesHold == ASSUME head # "none" PROVE GatesAgree
<1> DEFINE errors(target) == StrictErrors(run, target, ledger, FALSE, head, TRUE, TRUE)
           before == GatesBefore(run, ledger, FALSE)
           after  == GatesAfter(run, ledger, FALSE, FALSE, FALSE)
           route  == CmdNext(run).route
<1>1. ASSUME NEW target, "ledger" \notin errors(target)
      PROVE  ~ParseFails(ledger) /\ (ParseLedger(ledger) = << >>
                \/ EvaluateLedger(ParseLedger(ledger), FALSE) = "CONVERGED")
  BY <1>1, VerdictCases DEF StrictErrors, LedgerIssues
<1>2. ASSUME NEW target \in {"implementation", "closed"}, NEW c, c \in ReadinessChecks(run), c.required, c.status = "missing"
      PROVE  c.id \in errors(target)
  BY <1>2 DEF StrictErrors, PhaseReport, ImplementationChecks, ClosedChecks
<1>3. ASSUME NEW target \in {"implementation", "closed"}, errors(target) = {}
      PROVE  Readiness(run).missing = {} /\ Completeness(run.contract).missing = {}
  <2>1. ASSUME NEW c, c.required, c.status = "missing" PROVE c \notin ReadinessChecks(run)
    BY <1>2, <1>3, <2>1
  <2>2. ASSUME NEW id PROVE /\ Check(id, "missing", TRUE).required
                            /\ Check(id, "missing", TRUE).status = "missing"
    BY DEF Check
  <2>3. Check("run_readiness", "missing", TRUE) \notin ReadinessChecks(run)
    BY <2>1, <2>2
  <2>4. Check("delivery_contract_complete", "missing", TRUE) \notin ReadinessChecks(run)
    BY <2>1, <2>2
  <2>5. Readiness(run).missing = {}
    BY <2>3 DEF ReadinessChecks, OkOr
  <2>6. ~Completeness(run.contract).present \/ Completeness(run.contract).missing = {}
    BY <2>4 DEF ReadinessChecks, OkOr
  <2>7. ~Completeness(run.contract).present => Completeness(run.contract).missing = {}
    BY DEF Completeness
  <2> QED BY <2>5, <2>6, <2>7
<1>4. ASSUME errors("closed") = {} PROVE run.blocks = {} /\ OpenRisks(run) = {}
  <2>1. ASSUME NEW c, c.required, c.status = "missing" PROVE c \notin ClosedChecks(run, ledger, TRUE, TRUE, TRUE)
    BY <1>4, <2>1 DEF StrictErrors, PhaseReport
  <2>2. ASSUME NEW id PROVE /\ Check(id, "missing", TRUE).required
                            /\ Check(id, "missing", TRUE).status = "missing"
    BY DEF Check
  <2>3. /\ Check("no_unresolved_blocks", "missing", TRUE) \notin ClosedChecks(run, ledger, TRUE, TRUE, TRUE)
        /\ Check("risk_points_verified", "missing", TRUE) \notin ClosedChecks(run, ledger, TRUE, TRUE, TRUE)
    BY <2>1, <2>2
  <2> QED BY <2>3 DEF ClosedChecks, OkOr
<1>5. errors("closed") = {} => before \in {"none", "closed"} /\ after \in {"none", "no audit"}
  <2> SUFFICES ASSUME errors("closed") = {} PROVE before \in {"none", "closed"} /\ after \in {"none", "no audit"}
    OBVIOUS
  <2>1. ~ParseFails(ledger) /\ EvaluateLedger(ParseLedger(ledger), FALSE) \in {"CONVERGED", "NO_OBSERVATIONS"}
    BY <1>1, VerdictCases
  <2>2. before \in {"none", "closed"}
    BY <1>3, <1>4, <2>1 DEF GatesBefore
  <2>3. after \in {"none", "no audit"}
    BY <1>4 DEF GatesAfter
  <2> QED BY <2>2, <2>3
<1>6. before = "none" => \A h \in {"pre_commit", "pre_deploy", "pre_closeout"} : ~HookBlocks(h, run, FALSE)
  BY DEF GatesBefore, HookBlocks
<1>7. errors("implementation") = {} => PreflightPasses({}, run)
  BY <1>3 DEF PreflightPasses, PreflightMissing
<1>8. PreflightPasses({}, run) /\ Completeness(run.contract).present => Observability(run, "none") # "missing"
  <2> SUFFICES ASSUME PreflightPasses({}, run), Completeness(run.contract).present
               PROVE  Observability(run, "none") # "missing"
    OBVIOUS
  <2>1. Readiness(run).missing = {} /\ Completeness(run.contract).missing = {}
    BY DEF PreflightPasses, PreflightMissing
  <2>2. run.goal /\ run.doneWhen
    BY <2>1 DEF Readiness
  <2>3. "runs" \in run.contract.instruments
    BY <2>1 DEF Completeness
  <2> QED BY <2>2, <2>3 DEF Observability
<1>9. LedgerExit(ledger, TRUE) = "1" => "ledger" \in errors("spec")
  <2> SUFFICES ASSUME EvaluateLedger(ParseLedger(ledger), TRUE) \in {"REBOUND", "STALLED"}
               PROVE  "ledger" \in errors("spec")
    BY DEF LedgerExit
  <2>1. ParseLedger(ledger) # << >>
    BY VerdictCases
  <2> QED BY <1>1, <2>1, VerdictCases
<1>10. route = "closeout" => before # "blocks" /\ after # "risks"
  BY DEF CmdNext, RouteNext, AnalyzeState, GatesBefore, GatesAfter
<1>11. route = "judge" => before # "none" \/ after # "none"
  BY DEF CmdNext, RouteNext, AnalyzeState, GatesBefore, GatesAfter
<1>12. route # "escalate" => CmdNext(run).brief = {"judge or closeout"}
  <2> DEFINE facts == AnalyzeState(run)
  <2>1. facts.allDone => ~facts.blocked /\ ~facts.remaining
    <3>1. facts.allDone => OpenTasks(run) = {}
      BY DEF AnalyzeState
    <3>2. facts.blocked => "blocked" \in run.tasks
      BY DEF AnalyzeState
    <3>3. facts.remaining => "pending" \in run.tasks \/ "in_progress" \in run.tasks
      BY DEF AnalyzeState
    <3>4. OpenTasks(run) = {} =>
            \A k \in {"blocked", "pending", "in_progress"} : k \notin run.tasks
      BY DEF OpenTasks
    <3> HIDE DEF facts
    <3> QED BY <3>1, <3>2, <3>3, <3>4
  <2>2. CmdNext(run).route = RouteNext(facts) /\ CmdNext(run).brief = DecisionBrief(facts)
    BY DEF CmdNext
  <2> HIDE DEF facts
  <2> QED BY <2>1, <2>2 DEF RouteNext, DecisionBrief
<1>13. errors("none") \cap {"anchor", "drift"} = AnchorIssues(run, head)
  <2>1. AnchorIssues(run, head) \subseteq {"anchor", "drift"}
    BY DEF AnchorIssues
  <2>2. C2Issues(run) \subseteq {"readiness", "contract"} /\ LedgerIssues(ledger, TRUE) \subseteq {"ledger"}
    BY DEF C2Issues, LedgerIssues
  <2>3. errors("none") = (C2Issues(run) \cup AnchorIssues(run, head)) \cup LedgerIssues(ledger, TRUE)
    BY DEF StrictErrors, StateIssues
  <2> HIDE DEF errors
  <2> QED BY <2>1, <2>2, <2>3
<1>14. Resume(run, head, TRUE) # {} => errors("none") \cap {"anchor", "drift"} # {}
  <2> SUFFICES ASSUME Resume(run, head, TRUE) # {} PROVE errors("none") \cap {"anchor", "drift"} # {}
    OBVIOUS
  <2>1. run.phase # "closed" /\ HeadDrift(head) \in {"rewrite", "forward", "unreachable"}
    BY DEF Resume
  <2>2. head # "same"
    BY <2>1 DEF HeadDrift
  <2> QED BY <1>13, <2>1, <2>2 DEF AnchorIssues
<1>15. run.phase # "closed" => (RebaseRequired(run, run.phase, head) <=> errors("none") \cap {"anchor", "drift"} # {})
  BY <1>13 DEF RebaseRequired, HeadDrift, AnchorIssues
<1> HIDE DEF errors, before, after, route
<1> QED BY <1>5, <1>6, <1>7, <1>8, <1>9, <1>10, <1>11, <1>12, <1>14, <1>15 DEF GatesAgree, errors, before, after, route

\* Whatever the run, its ledger and the repository's HEAD become, the places that
\* decide about closing agree.
THEOREM GatesTheorem ==
  ASSUME RulesBounds
  PROVE  RulesSpec => []GatesAgree
<1>1. RulesInit => head # "none"
  BY DEF RulesInit
<1>2. head # "none" /\ [RulesNext]_(rulesVars) => (head # "none")'
  BY DEF RulesBounds, RulesNext, rulesVars, gating, AddRound, ChangeRun, ChangeLedger, ChangeHead,
         MergeStep, DecisionStep, EvidenceStep, PermissionStep
<1>3. head # "none" => GatesAgree
  BY GatesHold
<1> QED BY <1>1, <1>2, <1>3, PTL DEF RulesSpec

-----------------------------------------------------------------------------
(* The loop of merge_stable_by_key computes the declarative merge. *)

\* Both copies of StateMerge say the same.
LEMMA SameMerge ==
  ASSUME NEW s, NEW t
  PROVE  /\ Merge!Keys(s) = Keys(s)
         /\ Merge!Merged(s, t) = Merged(s, t)
         /\ \A i : Merge!IsLast(s, i) = IsLast(s, i)
<1>1. \A q : Merge!Keys(q) = Keys(q)
  BY DEF Keys, Merge!Keys
<1>2. \A q, i : Merge!IsLast(q, i) = IsLast(q, i)
  BY DEF IsLast, Merge!IsLast
<1>3. \A q, i : Merge!IsFirst(q, i) = IsFirst(q, i)
  BY DEF IsFirst, Merge!IsFirst
<1>4. \A q, k : Merge!LastOf(q, k) = LastOf(q, k)
  BY DEF LastOf, Merge!LastOf
<1>5. \A P : Merge!Cardinality(P) = Cardinality(P)
  BY DEF Cardinality, Merge!Cardinality
<1>6. \A P, n : Merge!Nth(P, n) = Nth(P, n)
  BY <1>5 DEF Nth, Merge!Nth
<1>7. Merge!Kept(s, t) = Kept(s, t)
  BY <1>1, <1>2, <1>4 DEF Kept, Merge!Kept
<1>8. Merge!NewAt(s, t) = NewAt(s, t)
  BY <1>1, <1>3 DEF NewAt, Merge!NewAt
<1>9. Merge!Fresh(s, t) = Fresh(s, t)
  BY <1>4, <1>5, <1>6, <1>8 DEF Fresh, Merge!Fresh
<1> QED BY <1>1, <1>2, <1>7, <1>9 DEF Merged, Merge!Merged

\* LastIndex finds the place of a key.
LEMMA LastIndexIs ==
  ASSUME NEW S, NEW s \in Seq(S), NEW k
  PROVE  /\ IsPlace(s, k, Merge!LastIndex(s, k))
         /\ \A i : IsPlace(s, k, i) => Merge!LastIndex(s, k) = i
<1> DEFINE l == Merge!LastIndex(s, k)
<1>1. l = IF k \in Keys(s) THEN CHOOSE i \in 1 .. Len(s) : s[i].key = k /\ IsLast(s, i) ELSE 0
  BY DEF Merge!LastIndex, Merge!Keys, Keys, Merge!IsLast, IsLast
<1>2. k \in Keys(s) => \E i \in 1 .. Len(s) : s[i].key = k /\ IsLast(s, i)
  BY LastExists DEF IsLast
<1> HIDE DEF l
<1>3. IsPlace(s, k, l)
  BY <1>1, <1>2 DEF IsPlace
<1>4. \A i : IsPlace(s, k, i) => l = i
  BY <1>3, PlaceIsOne
<1> QED BY <1>3, <1>4 DEF l

\* The loop's state, whenever an item has been taken: the versions are
\* sequences, the result is the merge so far, the map holds every key's place.
LoopInv ==
  LET S == Merge!Item IN
  topic = "merge" =>
    /\ cur \in Seq(S) /\ nxt \in Seq(S) /\ taken \in 0 .. Len(nxt)
    /\ merged = Merged(cur, SubSeq(nxt, 1, taken))
    /\ positions = [k \in Key |-> positions[k]]
    /\ \A k \in Key : IsPlace(merged, k, positions[k])

\* A collection is a sequence of items, whatever its bound.
LEMMA CollectionIsSeq == Merge!Collection \subseteq Seq(Merge!Item)
<1> SUFFICES ASSUME NEW n \in 0 .. MaxLen, NEW s \in [1 .. n -> Merge!Item]
             PROVE  s \in Seq(Merge!Item)
  BY DEF Merge!Collection
<1>1. n \in Nat
  OBVIOUS
<1> QED BY <1>1

LEMMA LoopStarts == RulesInit => LoopInv
<1> DEFINE S == Merge!Item
<1> SUFFICES ASSUME RulesInit, topic = "merge" PROVE LoopInv
  BY DEF LoopInv
<1>1. /\ cur \in Merge!Collection /\ nxt \in Merge!Collection /\ merged = cur /\ taken = 0
      /\ positions = [k \in Key |-> Merge!LastIndex(cur, k)]
  BY DEF RulesInit, Merge!Init
<1>2. cur \in Seq(S) /\ nxt \in Seq(S)
  BY <1>1, CollectionIsSeq
<1> HIDE DEF S
<1>3. taken \in 0 .. Len(nxt)
  BY <1>1, <1>2
<1>4. SubSeq(nxt, 1, taken) \in Seq(S) /\ Len(SubSeq(nxt, 1, taken)) = 0
  BY <1>1, <1>2, <1>3, PrefixFacts
<1>5. merged = Merged(cur, SubSeq(nxt, 1, taken))
  BY <1>1, <1>2, <1>4, MergeNone
<1>6. positions = [k \in Key |-> positions[k]]
  BY <1>1
<1>7. \A k \in Key : IsPlace(merged, k, positions[k])
  BY <1>1, <1>2, LastIndexIs
<1> QED BY <1>2, <1>3, <1>5, <1>6, <1>7 DEF LoopInv, S

LEMMA LoopTakes == ASSUME LoopInv, MergeStep PROVE LoopInv'
<1> DEFINE S == Merge!Item
           p == SubSeq(nxt, 1, taken)
           x == nxt[taken + 1]
           at == positions[x.key]
<1>1. /\ cur \in Seq(S) /\ nxt \in Seq(S) /\ taken \in 0 .. Len(nxt)
      /\ merged = Merged(cur, p)
      /\ positions = [k \in Key |-> positions[k]]
      /\ \A k \in Key : IsPlace(merged, k, positions[k])
  BY DEF LoopInv, MergeStep
<1>2. /\ taken < Len(nxt) /\ taken' = taken + 1 /\ cur' = cur /\ nxt' = nxt
      /\ at # 0 => merged' = [merged EXCEPT ![at] = x] /\ positions' = positions
      /\ at = 0 => /\ merged' = Append(merged, x)
                   /\ positions' = [positions EXCEPT ![x.key] = Len(merged) + 1]
  BY DEF MergeStep, Merge!Take
<1>3. x \in S /\ x.key \in Key
  <2>1. x \in S
    BY <1>1, <1>2
  <2> QED BY <2>1 DEF Merge!Item
<1>4. S' = S
  BY DEF Merge!Item
<1> HIDE DEF S
<1>5. p \in Seq(S)
  BY <1>1, PrefixFacts
<1>6. SubSeq(nxt, 1, taken + 1) = Append(p, x)
  BY <1>1, <1>2, PrefixGrows
<1>7. taken' \in 0 .. Len(nxt')
  BY <1>1, <1>2
<1>8. IsPlace(merged, x.key, at)
  BY <1>1, <1>3
<1> HIDE DEF p, x, at
<1>9. merged' = Merged(cur, Append(p, x)) /\ positions' = [k \in Key |-> positions'[k]]
      /\ \A k \in Key : IsPlace(merged', k, positions'[k])
  <2>1. CASE at # 0
    <3>1. at \in 1 .. Len(merged) /\ merged[at].key = x.key /\ IsLast(merged, at)
      BY <1>8, <2>1 DEF IsPlace
    <3>2. /\ Merged(cur, Append(p, x)) = [merged EXCEPT ![at] = x]
          /\ Merged(cur, Append(p, x)) \in Seq(S)
          /\ Len(Merged(cur, Append(p, x))) = Len(merged)
          /\ \A j \in 1 .. Len(merged) : Merged(cur, Append(p, x))[j].key = merged[j].key
      BY <1>1, <1>3, <1>5, <3>1, MergePut
    <3>3. merged' = Merged(cur, Append(p, x)) /\ positions' = positions
      BY <1>2, <2>1, <3>2
    <3>4. merged \in Seq(S)
      BY <1>1, <1>5, MergeIs DEF MergeBy
    <3>5. \A k \in Key : IsPlace(merged', k, positions[k])
      BY <1>1, <3>2, <3>3, <3>4, PlaceKept
    <3> QED BY <1>1, <3>3, <3>5
  <2>2. CASE at = 0
    <3>1. x.key \notin Keys(merged)
      BY <1>8, <2>2 DEF IsPlace
    <3>2. merged \in Seq(S) /\ Merged(cur, Append(p, x)) = Append(merged, x)
      BY <1>1, <1>3, <1>5, <3>1, MergePush
    <3>3. merged' = Append(merged, x) /\ positions' = [positions EXCEPT ![x.key] = Len(merged) + 1]
      BY <1>2, <2>2
    <3>4. \A k \in Key : positions'[k] = IF k = x.key THEN Len(merged) + 1 ELSE positions[k]
      BY <1>1, <1>3, <3>3
    <3>5. ASSUME NEW k \in Key
          PROVE  IsPlace(Append(merged, x), k, IF k = x.key THEN Len(merged) + 1 ELSE positions[k])
      BY <1>1, <1>3, <3>1, <3>2, PlaceAppend
    <3>6. \A k \in Key : IsPlace(merged', k, positions'[k])
      BY <3>3, <3>4, <3>5
    <3>7. positions' = [k \in Key |-> positions'[k]]
      BY <1>1, <1>3, <3>3
    <3> QED BY <3>2, <3>3, <3>6, <3>7
  <2> QED BY <2>1, <2>2
<1>10. merged' = Merged(cur', SubSeq(nxt', 1, taken'))
  BY <1>2, <1>6, <1>9
<1> QED BY <1>1, <1>2, <1>4, <1>7, <1>9, <1>10 DEF LoopInv, S

LEMMA LoopShows == LoopInv => LoopMerges
<1> SUFFICES ASSUME LoopInv, topic = "merge" PROVE Merge!IsMerge /\ Merge!Idempotent
  BY DEF LoopMerges
<1> DEFINE S == Merge!Item
           p == SubSeq(nxt, 1, taken)
<1>1. /\ cur \in Seq(S) /\ nxt \in Seq(S) /\ taken \in 0 .. Len(nxt)
      /\ merged = Merged(cur, p)
      /\ \A k \in Key : IsPlace(merged, k, positions[k])
  BY DEF LoopInv
<1> HIDE DEF S
<1>2. p \in Seq(S) /\ Len(p) = taken /\ \A i \in 1 .. taken : p[i] = nxt[i]
  BY <1>1, PrefixFacts
<1> HIDE DEF p
<1>3. merged \in Seq(S)
  BY <1>1, <1>2, MergeIs DEF MergeBy
<1>4. \A k \in Key : positions[k] = Merge!LastIndex(merged, k)
  BY <1>1, <1>3, LastIndexIs
<1>5. ASSUME taken = Len(nxt) PROVE Merged(merged, nxt) = merged
  <2>1. p = nxt
    BY <1>1, <1>2, <1>5, SameSequence
  <2> QED BY <1>1, <2>1, MergeAgain
<1> QED BY <1>1, <1>4, <1>5, SameMerge DEF Merge!IsMerge, Merge!Idempotent, p

\* At every point of merge_stable_by_key's loop the result is the declarative
\* merge of the disk's version with the items taken so far, its map finds the
\* place of every key, and in the end merging again changes nothing, for
\* collections of any length with any keys.
THEOREM LoopTheorem == RulesSpec => []LoopMerges
<1>1. RulesInit => LoopInv
  BY LoopStarts
<1>2. ASSUME LoopInv, [RulesNext]_(rulesVars) PROVE LoopInv'
  <2>1. CASE MergeStep
    BY <1>2, <2>1, LoopTakes
  <2>2. CASE ~MergeStep
    <3>1. topic' = topic /\ merging' = merging
      BY <1>2, <2>2 DEF RulesNext, rulesVars, AddRound, ChangeRun, ChangeLedger, ChangeHead,
             DecisionStep, EvidenceStep, PermissionStep
    <3> QED BY <1>2, <3>1 DEF LoopInv, merging, Merge!Item
  <2> QED BY <2>1, <2>2
<1>3. LoopInv => LoopMerges
  BY LoopShows
<1> QED BY <1>1, <1>2, <1>3, PTL DEF RulesSpec

-----------------------------------------------------------------------------
(* The verdict over the rounds of a ledger and the advice. *)

\* A sequence of numbers that never rises, never falls.
NoRise(b) == \A i \in 1 .. Len(b) - 1 : ~(b[i + 1] > b[i])
NoFall(b) == \A i \in 1 .. Len(b) - 1 : ~(b[i + 1] < b[i])

LEMMA NoRiseFar ==
  ASSUME NEW b \in Seq(Nat), NoRise(b), NEW i \in 1 .. Len(b), NEW j \in 1 .. Len(b), i <= j
  PROVE  b[j] <= b[i]
<1> DEFINE T == {k \in Nat : i <= k /\ k <= Len(b) /\ ~(b[k] <= b[i])}
<1>1. \A k \in 1 .. Len(b) : b[k] \in Nat
  OBVIOUS
<1>2. ASSUME T # {} PROVE FALSE
  <2>1. T \in SUBSET Nat
    OBVIOUS
  <2> HIDE DEF T
  <2>2. PICK k \in T : \A y \in T : k <= y
    BY <1>2, <2>1, LeastNumber
  <2>3. k \in Nat /\ i <= k /\ k <= Len(b) /\ ~(b[k] <= b[i])
    BY <2>2 DEF T
  <2>4. k # i
    BY <1>1, <2>3
  <2>5. k - 1 \in Nat /\ i <= k - 1 /\ k - 1 <= Len(b) /\ ~(k <= k - 1) /\ k - 1 \in 1 .. Len(b) - 1 /\ (k - 1) + 1 = k
    BY <2>3, <2>4
  <2>6. b[k - 1] <= b[i]
    BY <2>2, <2>5 DEF T
  <2>7. ~(b[k] > b[k - 1])
    BY <2>5 DEF NoRise
  <2>8. b[k] \in Nat /\ b[k - 1] \in Nat /\ b[i] \in Nat
    BY <1>1, <2>3, <2>5
  <2> QED BY <2>3, <2>6, <2>7, <2>8
<1>3. j \in Nat /\ j <= Len(b)
  OBVIOUS
<1> QED BY <1>2, <1>3

LEMMA NoFallFar ==
  ASSUME NEW b \in Seq(Nat), NoFall(b), NEW i \in 1 .. Len(b), NEW j \in 1 .. Len(b), i <= j
  PROVE  b[i] <= b[j]
<1> DEFINE T == {k \in Nat : i <= k /\ k <= Len(b) /\ ~(b[i] <= b[k])}
<1>1. \A k \in 1 .. Len(b) : b[k] \in Nat
  OBVIOUS
<1>2. ASSUME T # {} PROVE FALSE
  <2>1. T \in SUBSET Nat
    OBVIOUS
  <2> HIDE DEF T
  <2>2. PICK k \in T : \A y \in T : k <= y
    BY <1>2, <2>1, LeastNumber
  <2>3. k \in Nat /\ i <= k /\ k <= Len(b) /\ ~(b[i] <= b[k])
    BY <2>2 DEF T
  <2>4. k # i
    BY <1>1, <2>3
  <2>5. k - 1 \in Nat /\ i <= k - 1 /\ k - 1 <= Len(b) /\ ~(k <= k - 1) /\ k - 1 \in 1 .. Len(b) - 1 /\ (k - 1) + 1 = k
    BY <2>3, <2>4
  <2>6. b[i] <= b[k - 1]
    BY <2>2, <2>5 DEF T
  <2>7. ~(b[k] < b[k - 1])
    BY <2>5 DEF NoFall
  <2>8. b[k] \in Nat /\ b[k - 1] \in Nat /\ b[i] \in Nat
    BY <1>1, <2>3, <2>5
  <2> QED BY <2>3, <2>6, <2>7, <2>8
<1>3. j \in Nat /\ j <= Len(b)
  OBVIOUS
<1> QED BY <1>2, <1>3

\* A sequence that falls at every step falls by one at least.
LEMMA FallsFar ==
  ASSUME NEW b \in Seq(Nat), \A i \in 1 .. Len(b) - 1 : b[i + 1] < b[i], NEW j \in 1 .. Len(b)
  PROVE  b[j] <= b[1] - (j - 1)
<1> DEFINE T == {k \in Nat : 1 <= k /\ k <= Len(b) /\ ~(b[k] <= b[1] - (k - 1))}
<1>1. \A k \in 1 .. Len(b) : b[k] \in Nat
  OBVIOUS
<1>2. ASSUME T # {} PROVE FALSE
  <2>1. T \in SUBSET Nat
    OBVIOUS
  <2> HIDE DEF T
  <2>2. PICK k \in T : \A y \in T : k <= y
    BY <1>2, <2>1, LeastNumber
  <2>3. k \in Nat /\ 1 <= k /\ k <= Len(b) /\ ~(b[k] <= b[1] - (k - 1))
    BY <2>2 DEF T
  <2>4. k # 1
    BY <1>1, <2>3
  <2>5. k - 1 \in Nat /\ 1 <= k - 1 /\ k - 1 <= Len(b) /\ ~(k <= k - 1) /\ k - 1 \in 1 .. Len(b) - 1 /\ (k - 1) + 1 = k
    BY <2>3, <2>4
  <2> DEFINE x == b[k - 1]
             y == b[k]
             z == b[1]
  <2>6. x <= z - ((k - 1) - 1)
    BY <2>2, <2>5 DEF T
  <2>7. y < x
    BY <2>5
  <2>8. x \in Nat /\ y \in Nat /\ z \in Nat /\ ~(y <= z - (k - 1))
    BY <1>1, <2>3, <2>5
  <2> HIDE DEF x, y, z
  <2> QED BY <2>3, <2>6, <2>7, <2>8
<1>3. j \in Nat /\ 1 <= j /\ j <= Len(b)
  OBVIOUS
<1> QED BY <1>2, <1>3

\* Without repetitions of neighbours, it rises or falls strictly.
LEMMA DedupedStrict ==
  ASSUME NEW b \in Seq(Nat), NEW d, d = Deduped(b)
  PROVE  /\ d \in Seq(Nat)
         /\ NoRise(b) => \A k, n \in 1 .. Len(d) : k < n => d[n] < d[k]
         /\ NoFall(b) => \A k, n \in 1 .. Len(d) : k < n => d[k] < d[n]
<1> DEFINE P == {i \in 1 .. Len(b) : i = 1 \/ b[i] # b[i - 1]}
<1>1. d = Picked(b, P)
  BY DEF Deduped
<1>2. PicksBy(Nat, b, P, d)
  <2>1. P \in SUBSET (1 .. Len(b))
    OBVIOUS
  <2> HIDE DEF P
  <2> QED BY <1>1, <2>1, PickedIs
<1>3. ASSUME NEW k \in 1 .. Len(d), NEW n \in 1 .. Len(d), k < n
      PROVE  /\ NoRise(b) => d[n] < d[k]
             /\ NoFall(b) => d[k] < d[n]
  <2> DEFINE i == Nth(P, k)
             j == Nth(P, n)
  <2>1. i \in P /\ j \in P /\ i < j /\ d[k] = b[i] /\ d[n] = b[j]
    <3> HIDE DEF P
    <3> QED BY <1>2, <1>3 DEF PicksBy
  <2> HIDE DEF i, j
  <2>2. i \in 1 .. Len(b) /\ j \in 1 .. Len(b) /\ j # 1 /\ b[j] # b[j - 1]
    BY <2>1
  <2> HIDE DEF P
  <2>3. j - 1 \in 1 .. Len(b) /\ i <= j - 1 /\ j - 1 <= j
    <3>1. i < j /\ i \in 1 .. Len(b) /\ j \in 1 .. Len(b) /\ j # 1
      BY <2>1, <2>2
    <3>2. Len(b) \in Nat
      OBVIOUS
    <3> QED BY <3>1, <3>2
  <2> DEFINE x == b[i]
             y == b[j - 1]
             z == b[j]
  <2>4. x \in Nat /\ y \in Nat /\ z \in Nat /\ y # z /\ d[k] = x /\ d[n] = z
    BY <2>1, <2>2, <2>3
  <2>5. j - 1 \in 1 .. Len(b) - 1 /\ (j - 1) + 1 = j
    BY <2>2, <2>3
  <2>6. NoRise(b) => ~(z > y)
    BY <2>5 DEF NoRise
  <2>7. NoFall(b) => ~(z < y)
    BY <2>5 DEF NoFall
  <2>8. NoRise(b) => y <= x
    BY <2>2, <2>3, NoRiseFar
  <2>9. NoFall(b) => x <= y
    BY <2>2, <2>3, NoFallFar
  <2> HIDE DEF x, y, z
  <2>10. NoRise(b) => z < x
    BY <2>4, <2>6, <2>8
  <2>11. NoFall(b) => x < z
    BY <2>4, <2>7, <2>9
  <2> QED BY <2>4, <2>10, <2>11
<1>4. d \in Seq(Nat)
  BY <1>2 DEF PicksBy
<1> QED BY <1>3, <1>4


\* It has no turns then, ...
LEMMA MonotoneNoTurns ==
  ASSUME NEW b \in Seq(Nat), NoRise(b) \/ NoFall(b)
  PROVE  Turns(b) = 0
<1> DEFINE d == Deduped(b)
           T == {i \in 2 .. Len(d) - 1 : (d[i] > d[i - 1]) # (d[i + 1] > d[i])}
<1>1. /\ d \in Seq(Nat)
      /\ NoRise(b) => \A k, n \in 1 .. Len(d) : k < n => d[n] < d[k]
      /\ NoFall(b) => \A k, n \in 1 .. Len(d) : k < n => d[k] < d[n]
  BY DedupedStrict
<1>2. Turns(b) = Cardinality(T)
  BY DEF Turns
<1> HIDE DEF d
<1>3. ASSUME NEW i \in 2 .. Len(d) - 1 PROVE (d[i] > d[i - 1]) = (d[i + 1] > d[i])
  <2>1. /\ i - 1 \in 1 .. Len(d) /\ i \in 1 .. Len(d) /\ i + 1 \in 1 .. Len(d)
        /\ i - 1 < i /\ i < i + 1
    <3>1. Len(d) \in Nat
      BY <1>1
    <3> QED BY <3>1
  <2>2. d[i - 1] \in Nat /\ d[i] \in Nat /\ d[i + 1] \in Nat
    <3>1. \A k \in 1 .. Len(d) : d[k] \in Nat
      <4>1. d \in Seq(Nat)
        BY <1>1
      <4> QED BY <4>1
    <3> QED BY <2>1, <3>1
  <2>3. CASE NoRise(b)
    <3>1. \A k, n \in 1 .. Len(d) : k < n => d[n] < d[k]
      BY <1>1, <2>3
    <3>2. d[i] < d[i - 1] /\ d[i + 1] < d[i]
      BY <2>1, <3>1
    <3> QED BY <2>2, <3>2
  <2>4. CASE NoFall(b)
    <3>1. \A k, n \in 1 .. Len(d) : k < n => d[k] < d[n]
      BY <1>1, <2>4
    <3>2. d[i - 1] < d[i] /\ d[i] < d[i + 1]
      BY <2>1, <3>1
    <3> QED BY <2>2, <3>2
  <2> QED BY <2>3, <2>4
<1>4. T = {}
  BY <1>3
<1> QED BY <1>2, <1>4, FS_EmptySet

\* ... and if it never rises, at most one peak.
LEMMA FallNoEnvelope ==
  ASSUME NEW b \in Seq(Nat), NoRise(b)
  PROVE  ClassifyEnvelope(PeakValues(b)) = "unknown"
<1> DEFINE d == Deduped(b)
           Peak(i) == (i = 1 \/ d[i] > d[i - 1]) /\ (i = Len(d) \/ d[i] > d[i + 1])
           P == {i \in 1 .. Len(d) : Peak(i)}
           Q == Picked(d, P)
<1>1. d \in Seq(Nat) /\ \A k, n \in 1 .. Len(d) : k < n => d[n] < d[k]
  BY DedupedStrict
<1>2. PeakValues(b) = IF Len(d) < 2 THEN d ELSE Q
  BY DEF PeakValues
<1> HIDE DEF d
<1>3. ASSUME Len(d) >= 2 PROVE Len(Q) < 2
  <2>1. PicksBy(Nat, d, P, Q)
    <3>1. P \in SUBSET (1 .. Len(d))
      OBVIOUS
    <3> HIDE DEF P
    <3> QED BY <1>1, <3>1, PickedIs
  <2>2. ASSUME NEW i \in P PROVE i = 1
    <3>1. i \in 1 .. Len(d) /\ (i = 1 \/ d[i] > d[i - 1])
      OBVIOUS
    <3> HIDE DEF P, Q
    <3>2. ASSUME i # 1 PROVE FALSE
      <4>1. i - 1 \in 1 .. Len(d) /\ i - 1 < i
        BY <1>1, <3>1, <3>2
      <4>2. d[i] < d[i - 1]
        BY <1>1, <3>1, <4>1
      <4>3. d[i] \in Nat /\ d[i - 1] \in Nat
        BY <1>1, <3>1, <4>1
      <4> QED BY <3>1, <3>2, <4>2, <4>3
    <3> QED BY <3>2
  <2> HIDE DEF P, Q
  <2>3. ASSUME Len(Q) >= 2 PROVE FALSE
    <3>1. 1 \in 1 .. Len(Q) /\ 2 \in 1 .. Len(Q) /\ Len(Q) \in Nat
      BY <2>1, <2>3 DEF PicksBy
    <3>2. Nth(P, 1) < Nth(P, 2) /\ Nth(P, 1) \in P /\ Nth(P, 2) \in P
      BY <2>1, <3>1 DEF PicksBy
    <3> QED BY <2>2, <3>2
  <2>4. Len(Q) \in Nat
    BY <2>1 DEF PicksBy
  <2> QED BY <2>3, <2>4
<1> HIDE DEF P, Q
<1>4. Len(PeakValues(b)) < 2
  BY <1>1, <1>2, <1>3
<1> QED BY <1>4 DEF ClassifyEnvelope

\* The rounds against the verdict; the verdict, read from the blockers.
Against(b, strict) ==
  {i \in 1 .. Len(b) - 1 : b[i + 1] > b[i] \/ (strict /\ b[i + 1] = b[i] /\ b[i] > 0)}

LEMMA VerdictIs ==
  ASSUME NEW rows, NEW b, b = Blockers(rows), Len(b) # 0, NEW strict \in BOOLEAN
  PROVE  /\ EvaluateLedger(rows, strict) = "CONVERGED" <=> b[Len(b)] = 0
         /\ EvaluateLedger(rows, strict) = "CONVERGING" <=> b[Len(b)] # 0 /\ Against(b, strict) = {}
         /\ EvaluateLedger(rows, strict) = "REBOUND" => Against(b, strict) # {}
<1> DEFINE A == Against(b, strict)
           l == Least(A)
<1>1. EvaluateLedger(rows, strict) =
        IF b[Len(b)] = 0 THEN "CONVERGED" ELSE IF A = {} THEN "CONVERGING"
        ELSE IF b[l + 1] > b[l] THEN "REBOUND" ELSE "STALLED"
  BY DEF EvaluateLedger, Against
<1> HIDE DEF A, l
<1>2. /\ EvaluateLedger(rows, strict) = "CONVERGED" <=> b[Len(b)] = 0
      /\ EvaluateLedger(rows, strict) = "CONVERGING" <=> b[Len(b)] # 0 /\ A = {}
      /\ EvaluateLedger(rows, strict) = "REBOUND" => A # {}
  BY <1>1
<1> QED BY <1>2 DEF A

\* The two opinions on the same rounds.
Agree(b, v, s, d) ==
  /\ (v = "CONVERGED") <=> (d.terminal = "zero")
  /\ v = "CONVERGING" => d.direction \in {"improving", "flat"} /\ d.oscillation = "none"
  /\ v = "REBOUND" => d.direction \in {"worsening", "mixed"}
  /\ d.oscillation = "alternating" => d.direction = "mixed"
  /\ d.envelope = "expanding" => ~(v = "CONVERGING")
  /\ s = "CONVERGING" => v = "CONVERGING" /\ b[Len(b)] <= b[1] - (Len(b) - 1)
  /\ s = "CONVERGING" => (SuggestsEntropyReview(d) <=> Len(b) >= 3)

LEMMA OpinionsAgree ==
  ASSUME NEW rows, NEW b, b = Blockers(rows), b \in Seq(Nat), Len(b) # 0,
         NEW v, v = EvaluateLedger(rows, FALSE), NEW s, s = EvaluateLedger(rows, TRUE),
         NEW d, d = Diagnose(rows)
  PROVE  Agree(b, v, s, d)
<1> DEFINE improving == \E i \in 1 .. Len(b) - 1 : b[i + 1] < b[i]
           worsening == \E i \in 1 .. Len(b) - 1 : b[i + 1] > b[i]
<1>1. /\ d.sufficient = (Len(b) >= 3)
      /\ d.terminal = IF b[Len(b)] = 0 THEN "zero" ELSE "nonzero"
      /\ d.direction = IF improving THEN IF worsening THEN "mixed" ELSE "improving"
                       ELSE IF worsening THEN "worsening" ELSE "flat"
      /\ Turns(b) = 0 => d.oscillation = "none"
      /\ d.envelope = ClassifyEnvelope(PeakValues(b))
  BY DEF Diagnose
<1>2. /\ v = "CONVERGED" <=> b[Len(b)] = 0
      /\ v = "CONVERGING" <=> b[Len(b)] # 0 /\ Against(b, FALSE) = {}
      /\ v = "REBOUND" => Against(b, FALSE) # {}
      /\ s = "CONVERGING" <=> b[Len(b)] # 0 /\ Against(b, TRUE) = {}
  BY VerdictIs
<1>3. \A i \in 1 .. Len(b) - 1 : b[i] \in Nat /\ b[i + 1] \in Nat
  OBVIOUS
<1>4. Against(b, FALSE) = {} <=> ~worsening
  BY DEF Against
<1>5. ~worsening <=> NoRise(b)
  BY DEF NoRise
<1>6. ~improving <=> NoFall(b)
  BY DEF NoFall
<1>7. NoRise(b) => d.envelope = "unknown" /\ d.oscillation = "none"
  BY <1>1, FallNoEnvelope, MonotoneNoTurns
<1>8. NoFall(b) => d.oscillation = "none"
  BY <1>1, MonotoneNoTurns
<1>9. ASSUME s = "CONVERGING"
      PROVE  NoRise(b) /\ b[Len(b)] <= b[1] - (Len(b) - 1)
  <2>1. b[Len(b)] # 0 /\ Against(b, TRUE) = {}
    BY <1>2, <1>9
  <2>2. NoRise(b)
    BY <2>1 DEF Against, NoRise
  <2>3. Len(b) \in 1 .. Len(b)
    OBVIOUS
  <2>4. ASSUME NEW i \in 1 .. Len(b) - 1 PROVE b[i + 1] < b[i]
    <3>1. i \in 1 .. Len(b) /\ i <= Len(b)
      OBVIOUS
    <3>2. b[Len(b)] <= b[i] /\ b[Len(b)] \in Nat /\ b[i] \in Nat /\ b[i + 1] \in Nat
      BY <1>3, <2>2, <2>3, <3>1, NoRiseFar
    <3>3. ~(b[i + 1] > b[i]) /\ ~(b[i + 1] = b[i] /\ b[i] > 0)
      BY <2>1 DEF Against
    <3> QED BY <2>1, <3>2, <3>3
  <2> QED BY <2>2, <2>3, <2>4, FallsFar
<1> HIDE DEF improving, worsening
<1>10. (v = "CONVERGED") <=> (d.terminal = "zero")
  BY <1>1, <1>2
<1>11. v = "CONVERGING" => d.direction \in {"improving", "flat"} /\ d.oscillation = "none" /\ d.envelope = "unknown"
  BY <1>1, <1>2, <1>4, <1>5, <1>7
<1>12. v = "REBOUND" => d.direction \in {"worsening", "mixed"}
  BY <1>1, <1>2, <1>4
<1>13. d.oscillation = "alternating" => d.direction = "mixed"
  BY <1>1, <1>5, <1>6, <1>7, <1>8
<1>14. s = "CONVERGING" => v = "CONVERGING" /\ b[Len(b)] <= b[1] - (Len(b) - 1)
  BY <1>2, <1>4, <1>5, <1>9
<1>15. s = "CONVERGING" => (SuggestsEntropyReview(d) <=> Len(b) >= 3)
  BY <1>1, <1>11, <1>14 DEF SuggestsEntropyReview
<1> QED BY <1>10, <1>11, <1>12, <1>13, <1>14, <1>15 DEF Agree


\* A ledger that only audits have written: rows of numbers, numbered in order,
\* none beside the template's empty row.
Row == [label : Nat, high : Nat, critical : Nat, by : {0}, auditors : SUBSET {"codex"}, coverage : {"filled"}]
LedgerInv ==
  topic = "ledger" =>
    /\ ledger \in [file : {"absent", "ok"}, placeholder : BOOLEAN, rows : Seq(Row)]
    /\ ledger.placeholder \/ ledger.file = "absent" => ledger.rows = << >>
    /\ \A i \in 1 .. Len(ledger.rows) : ledger.rows[i].label = i

LEMMA LabelIsNext ==
  ASSUME NEW l, l.rows \in Seq(Row), l.placeholder => l.rows = << >>,
         \A i \in 1 .. Len(l.rows) : l.rows[i].label = i
  PROVE  NextRoundLabel(l) = Len(l.rows) + 1
<1> DEFINE n == Len(l.rows)
           L == {l.rows[i].label : i \in 1 .. n}
<1>1. n \in Nat
  OBVIOUS
<1>2. CASE l.rows = << >>
  BY <1>2 DEF NextRoundLabel
<1>3. CASE l.rows # << >>
  <2>1. n \in 1 .. n
    BY <1>1, <1>3
  <2>2. L = 1 .. n
    OBVIOUS
  <2> DEFINE top == CHOOSE m \in L : \A i \in 1 .. n : l.rows[i].label <= m
  <2>3. NextRoundLabel(l) = 1 + top
    BY <1>3 DEF NextRoundLabel
  <2>4. n \in L /\ \A i \in 1 .. n : l.rows[i].label <= n
    BY <2>1, <2>2
  <2>5. \A m \in L : (\A i \in 1 .. n : l.rows[i].label <= m) => m = n
    BY <1>1, <2>1, <2>2
  <2>6. top \in L /\ \A i \in 1 .. n : l.rows[i].label <= top
    BY <2>4
  <2> HIDE DEF top, L
  <2>7. top = n
    BY <2>5, <2>6
  <2> QED BY <1>1, <2>3, <2>7
<1> QED BY <1>2, <1>3

LEMMA SchemaKept ==
  ASSUME NEW rows \in Seq(Row)
  PROVE  UpgradeSchema(rows) = rows
<1>1. ASSUME NEW i \in 1 .. Len(rows) PROVE rows[i].coverage = "filled"
  <2>1. rows[i] \in Row
    OBVIOUS
  <2> QED BY <2>1 DEF Row
<1>2. UpgradeSchema(rows) = [i \in 1 .. Len(rows) |-> rows[i]]
  BY <1>1 DEF UpgradeSchema
<1> QED BY <1>2

LEMMA LedgerGrows ==
  ASSUME RulesBounds, LedgerInv, AddRound
  PROVE  LedgerInv'
<1> DEFINE l == EnsureExists(ledger)
           Given(h, c, a) == [label |-> 0, high |-> h, critical |-> c, by |-> 0,
                              auditors |-> a, coverage |-> "filled"]
<1>1. topic = "ledger" /\ topic' = topic
  BY DEF AddRound
<1>2. /\ l \in [file : {"ok"}, placeholder : BOOLEAN, rows : Seq(Row)]
      /\ l.placeholder => l.rows = << >>
      /\ \A i \in 1 .. Len(l.rows) : l.rows[i].label = i
  BY <1>1 DEF LedgerInv, EnsureExists, Template
<1>3. PICK high \in 0 .. MaxCount : \E critical \in 0 .. MaxCount, a \in SUBSET {"codex"} :
        ledger' = Appended(l, Given(high, critical, a))
  BY DEF AddRound
<1>4. PICK critical \in 0 .. MaxCount, a \in SUBSET {"codex"} :
        ledger' = Appended(l, Given(high, critical, a))
  BY <1>3
<1> DEFINE n == Len(l.rows)
           row == [Given(high, critical, a) EXCEPT !.label = n + 1]
<1> HIDE DEF l
<1>5. n \in Nat /\ l.rows \in Seq(Row)
  BY <1>2
<1>6. row \in Row /\ row.label = n + 1
  BY <1>5 DEF RulesBounds, Row
<1>7. NextRoundLabel(l) = n + 1 /\ UpgradeSchema(l.rows) = l.rows
  BY <1>2, LabelIsNext, SchemaKept
<1>8. ledger' = [l EXCEPT !.placeholder = FALSE, !.rows = Append(l.rows, row)]
  BY <1>4, <1>7 DEF Appended
<1> HIDE DEF row, n
<1>9. ledger'.rows = Append(l.rows, row) /\ ledger'.placeholder = FALSE /\ ledger'.file = "ok"
      /\ ledger' = [file |-> "ok", placeholder |-> FALSE, rows |-> Append(l.rows, row)]
  BY <1>2, <1>8
<1>10. /\ Append(l.rows, row) \in Seq(Row) /\ Len(Append(l.rows, row)) = n + 1
       /\ \A i \in 1 .. n : Append(l.rows, row)[i] = l.rows[i]
       /\ Append(l.rows, row)[n + 1] = row
  BY <1>5, <1>6 DEF n
<1>11. \A i \in 1 .. n + 1 : Append(l.rows, row)[i].label = i
  <2>1. \A i \in 1 .. n + 1 : i \in 1 .. n \/ i = n + 1
    BY <1>5
  <2>2. \A i \in 1 .. n : l.rows[i].label = i
    BY <1>2 DEF n
  <2> QED BY <1>6, <1>10, <2>1, <2>2
<1> QED BY <1>1, <1>9, <1>10, <1>11 DEF LedgerInv

LEMMA VerdictHolds == LedgerInv => VerdictAgrees
<1> SUFFICES ASSUME LedgerInv, topic = "ledger", Len(ParseLedger(ledger)) > 0 PROVE VerdictAgrees
  BY DEF VerdictAgrees
<1> DEFINE rows == ParseLedger(ledger)
           v == EvaluateLedger(rows, FALSE)
           s == EvaluateLedger(rows, TRUE)
           b == Blockers(rows)
           n == Len(rows)
           d == Diagnose(rows)
<1>1. rows \in Seq(Row) /\ \A i \in 1 .. n : rows[i].label = i
  BY DEF LedgerInv, ParseLedger
<1>2. n \in Nat /\ n # 0
  BY <1>1
<1>3. b = [i \in 1 .. n |-> rows[i].high + rows[i].critical]
  BY DEF Blockers
<1> HIDE DEF rows
<1>4. \A i \in 1 .. n : rows[i].high + rows[i].critical \in Nat
  <2> SUFFICES ASSUME NEW i \in 1 .. n PROVE rows[i].high + rows[i].critical \in Nat
    OBVIOUS
  <2>1. rows[i] \in Row
    BY <1>1
  <2>2. rows[i].high \in Nat /\ rows[i].critical \in Nat
    BY <2>1 DEF Row
  <2> QED BY <2>2
<1> HIDE DEF b
<1>5. b \in Seq(Nat) /\ Len(b) = n
  BY <1>2, <1>3, <1>4
<1>6. Agree(b, v, s, d)
  <2>1. b = Blockers(rows) /\ b \in Seq(Nat) /\ Len(b) # 0
    BY <1>2, <1>5 DEF b
  <2> HIDE DEF n
  <2> QED BY <2>1, OpinionsAgree
<1> HIDE DEF v, s, d, n
<1> QED BY <1>1, <1>5, <1>6 DEF VerdictAgrees, Agree, rows, v, s, b, d, n

\* The verdict of evaluate_ledger and the advice of diagnose do not contradict
\* each other, whatever the number of rounds and of findings in them.
THEOREM VerdictTheorem ==
  ASSUME RulesBounds
  PROVE  RulesSpec => []VerdictAgrees
<1>1. RulesInit => LedgerInv
  BY DEF RulesInit, Absent, LedgerInv
<1>2. ASSUME LedgerInv, [RulesNext]_(rulesVars) PROVE LedgerInv'
  <2>1. CASE AddRound
    BY <1>2, <2>1, LedgerGrows
  <2>2. CASE ~AddRound
    <3>1. topic' = topic /\ (topic = "ledger" => ledger' = ledger)
      BY <1>2, <2>2 DEF RulesNext, rulesVars, ChangeRun, ChangeLedger, ChangeHead,
             MergeStep, DecisionStep, EvidenceStep, PermissionStep
    <3> QED BY <1>2, <3>1 DEF LedgerInv
  <2> QED BY <2>1, <2>2
<1>3. LedgerInv => VerdictAgrees
  BY VerdictHolds
<1> QED BY <1>1, <1>2, <1>3, PTL DEF RulesSpec

-----------------------------------------------------------------------------
(* Jobs: who makes them, and what they may do. *)

\* The fields of a job and of its policy are all there, and no others.
Shaped(j) ==
  /\ DOMAIN j = {"runner", "policy", "env", "type", "isolation", "worktree", "prompt"}
  /\ j = [f \in DOMAIN j |-> j[f]]
  /\ DOMAIN j.policy = {"sandbox", "reason", "approved", "headless", "tools"}
  /\ j.policy = [f \in DOMAIN j.policy |-> j.policy[f]]

LEMMA OwnShaped ==
  ASSUME NEW r, NEW p, NEW e, NEW t,
         DOMAIN p = {"sandbox", "reason", "approved", "headless", "tools"},
         p = [f \in DOMAIN p |-> p[f]]
  PROVE  Shaped(Work!OwnJob(r, p, e, t))
BY DEF Shaped, Work!OwnJob

LEMMA EditShaped ==
  ASSUME NEW j, Shaped(j), NEW f, NEW v, f # "policy"
  PROVE  Shaped([j EXCEPT ![f] = v])
<1>1. f # "policy" => [j EXCEPT ![f] = v].policy = j.policy
  BY DEF Shaped
<1> QED BY <1>1 DEF Shaped

LEMMA EditPolicyShaped ==
  ASSUME NEW j, Shaped(j), NEW f, NEW v
  PROVE  Shaped([j EXCEPT !.policy[f] = v])
BY DEF Shaped

LEMMA HeadlessFields ==
  ASSUME NEW j, Shaped(j), NEW h, h = [j EXCEPT !.policy.headless = TRUE]
  PROVE  /\ h.runner = j.runner /\ h.env = j.env /\ h.isolation = j.isolation /\ h.prompt = j.prompt
         /\ h.policy.sandbox = j.policy.sandbox /\ h.policy.reason = j.policy.reason /\ h.policy.approved = j.policy.approved
         /\ h.policy.tools = j.policy.tools /\ h.policy.headless
<1>1. h.runner = j.runner /\ h.env = j.env /\ h.isolation = j.isolation /\ h.prompt = j.prompt
  BY DEF Shaped
<1>2. h.policy = [j.policy EXCEPT !.headless = TRUE]
  BY DEF Shaped
<1>3. h.policy.sandbox = j.policy.sandbox /\ h.policy.reason = j.policy.reason /\ h.policy.approved = j.policy.approved
         /\ h.policy.tools = j.policy.tools
   BY <1>2 DEF Shaped
<1>4. h.policy.headless = TRUE
  BY <1>2 DEF Shaped
<1> QED BY <1>1, <1>3, <1>4

LEMMA EnforcedAny ==
  ASSUME NEW j, Shaped(j), Work!Validate(j)
  PROVE  /\ j.runner = "codex" => \A k \in DOMAIN j.env : Work!RunnerEnv(j)[k] = j.env[k]
         /\ Work!RunnerEnv(j)["CODEX_SANDBOX"] = "read-only" => j.runner \notin {"agy", "gemini", "tmux"}
         /\ Work!JobNeedsWorktree(j) /\ j.isolation = "none" /\ ~j.worktree => j.policy.reason
         /\ Work!Validate([j EXCEPT !.policy.headless = TRUE])
<1> DEFINE h == [j EXCEPT !.policy.headless = TRUE]
           p == j.policy
<1>1. /\ j.runner \in Work!KnownRunners /\ j.isolation \in {"none", "worktree"} /\ j.prompt
      /\ p.sandbox # "read-only" => p.reason
      /\ p.sandbox = "danger-full-access" => p.approved
      /\ j.runner = "codex" /\ "CODEX_SANDBOX" \in DOMAIN j.env => j.env["CODEX_SANDBOX"] = p.sandbox
      /\ j.runner \in {"agy", "gemini", "tmux"} => p.sandbox # "read-only"
      /\ j.runner \in {"claude", "pi"} /\ ~(p.sandbox # "read-only") => p.tools \subseteq Work!ReadonlyTools(j.runner)
  BY DEF Work!Validate, Work!ValidateForRunner
<1>2. /\ h.runner = j.runner /\ h.env = j.env /\ h.isolation = j.isolation /\ h.prompt = j.prompt
      /\ h.policy.sandbox = p.sandbox /\ h.policy.reason = p.reason /\ h.policy.approved = p.approved
      /\ h.policy.tools = p.tools /\ h.policy.headless
  BY HeadlessFields
<1>3. Work!RunnerEnv(j) = [k \in DOMAIN j.env \cup {"CODEX_SANDBOX"} |->
                          IF k = "CODEX_SANDBOX" THEN p.sandbox ELSE j.env[k]]
  BY DEF Work!RunnerEnv
<1> HIDE DEF h, p
<1>4. Work!Validate(h)
  BY <1>1, <1>2 DEF Work!Validate, Work!ValidateForRunner
<1>5. Work!JobNeedsWorktree(j) /\ j.isolation = "none" /\ ~j.worktree => p.reason
  BY <1>1 DEF Work!JobNeedsWorktree, p
<1> QED BY <1>1, <1>3, <1>4, <1>5 DEF h, p

\* Who is of which family.
LEMMA PoolFamilies ==
  /\ Work!Family({"codex"}) = {"Codex"} /\ Work!Family({"pi"}) = {"Pi"}
  /\ Work!Family({"agy"}) = {"Agy"} /\ Work!Family({"claude"}) = {"Claude"}
  /\ Work!Family({"unknown"}) = {"unknown"}
<1> DEFINE K == Work!FamilyKeys
           hits(r) == {i \in 1 .. Len(K) : K[i][1] \in {r}}
           first(H) == CHOOSE i \in H : \A j \in H : i <= j
<1>1. \A r : Work!Family({r}) = IF hits(r) = {} THEN {r} ELSE {K[first(hits(r))][2]}
  BY DEF Work!Family
<1>2. /\ Len(K) = 10
      /\ K[1] = <<"claude", "Claude">> /\ K[2] = <<"anthropic", "Claude">>
      /\ K[3] = <<"codex", "Codex">> /\ K[4] = <<"gpt", "Codex">> /\ K[5] = <<"openai", "Codex">>
      /\ K[6] = <<"pi", "Pi">> /\ K[7] = <<"deepseek", "Pi">>
      /\ K[8] = <<"agy", "Agy">> /\ K[9] = <<"gemini", "Agy">> /\ K[10] = <<"google", "Agy">>
  BY DEF Work!FamilyKeys
<1>3. 1 .. Len(K) = {1, 2, 3, 4, 5, 6, 7, 8, 9, 10}
  BY <1>2
<1>4. \A i \in Int : first({i}) = i
  OBVIOUS
<1> HIDE DEF K, first
<1>5. hits("codex") = {3} /\ hits("pi") = {6} /\ hits("agy") = {8} /\ hits("claude") = {1} /\ hits("unknown") = {}
  BY <1>2, <1>3
<1> HIDE DEF hits
<1>6. ASSUME NEW r, NEW i \in Int, hits(r) = {i} PROVE Work!Family({r}) = {K[i][2]}
  BY <1>1, <1>4, <1>6
<1>7. /\ Work!Family({"codex"}) = {K[3][2]} /\ Work!Family({"pi"}) = {K[6][2]}
      /\ Work!Family({"agy"}) = {K[8][2]} /\ Work!Family({"claude"}) = {K[1][2]}
  BY <1>5, <1>6
<1>8. Work!Family({"unknown"}) = {"unknown"}
  BY <1>1, <1>5
<1> QED BY <1>2, <1>7, <1>8


Pool == {"codex", "pi", "agy", "claude"}

LEMMA PoolIs ==
  ASSUME NEW pool, pool = <<"codex", "pi", "agy", "claude">>
  PROVE  /\ pool \in Seq(Pool) /\ Len(pool) = 4 /\ \A i \in 1 .. Len(pool) : pool[i] \in Pool
         /\ pool[1] = "codex" /\ pool[2] = "pi" /\ pool[3] = "agy" /\ pool[4] = "claude"
BY DEF Pool

LEMMA AuditorPoolIs ==
  ASSUME NEW pool, pool = Work!AUDITOR_POOL
  PROVE  /\ pool \in Seq(Pool) /\ Len(pool) = 3 /\ \A i \in 1 .. Len(pool) : pool[i] \in Pool
         /\ pool[1] = "codex" /\ pool[2] = "pi"
<1>1. /\ pool = <<"codex", "pi", "agy">> /\ Len(pool) = 3
      /\ pool[1] = "codex" /\ pool[2] = "pi" /\ pool[3] = "agy"
  BY DEF Work!AUDITOR_POOL
<1> QED BY <1>1 DEF Pool

LEMMA SamePicked ==
  ASSUME NEW s, NEW P
  PROVE  Work!Picked(s, P) = Picked(s, P)
<1>1. \A Q : Work!Cardinality(Q) = Cardinality(Q)
  BY DEF Cardinality, Work!Cardinality
<1>2. \A Q, n : Work!Nth(Q, n) = Nth(Q, n)
  BY <1>1 DEF Nth, Work!Nth
<1> QED BY <1>1, <1>2 DEF Picked, Work!Picked

\* An auditor is of the pool, and of another family than the host.
LEMMA AuditorsOther ==
  ASSUME NEW host, NEW same,
         NEW a, a = Work!PickAuditorsWith(Work!AUDITOR_POOL, {host}, same)
  PROVE  /\ a \in Seq(Pool)
         /\ ~same => \A i \in 1 .. Len(a) : ~Work!SameFamily({a[i]}, {host})
<1> DEFINE pool == Work!AUDITOR_POOL
           P == {i \in 1 .. Len(pool) : ~Work!SameFamily({pool[i]}, {host})}
           Q == Picked(pool, P)
<1>1. /\ pool \in Seq(Pool) /\ Len(pool) = 3 /\ \A i \in 1 .. Len(pool) : pool[i] \in Pool
      /\ pool[1] = "codex" /\ pool[2] = "pi"
  BY AuditorPoolIs
<1>2. a = IF same \/ {host} = {"unknown"} \/ Q = << >> THEN pool ELSE Q
  BY SamePicked DEF Work!PickAuditorsWith
<1> HIDE DEF pool
<1>3. P \in SUBSET (1 .. Len(pool))
  OBVIOUS
<1>4. P # {}
  <2>1. 1 \in 1 .. Len(pool) /\ 2 \in 1 .. Len(pool)
    BY <1>1
  <2>2. 1 \in P \/ 2 \in P
    BY <1>1, <2>1, PoolFamilies DEF Work!SameFamily
  <2> QED BY <2>2
<1>5. PicksBy(Pool, pool, P, Q)
  <2> HIDE DEF P
  <2> QED BY <1>1, <1>3, PickedIs
<1>6. Q \in Seq(Pool) /\ Len(Q) # 0 /\ \A n \in 1 .. Len(Q) : \E i \in P : Q[n] = pool[i]
  <2> HIDE DEF P, Q
  <2> QED BY <1>4, <1>5 DEF PicksBy
<1>7. \A n \in 1 .. Len(Q) : ~Work!SameFamily({Q[n]}, {host})
  BY <1>6
<1> HIDE DEF P, Q
<1>8. host = "unknown" => \A i \in 1 .. Len(pool) : ~Work!SameFamily({pool[i]}, {host})
  <2>1. ASSUME NEW r \in Pool PROVE ~Work!SameFamily({r}, {"unknown"})
    BY PoolFamilies DEF Work!SameFamily, Pool
  <2> QED BY <1>1, <2>1
<1>9. Q # << >>
  BY <1>6
<1> QED BY <1>1, <1>2, <1>6, <1>7, <1>8, <1>9

\* A judge is of another family than the candidate, and of the pool unless it
\* was named.
IsPlan(plan, c, named) ==
  \/ plan = << >>
  \/ \E r : /\ plan = <<Work!JudgeJob(r)>> /\ ~Work!SameFamily({r}, {c})
            /\ named = "none" => r \in Pool

LEMMA JudgeOther ==
  ASSUME NEW c, NEW named, NEW healthy, NEW long
  PROVE  IsPlan(Work!PlanJudge(c, named, healthy, long), c, named)
<1> DEFINE plan == Work!PlanJudge(c, named, healthy, long)
           pool == Work!JUDGE_POOL
           P == {i \in 1 .. Len(pool) : ~Work!SameFamily({pool[i]}, {c}) /\ pool[i] \in healthy}
           Q == Picked(pool, P)
<1>1. pool \in Seq(Pool)
  BY PoolIs DEF Work!JUDGE_POOL
<1>2. Work!PickHealthyJudge(c, healthy) = Q
  BY SamePicked DEF Work!PickHealthyJudge
<1> HIDE DEF pool
<1>3. PicksBy(Pool, pool, P, Q)
  <2>1. P \in SUBSET (1 .. Len(pool))
    OBVIOUS
  <2> HIDE DEF P
  <2> QED BY <1>1, <2>1, PickedIs
<1>4. Q # << >> => Head(Q) \in Pool /\ \E i \in P : Head(Q) = pool[i]
  <2> HIDE DEF P, Q
  <2>1. Q \in Seq(Pool) /\ \A n \in 1 .. Len(Q) : \E i \in P : Q[n] = pool[i]
    BY <1>3 DEF PicksBy
  <2>2. Q # << >> => Len(Q) # 0 /\ Len(Q) \in Nat /\ Head(Q) = Q[1]
    BY <2>1
  <2>3. Q # << >> => 1 \in 1 .. Len(Q)
    BY <2>2
  <2> QED BY <2>1, <2>2, <2>3
<1>5. Q # << >> => Head(Q) \in Pool /\ ~Work!SameFamily({Head(Q)}, {c})
  BY <1>4
<1> HIDE DEF P, Q
<1>6. plan = IF long \/ (named # "none" /\ Work!SameFamily({named}, {c})) THEN << >>
             ELSE IF named # "none" THEN <<Work!JudgeJob(named)>>
             ELSE IF Q = << >> THEN << >> ELSE <<Work!JudgeJob(Head(Q))>>
  BY <1>2 DEF Work!PlanJudge
<1> HIDE DEF plan
<1>7. IsPlan(plan, c, named)
  BY <1>5, <1>6 DEF IsPlan
<1> QED BY <1>7 DEF plan

\* The jobs made from a wish to only read.
Passes(j) ==
  /\ j.runner \in Work!KnownRunners \ {"gemini"} => Work!Validate(j)
  /\ ~Work!JobNeedsWorktree(j)

LEMMA IntentPasses ==
  ASSUME NEW r, NEW p, NEW e, NEW t \in {"runner", "audit", "autopilot_worker", "judge"},
         \/ p = Work!ReadonlyIntent(r)
         \/ \E h \in BOOLEAN : p = [Work!ReadonlyIntent(r) EXCEPT !.headless = @ \/ h],
         "CODEX_SANDBOX" \notin DOMAIN e,
         NEW j, j = Work!OwnJob(r, p, e, t)
  PROVE  Shaped(j) /\ Passes(j) /\ j.runner = r
<1>1. /\ DOMAIN p = {"sandbox", "reason", "approved", "headless", "tools"} /\ p = [f \in DOMAIN p |-> p[f]]
      /\ r \in {"agy", "tmux"} => p.sandbox = "workspace-write" /\ p.reason
      /\ r \notin {"agy", "tmux"} => p.sandbox = "read-only"
      /\ r = "agy" => p.headless
      /\ p.tools = {}
  <2> DEFINE q == Work!ReadonlyIntent(r)
             D == {"sandbox", "reason", "approved", "headless", "tools"}
  <2>1. /\ DOMAIN q = D /\ q = [f \in D |-> q[f]]
        /\ r \in {"agy", "tmux"} => q.sandbox = "workspace-write" /\ q.reason
        /\ r \notin {"agy", "tmux"} => q.sandbox = "read-only"
        /\ r = "agy" => q.headless
        /\ q.tools = {}
    BY DEF Work!ReadonlyIntent, Work!DefaultPolicy
  <2> HIDE DEF q
  <2>2. CASE p = q
    BY <2>1, <2>2
  <2>3. CASE \E h : p = [q EXCEPT !.headless = q.headless \/ h]
    <3>1. PICK h : p = [q EXCEPT !.headless = q.headless \/ h]
      BY <2>3
    <3>2. /\ DOMAIN p = D /\ p = [f \in D |-> p[f]] /\ p.sandbox = q.sandbox
          /\ p.reason = q.reason /\ p.tools = q.tools
      BY <2>1, <3>1
    <3>3. p.headless = (q.headless \/ h)
      BY <2>1, <3>1
    <3> QED BY <2>1, <3>2, <3>3
  <2> QED BY <2>2, <2>3 DEF q
<1>2. /\ j.runner = r /\ j.policy = p /\ j.env = e /\ j.type = t /\ j.isolation = "none"
      /\ j.worktree = FALSE /\ j.prompt = TRUE
  BY DEF Work!OwnJob
<1>3. Shaped(j)
  BY <1>1, OwnShaped
<1>4. ~Work!JobNeedsWorktree(j)
  BY <1>2 DEF Work!JobNeedsWorktree, Work!IsWriteTaskType
<1>5. r \in Work!KnownRunners \ {"gemini"} => Work!Validate(j)
  BY <1>1, <1>2 DEF Work!Validate, Work!ValidateForRunner, Work!KnownRunners
<1> QED BY <1>2, <1>3, <1>4, <1>5 DEF Passes


\* What is true of the jobs js of a command b about the work of sub, if the
\* mount has approved ap.
JobsOk(b, js, sub, ap) ==
  /\ b = "none" => js = << >>
  /\ b = "file" => Len(js) = 1
  /\ \A i \in 1 .. Len(js) : Shaped(js[i])
  /\ b \in {"runner", "audit", "worker", "judge"} => \A i \in 1 .. Len(js) : Passes(js[i])
  /\ b \in {"audit", "judge"} /\ sub # "none" =>
       \A i \in 1 .. Len(js) : ~Work!SameFamily({js[i].runner}, {sub})
  /\ b = "eval" /\ Len(js) = 3 =>
       ~Work!SameFamily({js[3].runner}, {sub}) /\ Work!Validate(js[3])
  /\ b = "eval" /\ Len(js) >= 2 =>
       /\ Work!Validate(js[1]) <=> Work!Validate(js[2])
       /\ Work!RunnerEnv(js[1])["CODEX_SANDBOX"] = Work!RunnerEnv(js[2])["CODEX_SANDBOX"]
       /\ \A i \in {1, 2} : ~Work!SandboxExceeds(js[i].policy.sandbox, ap)

LEMMA OneJobOk ==
  ASSUME NEW b \in {"runner", "worker", "file"}, NEW j, Shaped(j), b # "file" => Passes(j), NEW sub, NEW ap
  PROVE  JobsOk(b, <<j>>, sub, ap)
<1>1. Len(<<j>>) = 1 /\ \A i \in 1 .. Len(<<j>>) : <<j>>[i] = j
  OBVIOUS
<1> QED BY <1>1 DEF JobsOk

LEMMA RunnerJobOk ==
  ASSUME NEW r, NEW h \in BOOLEAN
  PROVE  Shaped(Work!RunnerJob(r, h)) /\ Passes(Work!RunnerJob(r, h))
<1>1. "CODEX_SANDBOX" \notin DOMAIN Work!NoEnv
  BY DEF Work!NoEnv
<1> DEFINE p == [Work!ReadonlyIntent(r) EXCEPT !.headless = @ \/ h]
<1>2. Work!RunnerJob(r, h) = Work!OwnJob(r, p, Work!NoEnv, "runner")
  BY DEF Work!RunnerJob
<1>3. \E g \in BOOLEAN : p = [Work!ReadonlyIntent(r) EXCEPT !.headless = @ \/ g]
  OBVIOUS
<1> HIDE DEF p
<1> QED BY <1>1, <1>2, <1>3, IntentPasses

LEMMA WishJobOk ==
  ASSUME NEW r
  PROVE  /\ Shaped(Work!AuditJob(r)) /\ Passes(Work!AuditJob(r)) /\ Work!AuditJob(r).runner = r
         /\ Shaped(Work!JudgeJob(r)) /\ Passes(Work!JudgeJob(r)) /\ Work!JudgeJob(r).runner = r
         /\ Shaped(Work!WorkerJob) /\ Passes(Work!WorkerJob)
<1> DEFINE e1 == [k \in {"LTO_LEAN_CONTEXT", "LTO_SESSION_ID"} |-> "1"]
           e2 == [k \in {"LTO_LEAN_CONTEXT"} |-> "1"]
<1>1. "CODEX_SANDBOX" \notin DOMAIN e1 /\ "CODEX_SANDBOX" \notin DOMAIN e2
      /\ "CODEX_SANDBOX" \notin DOMAIN Work!NoEnv
  BY DEF Work!NoEnv
<1>2. /\ Work!AuditJob(r) = Work!OwnJob(r, Work!ReadonlyIntent(r), e1, "audit")
      /\ Work!JudgeJob(r) = Work!OwnJob(r, Work!ReadonlyIntent(r), e2, "judge")
      /\ Work!WorkerJob = Work!OwnJob("tmux", Work!ReadonlyIntent("tmux"), Work!NoEnv, "autopilot_worker")
  BY DEF Work!AuditJob, Work!JudgeJob, Work!WorkerJob
<1> HIDE DEF e1, e2
<1>3. Shaped(Work!AuditJob(r)) /\ Passes(Work!AuditJob(r)) /\ Work!AuditJob(r).runner = r
  BY <1>1, <1>2, IntentPasses
<1>4. Shaped(Work!JudgeJob(r)) /\ Passes(Work!JudgeJob(r)) /\ Work!JudgeJob(r).runner = r
  BY <1>1, <1>2, IntentPasses
<1>5. Shaped(Work!WorkerJob) /\ Passes(Work!WorkerJob)
  BY <1>1, <1>2, IntentPasses
<1> QED BY <1>3, <1>4, <1>5

LEMMA AuditListOk ==
  ASSUME NEW a \in Seq(Pool), NEW js, js = Work!AutoDispatchJobs(a)
  PROVE  /\ Len(js) = Len(a)
         /\ \A i \in 1 .. Len(js) : Shaped(js[i]) /\ Passes(js[i]) /\ js[i].runner = a[i]
<1>1. Len(a) \in Nat
  OBVIOUS
<1>2. js = [i \in 1 .. Len(a) |-> Work!AuditJob(a[i])]
  BY DEF Work!AutoDispatchJobs
<1>3. Len(js) = Len(a) /\ \A i \in 1 .. Len(a) : js[i] = Work!AuditJob(a[i])
  BY <1>1, <1>2
<1>4. ASSUME NEW i \in 1 .. Len(js) PROVE Shaped(js[i]) /\ Passes(js[i]) /\ js[i].runner = a[i]
  <2>1. js[i] = Work!AuditJob(a[i])
    BY <1>3
  <2> QED BY <2>1, WishJobOk
<1> QED BY <1>3, <1>4

LEMMA AuditJobsOk ==
  ASSUME NEW host, NEW same \in BOOLEAN, NEW ap,
         NEW js, js = Work!AutoDispatchJobs(
                        Work!PickAuditorsWith(Work!AUDITOR_POOL, {host}, same))
  PROVE  JobsOk("audit", js, IF same THEN "none" ELSE host, ap)
<1> DEFINE a == Work!PickAuditorsWith(Work!AUDITOR_POOL, {host}, same)
<1>1. /\ a \in Seq(Pool)
      /\ ~same => \A i \in 1 .. Len(a) : ~Work!SameFamily({a[i]}, {host})
  BY AuditorsOther
<1> HIDE DEF a
<1>2. /\ Len(js) = Len(a)
      /\ \A i \in 1 .. Len(js) : Shaped(js[i]) /\ Passes(js[i]) /\ js[i].runner = a[i]
  BY <1>1, AuditListOk DEF a
<1> QED BY <1>1, <1>2 DEF JobsOk

LEMMA JudgeJobsOk ==
  ASSUME NEW c, NEW named, NEW healthy, NEW long, NEW ap,
         NEW js, js = Work!PlanJudge(c, named, healthy, long)
  PROVE  JobsOk("judge", js, c, ap)
<1>1. CASE js = << >>
  BY <1>1 DEF JobsOk
<1>2. CASE \E r : js = <<Work!JudgeJob(r)>> /\ ~Work!SameFamily({r}, {c})
  <2>1. PICK r : js = <<Work!JudgeJob(r)>> /\ ~Work!SameFamily({r}, {c})
    BY <1>2
  <2>2. Len(js) = 1 /\ \A i \in 1 .. Len(js) : js[i] = Work!JudgeJob(r)
    BY <2>1
  <2> QED BY <2>1, <2>2, WishJobOk DEF JobsOk
<1>3. IsPlan(js, c, named)
  BY JudgeOther
<1> QED BY <1>1, <1>2, <1>3 DEF IsPlan


\* The two jobs of a case.
LEMMA LegsOk ==
  ASSUME NEW r, NEW ap \in Work!Sandboxes, NEW e, NEW f,
         "CODEX_SANDBOX" \notin DOMAIN e, "CODEX_SANDBOX" \notin DOMAIN f,
         NEW a, a = Work!EvalJob(r, ap, e), NEW b, b = Work!EvalJob(r, ap, f)
  PROVE  /\ Shaped(a) /\ Shaped(b)
         /\ Work!Validate(a) <=> Work!Validate(b)
         /\ Work!RunnerEnv(a)["CODEX_SANDBOX"] = Work!RunnerEnv(b)["CODEX_SANDBOX"]
         /\ ~Work!SandboxExceeds(a.policy.sandbox, ap) /\ ~Work!SandboxExceeds(b.policy.sandbox, ap)
<1> DEFINE p == [sandbox |-> ap, reason |-> ap # "read-only",
                 approved |-> ap = "danger-full-access", headless |-> FALSE, tools |-> {}]
<1>1. DOMAIN p = {"sandbox", "reason", "approved", "headless", "tools"} /\ p = [x \in DOMAIN p |-> p[x]]
      /\ p.sandbox = ap
  OBVIOUS
<1>2. a = Work!OwnJob(r, p, e, "eval") /\ b = Work!OwnJob(r, p, f, "eval")
  BY DEF Work!EvalJob
<1> HIDE DEF p
<1>3. Shaped(a) /\ Shaped(b)
  BY <1>1, <1>2, OwnShaped
<1>4. /\ a.runner = r /\ a.policy = p /\ a.env = e /\ a.isolation = "none" /\ a.prompt = TRUE
      /\ b.runner = r /\ b.policy = p /\ b.env = f /\ b.isolation = "none" /\ b.prompt = TRUE
  BY <1>2 DEF Work!OwnJob
<1>5. Work!Validate(a) <=> Work!Validate(b)
  BY <1>4 DEF Work!Validate, Work!ValidateForRunner
<1>6. Work!RunnerEnv(a)["CODEX_SANDBOX"] = p.sandbox /\ Work!RunnerEnv(b)["CODEX_SANDBOX"] = p.sandbox
  BY <1>4 DEF Work!RunnerEnv
<1>7. ~Work!SandboxExceeds(ap, ap)
  BY DEF Work!SandboxExceeds, Work!Rank, Work!Sandboxes
<1> QED BY <1>1, <1>3, <1>4, <1>5, <1>6, <1>7

LEMMA EnvKept ==
  ASSUME NEW keys, NEW allowed, NEW r
  PROVE  /\ "CODEX_SANDBOX" \notin DOMAIN Work!TokenEnv(r, Work!NoEnv)
         /\ "CODEX_SANDBOX" \notin DOMAIN Work!TokenEnv(r,
              Work!FilterCandidateEnv([k \in keys |-> "workspace-write"], allowed))
<1>1. ASSUME NEW env, "CODEX_SANDBOX" \notin DOMAIN env
      PROVE  "CODEX_SANDBOX" \notin DOMAIN Work!TokenEnv(r, env)
  BY <1>1 DEF Work!TokenEnv
<1>2. "CODEX_SANDBOX" \notin DOMAIN Work!NoEnv
  BY DEF Work!NoEnv
<1>3. "CODEX_SANDBOX" \notin DOMAIN Work!FilterCandidateEnv([k \in keys |-> "workspace-write"], allowed)
  BY DEF Work!FilterCandidateEnv, Work!EnvKeyBlocklist
<1> QED BY <1>1, <1>2, <1>3

LEMMA TwoAndOne ==
  ASSUME NEW a, NEW b, NEW j, NEW s, s = <<a, b>> \o <<j>>
  PROVE  Len(s) = 3 /\ s[1] = a /\ s[2] = b /\ s[3] = j
<1> DEFINE p == <<a, b>>
           q == <<j>>
<1>1. p \in Seq({a, b, j}) /\ Len(p) = 2 /\ p[1] = a /\ p[2] = b
  OBVIOUS
<1>2. q \in Seq({a, b, j}) /\ Len(q) = 1 /\ q[1] = j
  OBVIOUS
<1> HIDE DEF p, q
<1>3. /\ p \o q \in Seq({a, b, j}) /\ Len(p \o q) = Len(p) + Len(q)
      /\ Len(p) \in Nat /\ Len(q) \in Nat
      /\ \A i \in 1 .. Len(p) : (p \o q)[i] = p[i]
      /\ \A i \in Len(p) + 1 .. Len(p \o q) : (p \o q)[i] = q[i - Len(p)]
  <2>1. p \in Seq({a, b, j}) /\ q \in Seq({a, b, j})
    BY <1>1, <1>2
  <2> QED BY <2>1, Concatenation
<1>4. s = p \o q
  BY DEF p, q
<1>5. Len(s) = 3 /\ 1 \in 1 .. Len(p) /\ 2 \in 1 .. Len(p) /\ 3 \in Len(p) + 1 .. Len(p \o q)
  BY <1>1, <1>2, <1>3, <1>4
<1> QED BY <1>1, <1>2, <1>3, <1>4, <1>5

LEMMA EvalJobsOk ==
  ASSUME NEW r, NEW ap \in Work!Sandboxes, NEW e, NEW f,
         "CODEX_SANDBOX" \notin DOMAIN e, "CODEX_SANDBOX" \notin DOMAIN f,
         NEW pair, pair = <<Work!EvalJob(r, ap, e), Work!EvalJob(r, ap, f)>>,
         NEW plan, IsPlan(plan, r, "none")
  PROVE  JobsOk("eval", pair, r, ap) /\ JobsOk("eval", pair \o plan, r, ap)
<1> DEFINE a == Work!EvalJob(r, ap, e)
           b == Work!EvalJob(r, ap, f)
<1>1. /\ Shaped(a) /\ Shaped(b)
      /\ Work!Validate(a) <=> Work!Validate(b)
      /\ Work!RunnerEnv(a)["CODEX_SANDBOX"] = Work!RunnerEnv(b)["CODEX_SANDBOX"]
      /\ ~Work!SandboxExceeds(a.policy.sandbox, ap) /\ ~Work!SandboxExceeds(b.policy.sandbox, ap)
  BY LegsOk
<1> HIDE DEF a, b
<1>2. pair = <<a, b>>
  BY DEF a, b
<1>3. Len(pair) = 2 /\ pair[1] = a /\ pair[2] = b /\ \A i \in 1 .. 2 : i = 1 \/ i = 2
  BY <1>2
<1>4. JobsOk("eval", pair, r, ap)
  <2>1. \A i \in 1 .. Len(pair) : Shaped(pair[i])
    BY <1>1, <1>3
  <2> QED BY <1>1, <1>3, <2>1 DEF JobsOk
<1>5. CASE plan = << >>
  <2>1. pair \o plan = pair
    BY <1>2, <1>5
  <2> QED BY <1>4, <2>1
<1>6. CASE \E q : plan = <<Work!JudgeJob(q)>> /\ ~Work!SameFamily({q}, {r}) /\ q \in Pool
  <2>1. PICK q : plan = <<Work!JudgeJob(q)>> /\ ~Work!SameFamily({q}, {r}) /\ q \in Pool
    BY <1>6
  <2> DEFINE j == Work!JudgeJob(q)
             js == pair \o plan
  <2>2. Shaped(j) /\ Passes(j) /\ j.runner = q
    BY WishJobOk
  <2>3. Work!Validate(j)
    <3>1. q \in Work!KnownRunners \ {"gemini"}
      BY <2>1 DEF Pool, Work!KnownRunners
    <3> QED BY <2>2, <3>1 DEF Passes
  <2> HIDE DEF j
  <2>4. js = <<a, b>> \o <<j>>
    BY <1>2, <2>1 DEF j
  <2>5. Len(js) = 3 /\ js[1] = a /\ js[2] = b /\ js[3] = j
    BY <2>4, TwoAndOne
  <2> HIDE DEF js
  <2>6. \A i \in 1 .. Len(js) : Shaped(js[i])
    <3>1. \A i \in 1 .. Len(js) : i = 1 \/ i = 2 \/ i = 3
      BY <2>5
    <3> QED BY <1>1, <2>2, <2>5, <3>1
  <2>7. JobsOk("eval", js, r, ap)
    BY <1>1, <2>1, <2>2, <2>3, <2>5, <2>6 DEF JobsOk
  <2> QED BY <1>4, <2>7 DEF js
<1> QED BY <1>4, <1>5, <1>6 DEF IsPlan


\* The jobs of a command, and a report that remembers what was approved.
JobsInv ==
  /\ JobsOk(by, jobs, subject, report.approved)
  /\ "approved" \in DOMAIN report

LEMMA JobsStart == Work!Init => JobsInv
BY DEF Work!Init, Work!NoReport, JobsInv, JobsOk

LEMMA SubmitsOk ==
  ASSUME JobsInv, NEW b, NEW js, NEW sub, JobsOk(b, js, sub, report.approved), Work!Submits(b, js, sub)
  PROVE  JobsInv'
BY DEF JobsInv, Work!Submits

LEMMA JobsSubmitted ==
  ASSUME JobsInv,
         \/ Work!CmdRunnerPrompt \/ Work!LoadJobs
         \/ Work!SubmitAutoDispatch \/ Work!RunTmuxWorker
  PROVE  JobsInv'
<1> DEFINE ap == report.approved
<1>1. CASE Work!CmdRunnerPrompt
  <2>1. PICK r \in Runners : \E h \in BOOLEAN : Work!Submits("runner", <<Work!RunnerJob(r, h)>>, "none")
    BY <1>1 DEF Work!CmdRunnerPrompt
  <2>2. PICK h \in BOOLEAN : Work!Submits("runner", <<Work!RunnerJob(r, h)>>, "none")
    BY <2>1
  <2>3. JobsOk("runner", <<Work!RunnerJob(r, h)>>, "none", ap)
    BY RunnerJobOk, OneJobOk
  <2> QED BY <2>2, <2>3, SubmitsOk
<1>2. CASE Work!LoadJobs
  <2>1. Shaped(Work!FileJob)
    BY DEF Shaped, Work!FileJob, Work!DefaultPolicy
  <2>2. JobsOk("file", <<Work!FileJob>>, "none", ap)
    BY <2>1, OneJobOk
  <2> QED BY <1>2, <2>2, SubmitsOk DEF Work!LoadJobs
<1>3. CASE Work!SubmitAutoDispatch
  <2> DEFINE js(host, same) ==
               Work!AutoDispatchJobs(
                 Work!PickAuditorsWith(Work!AUDITOR_POOL, {host}, same))
  <2>1. PICK host \in Runners :
          \E same \in BOOLEAN : Work!Submits("audit", js(host, same), IF same THEN "none" ELSE host)
    BY <1>3 DEF Work!SubmitAutoDispatch
  <2>2. PICK same \in BOOLEAN : Work!Submits("audit", js(host, same), IF same THEN "none" ELSE host)
    BY <2>1
  <2>3. JobsOk("audit", js(host, same), IF same THEN "none" ELSE host, ap)
    BY AuditJobsOk
  <2> HIDE DEF js
  <2> QED BY <2>2, <2>3, SubmitsOk
<1>4. CASE Work!RunTmuxWorker
  <2>1. JobsOk("worker", <<Work!WorkerJob>>, "none", ap)
    BY WishJobOk, OneJobOk
  <2> QED BY <1>4, <2>1, SubmitsOk DEF Work!RunTmuxWorker
<1> QED BY <1>1, <1>2, <1>3, <1>4

LEMMA JobsEdited ==
  ASSUME FileFieldsKnown, JobsInv, Work!EditFile
  PROVE  JobsInv'
<1> DEFINE j == jobs[1]
           edit(f, v) == IF f \in DOMAIN j.policy THEN [j EXCEPT !.policy[f] = v] ELSE [j EXCEPT ![f] = v]
<1>1. by = "file" /\ by' = by /\ subject' = subject /\ report' = report
  BY DEF Work!EditFile
<1>2. PICK f \in FileFields : \E v \in FileChoices[f] : jobs' = <<edit(f, v)>>
  BY DEF Work!EditFile
<1>3. PICK v : jobs' = <<edit(f, v)>>
  BY <1>2
<1>4. Shaped(j)
  <2>1. Len(jobs) = 1 /\ \A i \in 1 .. Len(jobs) : Shaped(jobs[i])
    BY <1>1 DEF JobsInv, JobsOk
  <2>2. 1 \in 1 .. Len(jobs)
    BY <2>1
  <2> QED BY <2>1, <2>2
<1>5. f # "policy"
  BY DEF FileFieldsKnown, Work!DefaultPolicy
<1>6. Shaped(edit(f, v))
  BY <1>4, <1>5, EditShaped, EditPolicyShaped
<1> HIDE DEF edit
<1>7. JobsOk("file", jobs', subject, report.approved)
  BY <1>3, <1>6, OneJobOk
<1> QED BY <1>1, <1>7 DEF JobsInv

LEMMA JobsJudged ==
  ASSUME JobsInv, Work!CmdLlmJudge
  PROVE  JobsInv'
<1>1. PICK c \in Runners : \E named \in Runners \cup {"none"}, healthy \in SUBSET Work!Judges, long \in BOOLEAN :
        /\ jobs' = Work!PlanJudge(c, named, healthy, long) /\ subject' = c
        /\ \E event : report' = [Work!NoReport EXCEPT !.event = event]
  BY DEF Work!CmdLlmJudge
<1>2. PICK event : report' = [Work!NoReport EXCEPT !.event = event]
  BY <1>1
<1>3. "approved" \in DOMAIN report'
  BY <1>2 DEF Work!NoReport
<1>4. JobsOk("judge", jobs', c, report'.approved)
  BY <1>1, JudgeJobsOk
<1>5. by' = "judge" /\ subject' = c
  BY <1>1 DEF Work!CmdLlmJudge
<1> QED BY <1>3, <1>4, <1>5 DEF JobsInv

LEMMA JobsMounted ==
  ASSUME JobsInv, Work!EvalRun
  PROVE  JobsInv'
<1>1. PICK m : report' = [Work!NoReport EXCEPT !.approved = m]
  BY DEF Work!EvalRun
<1>2. "approved" \in DOMAIN report'
  BY <1>1 DEF Work!NoReport
<1>3. by' = "eval" /\ jobs' = << >>
  BY DEF Work!EvalRun, JobsInv, JobsOk
<1> QED BY <1>2, <1>3 DEF JobsInv, JobsOk

LEMMA JobsOfCase ==
  ASSUME JobsInv, Work!RunCase
  PROVE  JobsInv'
<1> DEFINE ap == report.approved
           env(keys, allowed) == Work!FilterCandidateEnv([k \in keys |-> "workspace-write"], allowed)
           pair(r, keys, allowed) ==
             <<Work!EvalJob(r, ap, Work!TokenEnv(r, Work!NoEnv)),
               Work!EvalJob(r, ap, Work!TokenEnv(r, env(keys, allowed)))>>
           Reported(r, js) == \E ok, went, event : Work!ReportCase(r, js, ok, went, event)
<1>1. ASSUME NEW r, NEW js, Reported(r, js), JobsOk("eval", js, r, ap)
      PROVE  JobsInv'
  <2>1. PICK ok, went, event : Work!ReportCase(r, js, ok, went, event)
    BY <1>1
  <2>2. jobs' = js /\ subject' = r /\ report'.approved = ap /\ "approved" \in DOMAIN report'
    BY <2>1 DEF Work!ReportCase, JobsInv
  <2>3. by' = "eval"
    BY DEF Work!RunCase
  <2> QED BY <1>1, <2>2, <2>3 DEF JobsInv
<1> DEFINE ready(r, broken) == ~broken /\ r \in Work!KnownRunners /\ ap \in Work!Sandboxes
           Case(r, broken, negative, keys, allowed) ==
             \/ /\ broken \/ r \notin Work!KnownRunners
                /\ Work!ReportCase(r, << >>, FALSE, FALSE, "none")
             \/ /\ ready(r, broken) /\ negative
                /\ \E expected \in BOOLEAN :
                     Work!ReportCase(r, pair(r, keys, allowed),
                       Work!NegativeOk(pair(r, keys, allowed), expected), FALSE, "none")
             \/ /\ ready(r, broken) /\ ~negative /\ ~Work!Accepted(pair(r, keys, allowed))
                /\ Work!ReportCase(r, pair(r, keys, allowed), FALSE, FALSE, "none")
             \/ /\ ready(r, broken) /\ ~negative /\ Work!Accepted(pair(r, keys, allowed))
                /\ \E ok \in BOOLEAN, healthy \in SUBSET Work!Judges, long \in BOOLEAN :
                     \E event \in Work!JudgeEvents(Work!PlanJudge(r, "none", healthy, long)) :
                       Work!ReportCase(r, pair(r, keys, allowed) \o
                         Work!PlanJudge(r, "none", healthy, long), ok, TRUE, event)
<1>2. \E r \in Runners, broken, negative \in BOOLEAN, keys, allowed \in SUBSET EnvKeys :
         Case(r, broken, negative, keys, allowed)
  BY DEF Work!RunCase
<1> HIDE DEF pair
<1>3. ASSUME NEW r, NEW broken, NEW negative, NEW keys, NEW allowed, Case(r, broken, negative, keys, allowed)
       PROVE  \/ Reported(r, << >>)
              \/ /\ ap \in Work!Sandboxes
                 /\ \/ Reported(r, pair(r, keys, allowed))
                    \/ \E healthy, long : Reported(r, pair(r, keys, allowed) \o Work!PlanJudge(r, "none", healthy, long))
  BY <1>3
<1> HIDE DEF Case, Reported
<1>4. PICK r \in Runners : \E keys, allowed :
        \/ Reported(r, << >>)
        \/ /\ ap \in Work!Sandboxes
           /\ \/ Reported(r, pair(r, keys, allowed))
              \/ \E healthy, long : Reported(r, pair(r, keys, allowed) \o Work!PlanJudge(r, "none", healthy, long))
  BY <1>2, <1>3
<1>5. CASE Reported(r, << >>)
  <2>1. JobsOk("eval", << >>, r, ap)
    BY DEF JobsOk
  <2> QED BY <1>1, <1>5, <2>1
<1>6. ASSUME NEW keys, NEW allowed, NEW plan, IsPlan(plan, r, "none"), ap \in Work!Sandboxes
      PROVE  JobsOk("eval", pair(r, keys, allowed), r, ap) /\ JobsOk("eval", pair(r, keys, allowed) \o plan, r, ap)
  BY <1>6, EnvKept, EvalJobsOk DEF pair
<1>7. ASSUME NEW keys, NEW allowed, ap \in Work!Sandboxes, Reported(r, pair(r, keys, allowed))
      PROVE  JobsInv'
  <2>1. IsPlan(<< >>, r, "none")
    BY DEF IsPlan
  <2>2. JobsOk("eval", pair(r, keys, allowed), r, ap)
    BY <1>6, <1>7, <2>1
  <2> QED BY <1>1, <1>7, <2>2
<1>8. ASSUME NEW keys, NEW allowed, ap \in Work!Sandboxes, NEW healthy, NEW long,
             Reported(r, pair(r, keys, allowed) \o Work!PlanJudge(r, "none", healthy, long))
      PROVE  JobsInv'
  <2>1. IsPlan(Work!PlanJudge(r, "none", healthy, long), r, "none")
    BY JudgeOther
  <2>2. JobsOk("eval", pair(r, keys, allowed) \o Work!PlanJudge(r, "none", healthy, long), r, ap)
    BY <1>6, <1>8, <2>1
  <2> QED BY <1>1, <1>8, <2>2
<1> QED BY <1>4, <1>5, <1>7, <1>8

LEMMA JobsShow == JobsInv => PermissionHolds
<1> SUFFICES ASSUME JobsInv PROVE Work!PermissionHolds
  BY DEF PermissionHolds
<1>1. Work!AcceptedIsEnforced
  <2> SUFFICES ASSUME NEW i \in 1 .. Len(jobs), Work!Validate(jobs[i])
               PROVE  LET j == jobs[i] IN
                 /\ j.runner = "codex" => \A k \in DOMAIN j.env : Work!RunnerEnv(j)[k] = j.env[k]
                 /\ Work!RunnerEnv(j)["CODEX_SANDBOX"] = "read-only" => j.runner \notin {"agy", "gemini", "tmux"}
                 /\ Work!JobNeedsWorktree(j) /\ j.isolation = "none" /\ ~j.worktree => j.policy.reason
                 /\ Work!Validate([j EXCEPT !.policy.headless = TRUE])
    BY DEF Work!AcceptedIsEnforced
  <2>1. Shaped(jobs[i])
    BY DEF JobsInv, JobsOk
  <2> QED BY <2>1, EnforcedAny
<1>2. Work!OwnJobsPass
  BY DEF JobsInv, JobsOk, Passes, Work!OwnJobsPass
<1>3. Work!ExaminerIsOther
  BY DEF JobsInv, JobsOk, Work!ExaminerIsOther
<1>4. Work!LegsAreEqual
  BY DEF JobsInv, JobsOk, Work!LegsAreEqual
<1> QED BY <1>1, <1>2, <1>3, <1>4 DEF Work!PermissionHolds

\* The jobs of every command are accepted where the program means them to be,
\* never examined by their own family, no profile of a plugin changes what its
\* jobs may do, and what validate accepts is what the runner is held to, for
\* any runners, job files, environments and number of cases.
THEOREM PermissionTheorem ==
  ASSUME FileFieldsKnown
  PROVE  RulesSpec => []PermissionHolds
<1>1. RulesInit => JobsInv
  BY JobsStart DEF RulesInit
<1>2. ASSUME JobsInv, [RulesNext]_(rulesVars) PROVE JobsInv'
  <2>1. CASE PermissionStep
    <3>1. Work!Next
      BY <2>1 DEF PermissionStep
    <3> QED BY <1>2, <3>1, JobsSubmitted, JobsEdited, JobsJudged, JobsMounted, JobsOfCase DEF Work!Next
  <2>2. CASE ~PermissionStep
    <3>1. making' = making
      BY <1>2, <2>2 DEF RulesNext, rulesVars, AddRound, ChangeRun, ChangeLedger, ChangeHead,
             MergeStep, DecisionStep, EvidenceStep
    <3> QED BY <1>2, <3>1 DEF JobsInv, making
  <2> QED BY <2>1, <2>2
<1>3. JobsInv => PermissionHolds
  BY JobsShow
<1> QED BY <1>1, <1>2, <1>3, PTL DEF RulesSpec

-----------------------------------------------------------------------------
(* The answers of a panel put together. *)

\* What lists put one after the other hold.
Joins(S, f, n, s) ==
  /\ s \in Seq(S)
  /\ \A x : (\E k \in 1 .. Len(s) : s[k] = x) <=>
            (\E i \in 1 .. n : \E k \in 1 .. Len(f[i]) : f[i][k] = x)

\* The first n steps of Flatten.
FlatSteps(f, n, g) == g = [i \in 0 .. n |-> IF i = 0 THEN << >> ELSE g[i - 1] \o f[i]]

LEMMA StepsExist ==
  ASSUME NEW f, NEW m \in Nat
  PROVE  \E g : FlatSteps(f, m, g)
<1> DEFINE T == {n \in Nat : ~\E g : FlatSteps(f, n, g)}
<1>1. ASSUME T # {} PROVE FALSE
  <2>1. T \in SUBSET Nat
    OBVIOUS
  <2> HIDE DEF T
  <2>2. PICK n \in T : \A y \in T : n <= y
    BY <1>1, <2>1, LeastNumber
  <2>3. n \in Nat /\ ~\E g : FlatSteps(f, n, g)
    BY <2>2 DEF T
  <2>4. n # 0
    <3>1. FlatSteps(f, 0, [i \in 0 .. 0 |-> << >>])
      BY DEF FlatSteps
    <3> QED BY <2>3, <3>1
  <2>5. n - 1 \in Nat /\ ~(n <= n - 1)
    BY <2>3, <2>4
  <2>6. n - 1 \notin T
    BY <2>2, <2>5
  <2>7. PICK g : FlatSteps(f, n - 1, g)
    BY <2>5, <2>6 DEF T
  <2> DEFINE h == [i \in 0 .. n |-> IF i = n THEN g[n - 1] \o f[n] ELSE g[i]]
  <2>8. g = [i \in 0 .. n - 1 |-> IF i = 0 THEN << >> ELSE g[i - 1] \o f[i]]
    BY <2>7 DEF FlatSteps
  <2>9. ASSUME NEW i \in 0 .. n
        PROVE  h[i] = IF i = 0 THEN << >> ELSE h[i - 1] \o f[i]
    <3>1. CASE i = n
      <4>1. i # 0 /\ i - 1 \in 0 .. n /\ i - 1 # n
        BY <2>3, <2>4, <3>1
      <4>2. h[i - 1] = g[i - 1]
        BY <4>1
      <4>3. h[i] = g[n - 1] \o f[n]
        BY <3>1
      <4> HIDE DEF h
      <4> QED BY <3>1, <4>1, <4>2, <4>3
    <3>2. CASE i = 0
      <4>1. i # n /\ 0 \in 0 .. n - 1
        BY <2>3, <2>4, <3>2
      <4>2. h[i] = g[0]
        BY <3>2, <4>1
      <4>3. g[0] = << >>
        BY <2>8, <4>1
      <4> HIDE DEF h
      <4> QED BY <3>2, <4>2, <4>3
    <3>3. CASE i # 0 /\ i # n
      <4>1. i \in 0 .. n - 1 /\ i - 1 \in 0 .. n /\ i - 1 # n
        BY <2>3, <2>4, <3>3
      <4>2. h[i] = g[i] /\ h[i - 1] = g[i - 1]
        BY <3>3, <4>1
      <4>3. g[i] = g[i - 1] \o f[i]
        BY <2>8, <3>3, <4>1
      <4> HIDE DEF h
      <4> QED BY <3>3, <4>2, <4>3
    <3> QED BY <3>1, <3>2, <3>3
  <2>10. FlatSteps(f, n, h)
    <3>1. h = [i \in 0 .. n |-> h[i]]
      OBVIOUS
    <3> HIDE DEF h
    <3>2. [i \in 0 .. n |-> h[i]] = [i \in 0 .. n |-> IF i = 0 THEN << >> ELSE h[i - 1] \o f[i]]
      BY <2>9
    <3> QED BY <3>1, <3>2 DEF FlatSteps
  <2> QED BY <2>3, <2>10
<1> QED BY <1>1

LEMMA StepsJoin ==
  ASSUME NEW S, NEW f \in Seq(Seq(S)), NEW g, FlatSteps(f, Len(f), g), NEW m \in 0 .. Len(f)
  PROVE  Joins(S, f, m, g[m])
<1> DEFINE N == Len(f)
           T == {n \in Nat : n <= N /\ ~Joins(S, f, n, g[n])}
<1>1. N \in Nat /\ \A i \in 1 .. N : f[i] \in Seq(S)
  OBVIOUS
<1>2. \A i \in 0 .. N : g[i] = IF i = 0 THEN << >> ELSE g[i - 1] \o f[i]
  BY DEF FlatSteps
<1> HIDE DEF N
<1>3. ASSUME T # {} PROVE FALSE
  <2>1. T \in SUBSET Nat
    OBVIOUS
  <2> HIDE DEF T
  <2>2. PICK n \in T : \A y \in T : n <= y
    BY <1>3, <2>1, LeastNumber
  <2>3. n \in Nat /\ n <= N /\ ~Joins(S, f, n, g[n])
    BY <2>2 DEF T
  <2>4. n # 0
    <3>1. g[0] = << >>
      BY <1>1, <1>2
    <3>2. Joins(S, f, 0, << >>)
      BY DEF Joins
    <3> QED BY <2>3, <3>1, <3>2
  <2>5. n - 1 \in Nat /\ ~(n <= n - 1) /\ n - 1 <= N /\ n \in 0 .. N /\ n \in 1 .. N
    BY <1>1, <2>3, <2>4
  <2>6. Joins(S, f, n - 1, g[n - 1])
    BY <2>2, <2>5 DEF T
  <2> DEFINE a == g[n - 1]
             b == f[n]
  <2>7. g[n] = a \o b
    BY <1>2, <2>4, <2>5
  <2>8. a \in Seq(S) /\ b \in Seq(S)
    BY <1>1, <2>5, <2>6 DEF Joins
  <2>9. ASSUME NEW x
        PROVE  (\E k \in 1 .. Len(a) : a[k] = x) <=>
               (\E i \in 1 .. n - 1 : \E k \in 1 .. Len(f[i]) : f[i][k] = x)
    BY <2>6 DEF Joins
  <2> HIDE DEF a
  <2>10. a \o b \in Seq(S)
    BY <2>8
  <2>11. ASSUME NEW x
         PROVE  (\E k \in 1 .. Len(a \o b) : (a \o b)[k] = x) <=>
                ((\E k \in 1 .. Len(a) : a[k] = x) \/ (\E k \in 1 .. Len(b) : b[k] = x))
    <3> HIDE DEF b
    <3>1. Len(a) \in Nat /\ Len(b) \in Nat /\ Len(a \o b) = Len(a) + Len(b)
      BY <2>8
    <3>2. \A k \in 1 .. Len(a) : k \in 1 .. Len(a \o b) /\ (a \o b)[k] = a[k]
      BY <2>8
    <3>3. \A k \in 1 .. Len(b) : Len(a) + k \in 1 .. Len(a \o b) /\ (a \o b)[Len(a) + k] = b[k]
      BY <2>8
    <3>4. \A k \in 1 .. Len(a \o b) : k \in 1 .. Len(a) \/ (k - Len(a) \in 1 .. Len(b) /\ (a \o b)[k] = b[k - Len(a)])
      BY <2>8
    <3> QED BY <3>2, <3>3, <3>4
  <2>12. ASSUME NEW x
         PROVE  (\E i \in 1 .. n : \E k \in 1 .. Len(f[i]) : f[i][k] = x) <=>
                ((\E i \in 1 .. n - 1 : \E k \in 1 .. Len(f[i]) : f[i][k] = x) \/ (\E k \in 1 .. Len(b) : b[k] = x))
    <3>1. \A i \in 1 .. n : i \in 1 .. n - 1 \/ i = n
      BY <2>3
    <3>2. \A i \in 1 .. n - 1 : i \in 1 .. n
      BY <2>3
    <3>3. n \in 1 .. n
      BY <2>5
    <3> QED BY <3>1, <3>2, <3>3
  <2> HIDE DEF b
  <2>13. Joins(S, f, n, a \o b)
    BY <2>9, <2>10, <2>11, <2>12 DEF Joins
  <2> QED BY <2>3, <2>7, <2>13
<1>4. m \in Nat /\ m <= N
  BY DEF N
<1> QED BY <1>3, <1>4

LEMMA FlattenJoins ==
  ASSUME NEW S, NEW f \in Seq(Seq(S))
  PROVE  Joins(S, f, Len(f), Panel!Flatten(f))
<1>1. Len(f) \in Nat /\ Len(f) \in 0 .. Len(f)
  OBVIOUS
<1>2. \E g : FlatSteps(f, Len(f), g)
  BY <1>1, StepsExist
<1>3. \E g : g = [i \in 0 .. Len(f) |-> IF i = 0 THEN << >> ELSE g[i - 1] \o f[i]]
  BY <1>2 DEF FlatSteps
<1> DEFINE u == CHOOSE g : g = [i \in 0 .. Len(f) |-> IF i = 0 THEN << >> ELSE g[i - 1] \o f[i]]
<1>4. u = [i \in 0 .. Len(f) |-> IF i = 0 THEN << >> ELSE u[i - 1] \o f[i]]
  BY <1>3, Zenon
<1>5. Panel!Flatten(f) = u[Len(f)]
  BY Zenon DEF Panel!Flatten
<1> HIDE DEF u
<1>6. FlatSteps(f, Len(f), u)
  BY <1>4 DEF FlatSteps
<1> QED BY <1>1, <1>5, <1>6, StepsJoin

LEMMA SamePanelPicks == ASSUME NEW s, NEW P PROVE Panel!Picked(s, P) = Picked(s, P)
<1>1. ASSUME NEW S PROVE Panel!Cardinality(S) = Cardinality(S)
  BY DEF Panel!Cardinality, Cardinality
<1>2. ASSUME NEW S, NEW n PROVE Panel!Nth(S, n) = Nth(S, n)
  BY <1>1 DEF Panel!Nth, Nth
<1> QED BY <1>1, <1>2 DEF Panel!Picked, Picked

LEMMA SeqIsList == ASSUME NEW S, NEW s \in Seq(S) PROVE Panel!IsList(s)
<1>1. \A i \in 1 .. Len(s) : s[i] \in Panel!Items(s)
  BY DEF Panel!Items
<1> HIDE DEF Panel!IsList
<1>2. s = [i \in 1 .. Len(s) |-> s[i]] /\ Len(s) \in Nat
  OBVIOUS
<1>3. [i \in 1 .. Len(s) |-> s[i]] \in Seq(Panel!Items(s))
  BY <1>1, <1>2
<1> QED BY <1>2, <1>3 DEF Panel!IsList

LEMMA ListIn ==
  ASSUME NEW S, NEW s, Panel!IsList(s), Panel!Items(s) \subseteq S
  PROVE  s \in Seq(S)
<1>1. s = [i \in 1 .. Len(s) |-> s[i]] /\ Len(s) \in Nat
  BY DEF Panel!IsList
<1>2. \A i \in 1 .. Len(s) : s[i] \in S
  BY DEF Panel!Items
<1>3. [i \in 1 .. Len(s) |-> s[i]] \in Seq(S)
  BY <1>1, <1>2
<1> QED BY <1>1, <1>3

LEMMA PicksAreList ==
  ASSUME NEW s, Panel!IsList(s), NEW P \in SUBSET (1 .. Len(s))
  PROVE  PicksBy(Panel!Items(s), s, P, Panel!Picked(s, P)) /\ Panel!IsList(Panel!Picked(s, P))
<1>1. s \in Seq(Panel!Items(s))
  BY DEF Panel!IsList
<1>2. PicksBy(Panel!Items(s), s, P, Picked(s, P))
  BY <1>1, PickedIs
<1>3. Picked(s, P) \in Seq(Panel!Items(s))
  BY <1>2 DEF PicksBy
<1> QED BY <1>2, <1>3, SamePanelPicks, SeqIsList

LEMMA CandidatesAreList ==
  ASSUME NEW c, Panel!IsList(c.findings), Panel!IsList(c.text)
  PROVE  Panel!IsList(Panel!CandidatesOf(c))
<1> DEFINE P(s) == Panel!ParseDirectionVotes(s)
           F(s) == Panel!FillMissingSources(s, c.runner)
<1>1. ASSUME NEW s, Panel!IsList(s) PROVE Panel!IsList(P(s))
  BY <1>1, PicksAreList DEF Panel!ParseDirectionVotes
<1>2. ASSUME NEW s, Panel!IsList(s) PROVE Panel!IsList(F(s))
  <2>1. Len(s) \in Nat
    BY <1>2 DEF Panel!IsList
  <2> DEFINE g(i) == IF s[i].source = {} THEN [s[i] EXCEPT !.source = {c.runner}] ELSE s[i]
             S == {g(i) : i \in 1 .. Len(s)}
  <2>2. F(s) = [i \in 1 .. Len(s) |-> g(i)]
    BY DEF Panel!FillMissingSources
  <2>3. \A i \in 1 .. Len(s) : g(i) \in S
    OBVIOUS
  <2> HIDE DEF g, S, F
  <2>4. F(s) \in Seq(S)
    BY <2>1, <2>2, <2>3
  <2> QED BY <2>4, SeqIsList
<1>3. Panel!IsList(<< >>)
  <2>1. << >> \in Seq({})
    OBVIOUS
  <2> QED BY <2>1, SeqIsList
<1>4. Panel!IsList(F(P(c.findings))) /\ Panel!IsList(F(P(c.text)))
  BY <1>1, <1>2
<1>5. Panel!CandidatesOf(c) \in {<< >>, F(P(c.findings)), F(P(c.text))}
  BY DEF Panel!CandidatesOf
<1> QED BY <1>3, <1>4, <1>5

LEMMA FindingsAreList ==
  ASSUME NEW v, Panel!IsList(v.findings), Panel!IsList(v.items)
  PROVE  /\ Panel!IsList(Panel!FindingsOf(v))
         /\ v.ok /\ v.text # "blank" =>
              \E j \in 1 .. Len(Panel!FindingsOf(v)) : Panel!FindingsOf(v)[j].source = v.runner
<1> DEFINE a == Panel!Valid(v.findings)
           b == Panel!Valid(v.items)
           m == <<"medium">>
           t == IF a # << >> THEN a
                ELSE IF v.text = "json" /\ v.items # << >> /\ b = v.items THEN v.items
                ELSE IF v.text = "blank" THEN << >> ELSE m
           F(s) == [i \in 1 .. Len(s) |-> [severity |-> s[i], source |-> v.runner]]
<1>1. Panel!IsList(a) /\ Panel!IsList(v.items)
  BY PicksAreList DEF Panel!Valid
<1>2. Panel!IsList(<< >>)
  <2>1. << >> \in Seq({})
    OBVIOUS
  <2> QED BY <2>1, SeqIsList
<1>3. Panel!IsList(m) /\ m # << >>
  <2>1. m \in Seq({"medium"}) /\ m # << >>
    OBVIOUS
  <2> QED BY <2>1, SeqIsList
<1>4. Panel!FindingsOf(v) = IF ~v.ok THEN << >> ELSE F(t)
  BY DEF Panel!FindingsOf
<1> HIDE DEF a, b, m
<1>5. Panel!IsList(t) /\ (v.text # "blank" => t # << >>)
  BY <1>1, <1>2, <1>3
<1> HIDE DEF t
<1>6. Len(t) \in Nat /\ (t # << >> => 1 \in 1 .. Len(t))
  BY <1>5 DEF Panel!IsList
<1>7. Panel!IsList(F(t))
  <2> DEFINE S == {[severity |-> t[i], source |-> v.runner] : i \in 1 .. Len(t)}
  <2>1. F(t) \in Seq(S)
    BY <1>6
  <2> QED BY <2>1, SeqIsList
<1>8. t # << >> => 1 \in 1 .. Len(F(t)) /\ F(t)[1].source = v.runner
  BY <1>6
<1> HIDE DEF F
<1> QED BY <1>2, <1>4, <1>5, <1>7, <1>8

\* Everything a candidate reply may propose, a review reply may find.
Proposals == UNION {Panel!Items(Panel!CandidatesOf(c)) : c \in CandidateReplies}
Found == UNION {Panel!Items(Panel!FindingsOf(v)) : v \in ReviewReplies}

LEMMA MergeCandidatesJoins ==
  ASSUME AnswersTyped, NEW s \in Seq(CandidateReplies)
  PROVE  /\ Panel!MergeCandidates(s) \in Seq(Proposals)
         /\ \A x : (\E k \in 1 .. Len(Panel!MergeCandidates(s)) : Panel!MergeCandidates(s)[k] = x) <=>
              \E i \in 1 .. Len(s) : \E k \in 1 .. Len(Panel!CandidatesOf(s[i])) :
                Panel!CandidatesOf(s[i])[k] = x
<1> DEFINE f == [i \in 1 .. Len(s) |-> Panel!CandidatesOf(s[i])]
           M == Panel!MergeCandidates(s)
<1>1. Len(s) \in Nat /\ \A i \in 1 .. Len(s) : s[i] \in CandidateReplies
  OBVIOUS
<1>2. ASSUME NEW c \in CandidateReplies PROVE Panel!CandidatesOf(c) \in Seq(Proposals)
  <2>1. Panel!IsList(Panel!CandidatesOf(c))
    BY CandidatesAreList DEF AnswersTyped
  <2>2. Panel!Items(Panel!CandidatesOf(c)) \subseteq Proposals
    BY DEF Proposals
  <2> QED BY <2>1, <2>2, ListIn
<1>3. f \in Seq(Seq(Proposals)) /\ Len(f) = Len(s)
  BY <1>1, <1>2
<1>4. M = Panel!Flatten(f)
  BY DEF Panel!MergeCandidates
<1>5. \A i \in 1 .. Len(s) : f[i] = Panel!CandidatesOf(s[i])
  OBVIOUS
<1> HIDE DEF f, M
<1>6. Joins(Proposals, f, Len(s), M)
  BY <1>3, <1>4, FlattenJoins
<1>7. M \in Seq(Proposals)
  BY <1>6 DEF Joins
<1>8. ASSUME NEW x
      PROVE  (\E k \in 1 .. Len(M) : M[k] = x) <=>
             (\E i \in 1 .. Len(s) : \E k \in 1 .. Len(Panel!CandidatesOf(s[i])) :
                Panel!CandidatesOf(s[i])[k] = x)
  <2>1. (\E k \in 1 .. Len(M) : M[k] = x) <=>
             (\E i \in 1 .. Len(s) : \E k \in 1 .. Len(f[i]) : f[i][k] = x)
    BY <1>6 DEF Joins
  <2> QED BY <1>5, <2>1
<1> QED BY <1>7, <1>8 DEF M

LEMMA ReviewersAreFound ==
  ASSUME AnswersTyped, NEW s \in Seq(ReviewReplies), NEW i \in 1 .. Len(s),
         s[i].ok, s[i].text # "blank"
  PROVE  \E j \in 1 .. Len(Panel!MergeFindings(s)) : Panel!MergeFindings(s)[j].source = s[i].runner
<1> DEFINE f == [n \in 1 .. Len(s) |-> Panel!FindingsOf(s[n])]
           M == Panel!MergeFindings(s)
<1>1. Len(s) \in Nat /\ \A n \in 1 .. Len(s) : s[n] \in ReviewReplies
  OBVIOUS
<1>2. ASSUME NEW v \in ReviewReplies PROVE Panel!FindingsOf(v) \in Seq(Found)
  <2>1. Panel!IsList(Panel!FindingsOf(v))
    BY FindingsAreList DEF AnswersTyped
  <2>2. Panel!Items(Panel!FindingsOf(v)) \subseteq Found
    BY DEF Found
  <2> QED BY <2>1, <2>2, ListIn
<1>3. f \in Seq(Seq(Found)) /\ Len(f) = Len(s)
  BY <1>1, <1>2
<1>4. M = Panel!Flatten(f)
  BY DEF Panel!MergeFindings
<1>5. f[i] = Panel!FindingsOf(s[i])
  OBVIOUS
<1> HIDE DEF f, M
<1>6. Joins(Found, f, Len(s), M)
  BY <1>3, <1>4, FlattenJoins
<1>7. PICK k \in 1 .. Len(f[i]) : f[i][k].source = s[i].runner
  BY <1>1, <1>5, FindingsAreList DEF AnswersTyped
<1>8. \E j \in 1 .. Len(M) : M[j] = f[i][k]
  BY <1>6, <1>7 DEF Joins
<1> QED BY <1>7, <1>8 DEF M

\* A filter and its rest hold all there was.
LEMMA PicksSplit ==
  ASSUME NEW S, NEW s \in Seq(S), NEW P \in SUBSET (1 .. Len(s))
  PROVE  Panel!Items(s) \subseteq Panel!Items(Panel!Picked(s, P))
                                     \cup Panel!Items(Panel!Picked(s, (1 .. Len(s)) \ P))
<1> DEFINE Q == (1 .. Len(s)) \ P
<1>1. PicksBy(S, s, P, Panel!Picked(s, P)) /\ PicksBy(S, s, Q, Panel!Picked(s, Q))
  BY PickedIs, SamePanelPicks
<1>2. ASSUME NEW A \in SUBSET (1 .. Len(s)), PicksBy(S, s, A, Panel!Picked(s, A)), NEW i \in A
      PROVE  s[i] \in Panel!Items(Panel!Picked(s, A))
  <2>1. PICK n \in 1 .. Len(Panel!Picked(s, A)) : Nth(A, n) = i
    BY <1>2 DEF PicksBy
  <2>2. Panel!Picked(s, A)[n] = s[i]
    BY <1>2, <2>1 DEF PicksBy
  <2> QED BY <2>2 DEF Panel!Items
<1>3. ASSUME NEW i \in 1 .. Len(s)
      PROVE  s[i] \in Panel!Items(Panel!Picked(s, P)) \cup Panel!Items(Panel!Picked(s, Q))
  <2>1. P \in SUBSET (1 .. Len(s)) /\ Q \in SUBSET (1 .. Len(s)) /\ (i \in P \/ i \in Q)
    OBVIOUS
  <2> HIDE DEF Q
  <2>2. i \in P => s[i] \in Panel!Items(Panel!Picked(s, P))
    BY <1>1, <1>2
  <2>3. i \in Q => s[i] \in Panel!Items(Panel!Picked(s, Q))
    BY <1>1, <1>2, <2>1
  <2> QED BY <2>1, <2>2, <2>3
<1>4. \A x \in Panel!Items(s) : \E i \in 1 .. Len(s) : x = s[i]
  BY DEF Panel!Items
<1> QED BY <1>3, <1>4

-----------------------------------------------------------------------------
(* The direction track. *)

\* A request as the host builds it.
Asked ==
  [kind : {"direction", "review", "both"}, key : EscalateKeys, diverge : BOOLEAN,
   validIds : {{}, {Universe}}, candidates : Seq(CandidateReplies), votes : Seq(Votes),
   reviews : Seq(ReviewReplies)]

\* The votes a list of ids lets pass.
ValidIn(v, ids) == {i \in 1 .. Len(v) : Panel!IsValidVote(v[i], ids)}

LEMMA TallyParts ==
  ASSUME NEW v, NEW ids
  PROVE  /\ Panel!TallyVotes(v, ids).votes = Panel!Picked(v, ValidIn(v, ids))
         /\ Panel!TallyVotes(v, ids).invalid = Panel!Picked(v, (1 .. Len(v)) \ ValidIn(v, ids))
BY DEF Panel!TallyVotes, ValidIn

\* The proposals a base lets pass.
GoodIn(p, base) == {i \in 1 .. Len(p) : Panel!ValidateCandidate(p[i], base)}

\* What diverge_phase makes of the proposals.
PoolBy(p, g, pool) ==
  /\ pool.candidates = Panel!Picked(p, g)
  /\ pool.invalid = Panel!Picked(p, (1 .. Len(p)) \ g)

LEMMA PoolParts ==
  ASSUME NEW r
  PROVE  PoolBy(Panel!MergeCandidates(r.candidates),
                GoodIn(Panel!MergeCandidates(r.candidates), Panel!CandidateTaskBase(r)),
                Panel!DivergePhase(r))
BY DEF Panel!DivergePhase, GoodIn, PoolBy

\* The ways run_direction_phases may go.
Single(r, d) ==
  /\ d.tally = Panel!TallyVotes(r.votes, r.validIds)
  /\ d.used = FALSE
Pooled(r, d) ==
  /\ d.tally = Panel!TallyVotes(r.votes, {Panel!CandidateTaskIds(Panel!DivergePhase(r))})
  /\ d.used = TRUE
  /\ r.diverge /\ r.candidates # << >>

PhasesBy(r, d) ==
  /\ ~r.diverge \/ r.candidates = << >> => Single(r, d)
  /\ r.diverge /\ r.candidates # << >> =>
       /\ d.pool = Panel!DivergePhase(r)
       /\ IF Panel!HasMinimumVoteFamilies(Panel!DivergePhase(r).candidates)
          THEN Pooled(r, d) ELSE Single(r, d)

LEMMA DirectionCases ==
  ASSUME NEW r, r.diverge \in BOOLEAN
  PROVE  PhasesBy(r, Panel!RunDirectionPhases(r))
<1> DEFINE single == Panel!TallyVotes(r.votes, r.validIds)
           pool == Panel!DivergePhase(r)
           both == Panel!TallyVotes(r.votes, {Panel!CandidateTaskIds(Panel!DivergePhase(r))})
           d == Panel!RunDirectionPhases(r)
           h == Panel!HasMinimumVoteFamilies(pool.candidates)
           a == [tally |-> single, pool |-> Panel!NoPool, used |-> FALSE, fallback |-> FALSE]
           b == [tally |-> single, pool |-> pool, used |-> FALSE, fallback |-> TRUE]
           c == [tally |-> both, pool |-> pool, used |-> TRUE, fallback |-> FALSE]
<1>1. d = IF ~r.diverge \/ r.candidates = << >> THEN a ELSE IF ~h THEN b ELSE c
  BY DEF Panel!RunDirectionPhases
<1>2. Single(r, a) /\ Single(r, b) /\ b.pool = pool /\ c.pool = pool
  BY DEF Single
<1>3. r.diverge /\ r.candidates # << >> => Pooled(r, c)
  BY DEF Pooled
<1> HIDE DEF a, b, c, d, h, pool
<1>4. /\ ~r.diverge \/ r.candidates = << >> => Single(r, d)
      /\ r.diverge /\ r.candidates # << >> =>
           d.pool = pool /\ IF h THEN Pooled(r, d) ELSE Single(r, d)
  BY <1>1, <1>2, <1>3
<1> QED BY <1>4 DEF d, h, pool, PhasesBy

LEMMA AllShown ==
  ASSUME AnswersTyped, NEW r \in Asked
  PROVE  /\ Panel!Items(r.votes) \subseteq Panel!Shown(Panel!RunDirectionPhases(r))
         /\ r.diverge => Panel!Items(Panel!MergeCandidates(r.candidates))
                           \subseteq Panel!Shown(Panel!RunDirectionPhases(r))
<1> DEFINE d == Panel!RunDirectionPhases(r)
           p == Panel!MergeCandidates(r.candidates)
<1>1. r.diverge \in BOOLEAN /\ r.candidates \in Seq(CandidateReplies) /\ r.votes \in Seq(Votes)
  BY DEF Asked
<1>9. PhasesBy(r, d)
  BY <1>1, DirectionCases
<1>2. PICK ids : d.tally = Panel!TallyVotes(r.votes, ids)
  <2> HIDE DEF d
  <2> QED BY <1>1, <1>9 DEF PhasesBy, Single, Pooled
<1>3. Panel!Shown(d) = Panel!Items(d.tally.votes) \cup Panel!Items(d.tally.invalid)
          \cup Panel!Items(d.pool.candidates) \cup Panel!Items(d.pool.invalid)
  BY DEF Panel!Shown
<1>4. p \in Seq(Proposals)
  BY <1>1, MergeCandidatesJoins
<1>5. ASSUME r.candidates = << >> PROVE Panel!Items(p) = {}
  <2>1. ~\E x : \E k \in 1 .. Len(p) : p[k] = x
    <3>1. Len(r.candidates) = 0
      BY <1>5
    <3>2. \A x : (\E k \in 1 .. Len(p) : p[k] = x) <=>
              \E i \in 1 .. Len(r.candidates) : \E k \in 1 .. Len(Panel!CandidatesOf(r.candidates[i])) :
                Panel!CandidatesOf(r.candidates[i])[k] = x
      BY <1>1, MergeCandidatesJoins
    <3>3. 1 .. 0 = {}
      OBVIOUS
    <3> HIDE DEF p
    <3> QED BY <3>1, <3>2, <3>3
  <2> HIDE DEF p
  <2> QED BY <2>1 DEF Panel!Items
<1>6. ASSUME r.diverge, r.candidates # << >>
      PROVE  Panel!Items(p) \subseteq Panel!Items(d.pool.candidates) \cup Panel!Items(d.pool.invalid)
  <2> DEFINE g == GoodIn(p, Panel!CandidateTaskBase(r))
  <2>1. d.pool = Panel!DivergePhase(r)
    BY <1>6, <1>9 DEF PhasesBy
  <2>2. g \in SUBSET (1 .. Len(p))
    BY DEF GoodIn
  <2>3. /\ Panel!DivergePhase(r).candidates = Panel!Picked(p, g)
        /\ Panel!DivergePhase(r).invalid = Panel!Picked(p, (1 .. Len(p)) \ g)
    <3>1. PoolBy(p, g, Panel!DivergePhase(r))
      BY PoolParts
    <3> QED BY <3>1 DEF PoolBy
  <2> HIDE DEF d, p, g
  <2> QED BY <1>4, <2>1, <2>2, <2>3, PicksSplit
<1>7. Panel!Items(r.votes) \subseteq Panel!Items(d.tally.votes) \cup Panel!Items(d.tally.invalid)
  <2> DEFINE g == ValidIn(r.votes, ids)
  <2>1. g \in SUBSET (1 .. Len(r.votes))
    BY DEF ValidIn
  <2>2. /\ Panel!TallyVotes(r.votes, ids).votes = Panel!Picked(r.votes, g)
        /\ Panel!TallyVotes(r.votes, ids).invalid = Panel!Picked(r.votes, (1 .. Len(r.votes)) \ g)
    BY TallyParts
  <2> HIDE DEF d, g
  <2> QED BY <1>1, <1>2, <2>1, <2>2, PicksSplit
<1> HIDE DEF d, p
<1>8. /\ Panel!Items(r.votes) \subseteq Panel!Shown(d)
      /\ r.diverge => Panel!Items(p) \subseteq Panel!Shown(d)
  BY <1>3, <1>5, <1>6, <1>7
<1> QED BY <1>8 DEF d, p

-----------------------------------------------------------------------------
(* The panel from decision to decision. *)

Refusals == {"budget_exhausted", "already spawned", "direction track", "review track"}

\* An answer to request r that was not refused.
Answered(r, o) ==
  /\ o.status = Panel!ComposeStatus(r.kind, Panel!RunDirectionPhases(r).tally)
  /\ r.kind # "review" =>
       /\ Panel!HasMinimumVoteFamilies(Panel!RunDirectionPhases(r).tally.votes)
       /\ o.pick = Panel!RunDirectionPhases(r).tally.pick
       /\ o.used = Panel!RunDirectionPhases(r).used
       /\ o.shown = Panel!Shown(Panel!RunDirectionPhases(r))
  /\ r.kind # "direction" => o.findings = Panel!MergeFindings(r.reviews)

\* An outcome for request r, with b tokens left.
OutcomeBy(r, o, b) ==
  /\ o.request = r
  /\ IF o.reason \in Refusals THEN o.status = "needs_human" ELSE Answered(r, o)
  /\ o.enough <=> b >= Panel!Cost(r)

PanelInv ==
  topic = "decision" =>
    /\ budget \in Nat
    /\ request # Panel!Idle => request \in Asked
    /\ outcome # Panel!NoOutcome =>
         outcome.request \in Asked /\ OutcomeBy(outcome.request, outcome, budget)

LEMMA CostIs == ASSUME NEW r \in Asked PROVE Panel!Cost(r) \in Nat /\ Panel!Cost(r) > 0
<1>1. r.kind \in {"direction", "review", "both"} /\ r.diverge \in BOOLEAN
  BY DEF Asked
<1>2. Panel!RoundsNeeded(r.kind, r.diverge) \in {1, 2, 3}
  BY <1>1 DEF Panel!RoundsNeeded
<1> QED BY <1>2 DEF Panel!Cost, Panel!EST_TOKENS_PER_ROUND

\* What run_decision returns: a refusal that costs nothing, or an answer paid
\* for.
LEMMA DecisionIs ==
  ASSUME NEW r \in Asked, NEW o, o = Panel!RunDecision(r), budget \in Nat
  PROVE  /\ o.consumed \in {0, Panel!Cost(r)}
         /\ budget - o.consumed \in Nat
         /\ OutcomeBy(r, o, budget - o.consumed)
         /\ o.reason = "budget_exhausted" <=> budget < Panel!Cost(r)
<1> DEFINE d == Panel!RunDirectionPhases(r)
           asks == r.kind \in {"direction", "both"}
           checks == r.kind \in {"review", "both"}
           c == Panel!Cost(r)
           E(reason, record) == Panel!EdgeOutcome(r, reason, record)
           A == [status |-> Panel!ComposeStatus(r.kind, d.tally), request |-> r,
                 reason |-> IF asks /\ d.fallback THEN "fallback" ELSE "none",
                 pick |-> IF asks THEN d.tally.pick ELSE Panel!NoPick, used |-> asks /\ d.used,
                 consumed |-> c, record |-> {r.key},
                 shown |-> IF asks THEN Panel!Shown(d) ELSE {},
                 findings |-> IF checks THEN Panel!MergeFindings(r.reviews) ELSE << >>,
                 enough |-> Panel!BudgetFooter(c, budget, c)]
           votes2 == Panel!HasMinimumVoteFamilies(d.tally.votes)
           reviewed2 == Panel!HasMinimumValidReviewers(r.reviews)
           known == r.key \in spawned
<1>1. o = IF budget < c THEN E("budget_exhausted", {})
          ELSE IF known THEN E("already spawned", {})
          ELSE IF asks /\ ~votes2 THEN E("direction track", {r.key})
          ELSE IF checks /\ ~reviewed2 THEN E("review track", {r.key}) ELSE A
  BY DEF Panel!RunDecision
<1>2. c \in Nat /\ c > 0
  BY CostIs
<1>3. r.kind \in {"direction", "review", "both"} /\ r.diverge \in BOOLEAN
  BY DEF Asked
<1>4. ASSUME NEW reason \in Refusals, NEW record
      PROVE  /\ E(reason, record).consumed = 0 /\ E(reason, record).reason = reason
             /\ OutcomeBy(r, E(reason, record), budget - 0)
  <2>1. Panel!BudgetFooter(0, budget, c) <=> budget >= c
    BY <1>2 DEF Panel!BudgetFooter
  <2> HIDE DEF c
  <2>2. E(reason, record).enough <=> budget >= c
    BY <2>1 DEF Panel!EdgeOutcome, c
  <2>3. /\ E(reason, record).consumed = 0 /\ E(reason, record).reason = reason
        /\ E(reason, record).request = r /\ E(reason, record).status = "needs_human"
    BY DEF Panel!EdgeOutcome
  <2>4. budget - 0 = budget
    OBVIOUS
  <2> HIDE DEF E
  <2> QED BY <2>2, <2>3, <2>4 DEF OutcomeBy, c
<1>5. ASSUME ~(budget < c), asks => votes2
      PROVE  A.consumed = c /\ A.reason \in {"none", "fallback"} /\ OutcomeBy(r, A, budget - c)
  <2>1. Panel!BudgetFooter(c, budget, c) <=> budget - c >= c
    BY <1>2, <1>5 DEF Panel!BudgetFooter
  <2> HIDE DEF c, d
  <2>2. A.consumed = c /\ A.reason \in {"none", "fallback"} /\ A.request = r
    OBVIOUS
  <2>3. A.status = Panel!ComposeStatus(r.kind, d.tally)
    OBVIOUS
  <2>4. A.enough <=> Panel!BudgetFooter(c, budget, c)
    OBVIOUS
  <2>5. r.kind # "review" => votes2 /\ A.pick = d.tally.pick /\ A.shown = Panel!Shown(d)
    BY <1>3, <1>5
  <2>6. r.kind # "review" => A.used = d.used
    <3>1. d.used \in BOOLEAN
      <4>1. PhasesBy(r, d)
        BY <1>3, DirectionCases DEF d
      <4> QED BY <1>3, <4>1 DEF PhasesBy, Single, Pooled
    <3>2. A.used = (asks /\ d.used)
      OBVIOUS
    <3> HIDE DEF A
    <3> QED BY <1>3, <3>1, <3>2
  <2>7. r.kind # "direction" => A.findings = Panel!MergeFindings(r.reviews)
    BY <1>3
  <2> HIDE DEF A
  <2>8. Answered(r, A)
    BY <2>3, <2>5, <2>6, <2>7 DEF Answered, d
  <2>9. A.reason \notin Refusals
    BY <2>2 DEF Refusals
  <2> QED BY <2>1, <2>2, <2>4, <2>8, <2>9 DEF OutcomeBy, c
<1> HIDE DEF A, E, c, d, asks, checks
<1>6. CASE budget < c
  <2>1. o = E("budget_exhausted", {})
    BY <1>1, <1>6
  <2>2. "budget_exhausted" \in Refusals
    BY DEF Refusals
  <2>3. o.consumed = 0 /\ o.reason = "budget_exhausted" /\ OutcomeBy(r, o, budget - 0)
    BY <1>4, <2>1, <2>2
  <2> QED BY <1>2, <1>6, <2>3 DEF c
<1>7. CASE ~(budget < c) /\ o # A
  <2>1. PICK reason \in Refusals \ {"budget_exhausted"}, record \in {{}, {r.key}} : o = E(reason, record)
    <3>1. {"already spawned", "direction track", "review track"} \subseteq Refusals \ {"budget_exhausted"}
      BY DEF Refusals
    <3> QED BY <1>1, <1>7, <3>1
  <2>2. o.consumed = 0 /\ o.reason = reason /\ OutcomeBy(r, o, budget - 0)
    BY <1>4, <2>1
  <2> QED BY <1>2, <1>7, <2>1, <2>2 DEF c
<1>8. CASE ~(budget < c) /\ o = A /\ (asks => votes2)
  <2>1. o.consumed = c /\ o.reason \in {"none", "fallback"} /\ OutcomeBy(r, o, budget - c)
    BY <1>5, <1>8
  <2>2. budget - c \in Nat
    BY <1>2, <1>8
  <2> QED BY <1>2, <1>8, <2>1, <2>2 DEF c
<1>9. CASE ~(budget < c) /\ o = A /\ ~(asks => votes2)
  <2>1. PICK reason \in Refusals, record \in {{}, {r.key}} : o = E(reason, record)
    <3>1. {"already spawned", "direction track", "review track"} \subseteq Refusals
      BY DEF Refusals
    <3> QED BY <1>1, <1>9, <3>1
  <2>2. o.consumed = 0
    BY <1>4, <2>1
  <2>3. o.consumed = c
    BY <1>9 DEF A
  <2> QED BY <1>2, <2>2, <2>3
<1> QED BY <1>6, <1>7, <1>8, <1>9

LEMMA PanelStarts == ASSUME AnswersTyped, RulesInit PROVE PanelInv
<1> SUFFICES ASSUME topic = "decision" PROVE PanelInv
  BY DEF PanelInv
<1>1. Panel!Init
  BY DEF RulesInit
<1> QED BY <1>1 DEF Panel!Init, AnswersTyped, PanelInv

\* The request as it grows: an answer more.
LEMMA RequestGrows ==
  ASSUME NEW r \in Asked
  PROVE  /\ \A c \in CandidateReplies : [r EXCEPT !.candidates = Append(@, c)] \in Asked
         /\ \A v \in Votes : [r EXCEPT !.votes = Append(@, v)] \in Asked
         /\ \A v \in ReviewReplies : [r EXCEPT !.reviews = Append(@, v)] \in Asked
<1>1. /\ r.candidates \in Seq(CandidateReplies) /\ r.votes \in Seq(Votes)
      /\ r.reviews \in Seq(ReviewReplies)
  BY DEF Asked
<1>2. ASSUME NEW c \in CandidateReplies PROVE [r EXCEPT !.candidates = Append(@, c)] \in Asked
  <2>1. Append(r.candidates, c) \in Seq(CandidateReplies)
    BY <1>1
  <2> QED BY <2>1 DEF Asked
<1>3. ASSUME NEW v \in Votes PROVE [r EXCEPT !.votes = Append(@, v)] \in Asked
  <2>1. Append(r.votes, v) \in Seq(Votes)
    BY <1>1
  <2> QED BY <2>1 DEF Asked
<1>4. ASSUME NEW v \in ReviewReplies PROVE [r EXCEPT !.reviews = Append(@, v)] \in Asked
  <2>1. Append(r.reviews, v) \in Seq(ReviewReplies)
    BY <1>1
  <2> QED BY <2>1 DEF Asked
<1> QED BY <1>2, <1>3, <1>4

LEMMA PanelSteps ==
  ASSUME AnswersTyped, PanelInv, topic = "decision", topic' = topic, Panel!Next
  PROVE  PanelInv'
<1>1. budget \in Nat /\ (request # Panel!Idle => request \in Asked)
  BY DEF PanelInv
<1>2. CASE Panel!Ask
  <2>1. PICK what \in {"direction", "review", "both"}, key \in EscalateKeys, diverge \in BOOLEAN,
             ids \in {{}, {Universe}} :
          request' = [kind |-> what, key |-> key, diverge |-> diverge, validIds |-> ids,
                      candidates |-> << >>, votes |-> << >>, reviews |-> << >>]
    BY <1>2 DEF Panel!Ask
  <2>2. /\ << >> \in Seq(CandidateReplies) /\ << >> \in Seq(Votes) /\ << >> \in Seq(ReviewReplies)
    OBVIOUS
  <2>3. request' \in Asked
    BY <2>1, <2>2 DEF Asked
  <2>4. budget' = budget /\ outcome' = Panel!NoOutcome
    BY <1>2 DEF Panel!Ask
  <2>5. Panel!NoOutcome' = Panel!NoOutcome
    BY DEF Panel!NoOutcome
  <2> QED BY <1>1, <2>3, <2>4, <2>5 DEF PanelInv
<1>3. CASE Panel!CandidateArrives \/ Panel!VoteArrives \/ Panel!ReviewArrives
  <2>1. request # Panel!Idle
    BY <1>3 DEF Panel!CandidateArrives, Panel!VoteArrives, Panel!ReviewArrives,
                Panel!Directs, Panel!Reviews
  <2>2. request \in Asked
    BY <1>1, <2>1
  <2>3. request' \in Asked
    BY <1>3, <2>2, RequestGrows
       DEF Panel!CandidateArrives, Panel!VoteArrives, Panel!ReviewArrives
  <2>4. budget' = budget /\ outcome' = outcome
    BY <1>3 DEF Panel!CandidateArrives, Panel!VoteArrives, Panel!ReviewArrives
  <2> QED BY <1>1, <2>3, <2>4 DEF PanelInv
<1>4. CASE Panel!Decide
  <2> DEFINE o == Panel!RunDecision(request)
  <2>1. request \in Asked
    BY <1>1, <1>4 DEF Panel!Decide
  <2>2. outcome' = o /\ budget' = budget - o.consumed /\ request' = Panel!Idle
    BY <1>4 DEF Panel!Decide
  <2>3. budget - o.consumed \in Nat /\ OutcomeBy(request, o, budget - o.consumed)
    BY <1>1, <2>1, DecisionIs
  <2>4. o.request = request
    BY <2>3 DEF OutcomeBy
  <2> HIDE DEF o
  <2>5. outcome'.request = request /\ OutcomeBy(outcome'.request, outcome', budget')
    BY <2>2, <2>3, <2>4
  <2> QED BY <2>1, <2>2, <2>3, <2>5 DEF PanelInv
<1> QED BY <1>2, <1>3, <1>4 DEF Panel!Next

LEMMA PanelKept == ASSUME AnswersTyped, PanelInv, [RulesNext]_(rulesVars) PROVE PanelInv'
<1>1. CASE DecisionStep
  BY <1>1, PanelSteps DEF DecisionStep
<1>2. CASE ~DecisionStep
  <2>1. topic' = topic /\ (topic = "decision" =>
           request' = request /\ budget' = budget /\ outcome' = outcome)
    BY <1>2 DEF RulesNext, rulesVars, deciding, AddRound, ChangeRun, ChangeLedger, ChangeHead,
             MergeStep, EvidenceStep, PermissionStep
  <2> QED BY <2>1 DEF PanelInv
<1> QED BY <1>1, <1>2

LEMMA BriefHolds == ASSUME AnswersTyped, PanelInv PROVE BriefIsComplete
<1> SUFFICES ASSUME topic = "decision", outcome # Panel!NoOutcome PROVE BriefIsComplete
  BY DEF BriefIsComplete, Panel!BriefIsComplete, Panel!Decided
<1> DEFINE r == outcome.request
           refused == outcome.reason \in Refusals
<1>1. budget \in Nat /\ r \in Asked /\ OutcomeBy(r, outcome, budget)
  BY DEF PanelInv
<1>2. r.kind \in {"direction", "review", "both"} /\ r.reviews \in Seq(ReviewReplies)
  BY <1>1 DEF Asked
<1> HIDE DEF r
<1>3. ASSUME ~refused, r.kind # "review"
      PROVE  /\ Panel!Items(r.votes) \subseteq outcome.shown
             /\ r.diverge => Panel!Items(Panel!MergeCandidates(r.candidates)) \subseteq outcome.shown
  <2>1. outcome.shown = Panel!Shown(Panel!RunDirectionPhases(r))
    BY <1>1, <1>3 DEF OutcomeBy, Answered
  <2> QED BY <1>1, <2>1, AllShown
<1>4. ASSUME ~refused, r.kind # "direction", NEW i \in 1 .. Len(r.reviews),
             r.reviews[i].ok, r.reviews[i].text # "blank"
      PROVE  \E j \in 1 .. Len(outcome.findings) : outcome.findings[j].source = r.reviews[i].runner
  <2>1. outcome.findings = Panel!MergeFindings(r.reviews)
    BY <1>1, <1>4 DEF OutcomeBy, Answered
  <2> QED BY <1>2, <1>4, <2>1, ReviewersAreFound
<1>5. outcome.enough <=> Panel!RunDecision(r).reason # "budget_exhausted"
  <2>1. Panel!RunDecision(r).reason = "budget_exhausted" <=> budget < Panel!Cost(r)
    BY <1>1, DecisionIs
  <2>2. outcome.enough <=> budget >= Panel!Cost(r)
    BY <1>1 DEF OutcomeBy
  <2>3. Panel!Cost(r) \in Nat
    BY <1>1, CostIs
  <2> QED BY <1>1, <2>1, <2>2, <2>3
<1>6. budget >= 0
  BY <1>1
<1> QED BY <1>3, <1>4, <1>5, <1>6 DEF BriefIsComplete, Panel!BriefIsComplete, Refusals, r

\* The brief of run_decision shows the host every vote, every candidate and
\* every reviewer that answered, and its footer about the budget is what the
\* next budget gate will say, whatever is answered and however often.
THEOREM BriefTheorem ==
  ASSUME AnswersTyped
  PROVE  RulesSpec => []BriefIsComplete
<1>1. RulesInit => PanelInv
  BY PanelStarts
<1>2. PanelInv /\ [RulesNext]_(rulesVars) => PanelInv'
  BY PanelKept
<1>3. PanelInv => BriefIsComplete
  BY BriefHolds
<1> QED BY <1>1, <1>2, <1>3, PTL DEF RulesSpec

-----------------------------------------------------------------------------
(* The tally. *)

KeyedIn(v, ids) == ValidIn(v, ids) \ Panel!Human(v)
KeysIn(v, ids) == {Panel!VoteKey(v[i]) : i \in KeyedIn(v, ids)}
Backing(v, ids, k) == {i \in KeyedIn(v, ids) : Panel!VoteKey(v[i]) = k}
CountIn(v, ids) == [k \in KeysIn(v, ids) |-> Cardinality(Backing(v, ids, k))]

\* What tally_votes counts.
TallyBy(v, ids, t) ==
  /\ t.pick = IF KeysIn(v, ids) = {} THEN Panel!NoPick
              ELSE Panel!Winner(KeysIn(v, ids), CountIn(v, ids))
  /\ t.count = IF KeysIn(v, ids) = {} THEN 0 ELSE CountIn(v, ids)[t.pick]
  /\ t.votes = Panel!Picked(v, ValidIn(v, ids))
  /\ t.minority = Panel!Picked(v, {i \in ValidIn(v, ids) : Panel!VoteKey(v[i]) # t.pick})

LEMMA TallyIs == ASSUME NEW v, NEW ids PROVE TallyBy(v, ids, Panel!TallyVotes(v, ids))
<1>1. ASSUME NEW S PROVE Panel!Cardinality(S) = Cardinality(S)
  BY DEF Panel!Cardinality, Cardinality
<1> DEFINE t == Panel!TallyVotes(v, ids)
           valid == {i \in 1 .. Len(v) : Panel!IsValidVote(v[i], ids)}
           keyed == valid \ Panel!Human(v)
           keys == {Panel!VoteKey(v[i]) : i \in keyed}
           count == [k \in keys |-> Panel!Cardinality({i \in keyed : Panel!VoteKey(v[i]) = k})]
           pick == IF keys = {} THEN Panel!NoPick ELSE Panel!Winner(keys, count)
<1>2. /\ t.pick = pick /\ t.count = IF keys = {} THEN 0 ELSE count[pick]
      /\ t.votes = Panel!Picked(v, valid)
      /\ t.minority = Panel!Picked(v, {i \in valid : Panel!VoteKey(v[i]) # pick})
  BY DEF Panel!TallyVotes
<1>3. valid = ValidIn(v, ids) /\ keyed = KeyedIn(v, ids) /\ keys = KeysIn(v, ids)
  BY DEF ValidIn, KeyedIn, KeysIn
<1> HIDE DEF t
<1>4. count = CountIn(v, ids)
  <2> HIDE DEF keyed, keys
  <2>1. count = [k \in keys |-> Cardinality({i \in keyed : Panel!VoteKey(v[i]) = k})]
    BY <1>1
  <2> QED BY <1>3, <2>1 DEF CountIn, Backing
<1> HIDE DEF valid, keyed, keys, count
<1>5. TallyBy(v, ids, t)
  BY <1>2, <1>3, <1>4 DEF TallyBy
<1> QED BY <1>5 DEF t

\* Of keys counted there is one that wins: the count decides, then the order
\* of the names.
LEMMA WinnerIs ==
  ASSUME NEW keys, keys # {}, NEW count, NEW N \in Nat,
         \A k \in keys : count[k] \in Nat /\ count[k] <= N,
         \A k \in keys : k[1] \in {"pick_task", "pick_pattern"} /\ k[2] \in Nat,
         \A k, j \in keys : k[1] = j[1] /\ k[2] = j[2] => k = j
  PROVE  Panel!Winner(keys, count) \in keys
<1> DEFINE C == {N - count[k] : k \in keys}
<1>1. C \in SUBSET Nat /\ C # {}
  OBVIOUS
<1> HIDE DEF C
<1>2. PICK c \in C : \A y \in C : c <= y
  BY <1>1, LeastNumber
<1>3. PICK m \in keys : c = N - count[m]
  BY DEF C
<1>4. \A k \in keys : count[k] <= count[m]
  <2> SUFFICES ASSUME NEW k \in keys PROVE count[k] <= count[m]
    OBVIOUS
  <2>1. N - count[k] \in C
    BY DEF C
  <2>2. N - count[m] <= N - count[k]
    BY <1>2, <1>3, <2>1
  <2> QED BY <2>2
<1> DEFINE best == {k \in keys : count[k] = count[m]}
           first == IF \E k \in best : k[1] = "pick_pattern" THEN "pick_pattern" ELSE "pick_task"
           V == {k[2] : k \in {j \in best : j[1] = first}}
<1>5. V \in SUBSET Nat /\ V # {}
  BY <1>3
<1> HIDE DEF V
<1>6. PICK x \in V : \A y \in V : x <= y
  BY <1>5, LeastNumber
<1>7. PICK w \in best : w[1] = first /\ x = w[2]
  BY DEF V
<1>8. \A j \in keys \ {w} : count[w] > count[j] \/ (count[w] = count[j] /\ Panel!KeyBefore(w, j))
  <2> SUFFICES ASSUME NEW j \in keys \ {w}, ~(count[w] > count[j])
               PROVE  count[w] = count[j] /\ Panel!KeyBefore(w, j)
    OBVIOUS
  <2>1. count[w] = count[j] /\ j \in best
    BY <1>3, <1>4, <1>7
  <2>2. CASE j[1] = first
    <3>1. j[2] \in V
      BY <2>1, <2>2 DEF V
    <3>2. w[2] <= j[2]
      BY <1>6, <1>7, <3>1
    <3>3. w[2] # j[2]
      BY <1>7, <2>2
    <3>4. w[2] < j[2]
      BY <1>7, <3>2, <3>3
    <3> QED BY <1>7, <2>1, <2>2, <3>4 DEF Panel!KeyBefore
  <2>3. CASE j[1] # first
    <3>1. first = "pick_pattern" /\ j[1] = "pick_task"
      BY <2>1, <2>3
    <3> QED BY <1>7, <2>1, <3>1 DEF Panel!KeyBefore
  <2> QED BY <2>2, <2>3
<1>9. \E k \in keys : \A j \in keys \ {k} :
        count[k] > count[j] \/ (count[k] = count[j] /\ Panel!KeyBefore(k, j))
  BY <1>7, <1>8
<1> QED BY <1>9 DEF Panel!Winner

LEMMA KeyFacts ==
  ASSUME AnswersTyped, NEW v \in Seq(Votes), NEW ids
  PROVE  /\ \A i \in KeyedIn(v, ids) :
              /\ v[i].decision \in {"pick_task", "pick_pattern"} /\ v[i].value \in Nat
              /\ Panel!VoteKey(v[i]) = <<v[i].decision, v[i].value>>
         /\ \A k \in KeysIn(v, ids) : k[1] \in {"pick_task", "pick_pattern"} /\ k[2] \in Nat
         /\ \A k, j \in KeysIn(v, ids) : k[1] = j[1] /\ k[2] = j[2] => k = j
<1>1. ASSUME NEW i \in KeyedIn(v, ids)
      PROVE  /\ v[i].decision \in {"pick_task", "pick_pattern"} /\ v[i].value \in Nat
             /\ Panel!VoteKey(v[i]) = <<v[i].decision, v[i].value>>
  <2>1. i \in 1 .. Len(v) /\ v[i].decision # "needs_human"
    BY DEF KeyedIn, ValidIn, Panel!Human
  <2>2. v[i] \in Votes
    BY <2>1
  <2> QED BY <2>1, <2>2 DEF AnswersTyped, Panel!VoteKey
<1>2. ASSUME NEW k \in KeysIn(v, ids)
      PROVE  k[1] \in {"pick_task", "pick_pattern"} /\ k[2] \in Nat /\ k = <<k[1], k[2]>>
  <2>1. PICK i \in KeyedIn(v, ids) : k = Panel!VoteKey(v[i])
    BY DEF KeysIn
  <2>2. k = <<v[i].decision, v[i].value>>
    BY <1>1, <2>1
  <2> QED BY <1>1, <2>2
<1>3. ASSUME NEW k \in KeysIn(v, ids), NEW j \in KeysIn(v, ids), k[1] = j[1], k[2] = j[2]
      PROVE  k = j
  BY <1>2, <1>3
<1> QED BY <1>1, <1>2, <1>3

LEMMA PickIsKey ==
  ASSUME AnswersTyped, NEW v \in Seq(Votes), NEW ids, KeysIn(v, ids) # {}
  PROVE  Panel!Winner(KeysIn(v, ids), CountIn(v, ids)) \in KeysIn(v, ids)
<1> DEFINE keys == KeysIn(v, ids)
           count == CountIn(v, ids)
           N == Len(v)
<1>1. N \in Nat /\ IsFiniteSet(1 .. N) /\ Cardinality(1 .. N) = N
  <2>1. N \in Nat /\ 1 \in Int /\ N \in Int
    OBVIOUS
  <2> QED BY <2>1, FS_Interval
<1>2. ASSUME NEW k \in keys PROVE count[k] \in Nat /\ count[k] <= N
  <2>1. count[k] = Cardinality(Backing(v, ids, k))
    BY DEF CountIn
  <2>2. Backing(v, ids, k) \in SUBSET (1 .. N)
    BY DEF Backing, KeyedIn, ValidIn
  <2> HIDE DEF count, N
  <2>3. IsFiniteSet(Backing(v, ids, k)) /\ Cardinality(Backing(v, ids, k)) <= N
    BY <1>1, <2>2, FS_Subset
  <2>4. Cardinality(Backing(v, ids, k)) \in Nat
    BY <2>3, FS_CardinalityType
  <2> QED BY <2>1, <2>3, <2>4
<1>3. /\ \A k \in keys : k[1] \in {"pick_task", "pick_pattern"} /\ k[2] \in Nat
      /\ \A k, j \in keys : k[1] = j[1] /\ k[2] = j[2] => k = j
  BY KeyFacts
<1> HIDE DEF keys, count, N
<1>4. keys # {}
  BY DEF keys
<1>5. Panel!Winner(keys, count) \in keys
  BY <1>1, <1>2, <1>3, <1>4, WinnerIs
<1> QED BY <1>5 DEF keys, count

\* A list read backwards.
LEMMA ReversedIs ==
  ASSUME NEW S, NEW s \in Seq(S)
  PROVE  /\ Panel!Reversed(s) \in Seq(S) /\ Len(Panel!Reversed(s)) = Len(s)
         /\ \A i \in 1 .. Len(s) : /\ Len(s) + 1 - i \in 1 .. Len(s)
                                   /\ Panel!Reversed(s)[i] = s[Len(s) + 1 - i]
                                   /\ Panel!Reversed(s)[Len(s) + 1 - i] = s[i]
<1> DEFINE q == Panel!Reversed(s)
           n == Len(s)
<1>1. n \in Nat /\ \A i \in 1 .. n : s[i] \in S
  OBVIOUS
<1>2. q = [i \in 1 .. n |-> s[n + 1 - i]]
  BY DEF Panel!Reversed
<1> HIDE DEF q, n
<1>3. \A i \in 1 .. n : n + 1 - i \in 1 .. n /\ n + 1 - (n + 1 - i) = i
  BY <1>1
<1>4. q \in Seq(S) /\ Len(q) = n
  BY <1>1, <1>2, <1>3
<1>5. \A i \in 1 .. n : q[i] = s[n + 1 - i] /\ q[n + 1 - i] = s[i]
  BY <1>2, <1>3
<1> QED BY <1>3, <1>4, <1>5 DEF q, n

\* Positions counted from the other end are as many.
LEMMA MirrorCard ==
  ASSUME NEW n \in Nat, NEW A \in SUBSET (1 .. n), NEW B \in SUBSET (1 .. n),
         \A i \in 1 .. n : i \in B <=> n + 1 - i \in A
  PROVE  Cardinality(B) = Cardinality(A)
<1> DEFINE f == [i \in A |-> n + 1 - i]
<1>1. \A i \in 1 .. n : n + 1 - i \in 1 .. n /\ n + 1 - (n + 1 - i) = i
  OBVIOUS
<1>2. f \in [A -> B]
  BY <1>1
<1>3. \A a, b \in A : f[a] = f[b] => a = b
  OBVIOUS
<1>4. \A t \in B : \E a \in A : f[a] = t
  <2> SUFFICES ASSUME NEW t \in B PROVE \E a \in A : f[a] = t
    OBVIOUS
  <2>1. n + 1 - t \in A /\ f[n + 1 - t] = t
    BY <1>1
  <2> QED BY <2>1
<1> HIDE DEF f
<1>5. f \in Bijection(A, B)
  BY <1>2, <1>3, <1>4 DEF Bijection, Injection, Surjection, IsInjective
<1>6. ExistsBijection(A, B)
  BY <1>5 DEF ExistsBijection
<1>7. IsFiniteSet(A)
  <2>1. 1 \in Int /\ n \in Int
    OBVIOUS
  <2>2. IsFiniteSet(1 .. n)
    BY <2>1, FS_Interval
  <2> QED BY <2>2, FS_Subset
<1> QED BY <1>6, <1>7, FS_Bijection

LEMMA TallyReversed ==
  ASSUME AnswersTyped, NEW v \in Seq(Votes), NEW ids
  PROVE  Panel!TallyVotes(Panel!Reversed(v), ids).pick = Panel!TallyVotes(v, ids).pick
<1> DEFINE w == Panel!Reversed(v)
           n == Len(v)
           K(i) == i \in KeyedIn(v, ids)
           L(i) == i \in KeyedIn(w, ids)
<1>1. /\ w \in Seq(Votes) /\ Len(w) = n /\ n \in Nat
      /\ \A i \in 1 .. n : n + 1 - i \in 1 .. n /\ w[i] = v[n + 1 - i] /\ w[n + 1 - i] = v[i]
  BY ReversedIs
<1> HIDE DEF w, n
<1>2. /\ KeyedIn(v, ids) = {i \in 1 .. n : Panel!IsValidVote(v[i], ids) /\ v[i].decision # "needs_human"}
      /\ KeyedIn(w, ids) = {i \in 1 .. n : Panel!IsValidVote(w[i], ids) /\ w[i].decision # "needs_human"}
  BY <1>1 DEF KeyedIn, ValidIn, Panel!Human, n
<1>3. \A i \in 1 .. n : /\ i \in KeyedIn(w, ids) <=> n + 1 - i \in KeyedIn(v, ids)
                        /\ i \in KeyedIn(v, ids) <=> n + 1 - i \in KeyedIn(w, ids)
  BY <1>1, <1>2
<1>4. KeyedIn(v, ids) \in SUBSET (1 .. n) /\ KeyedIn(w, ids) \in SUBSET (1 .. n)
  BY <1>2
<1>5. KeysIn(w, ids) = KeysIn(v, ids)
  <2>1. ASSUME NEW i \in KeyedIn(w, ids) PROVE Panel!VoteKey(w[i]) \in KeysIn(v, ids)
    <3>1. n + 1 - i \in KeyedIn(v, ids) /\ w[i] = v[n + 1 - i]
      BY <1>1, <1>3, <1>4
    <3> QED BY <3>1 DEF KeysIn
  <2>2. ASSUME NEW i \in KeyedIn(v, ids) PROVE Panel!VoteKey(v[i]) \in KeysIn(w, ids)
    <3>1. n + 1 - i \in KeyedIn(w, ids) /\ v[i] = w[n + 1 - i]
      BY <1>1, <1>3, <1>4
    <3> QED BY <3>1 DEF KeysIn
  <2>3. KeysIn(w, ids) \subseteq KeysIn(v, ids)
    BY <2>1 DEF KeysIn
  <2>4. KeysIn(v, ids) \subseteq KeysIn(w, ids)
    BY <2>2 DEF KeysIn
  <2> QED BY <2>3, <2>4
<1>6. ASSUME NEW k PROVE Cardinality(Backing(w, ids, k)) = Cardinality(Backing(v, ids, k))
  <2> DEFINE A == Backing(v, ids, k)
             B == Backing(w, ids, k)
  <2>1. A \in SUBSET (1 .. n) /\ B \in SUBSET (1 .. n)
    BY <1>4 DEF Backing
  <2>2. \A i \in 1 .. n : i \in B <=> n + 1 - i \in A
    BY <1>1, <1>3 DEF Backing
  <2> HIDE DEF A, B
  <2>3. Cardinality(B) = Cardinality(A)
    BY <1>1, <2>1, <2>2, MirrorCard
  <2> QED BY <2>3 DEF A, B
<1>7. CountIn(w, ids) = CountIn(v, ids)
  BY <1>5, <1>6 DEF CountIn
<1>8. TallyBy(v, ids, Panel!TallyVotes(v, ids)) /\ TallyBy(w, ids, Panel!TallyVotes(w, ids))
  BY TallyIs
<1>9. Panel!TallyVotes(w, ids).pick = Panel!TallyVotes(v, ids).pick
  BY <1>5, <1>7, <1>8 DEF TallyBy
<1> QED BY <1>9 DEF w

-----------------------------------------------------------------------------
(* The candidate pool, by what is in it. *)

LEMMA PoolItems ==
  ASSUME AnswersTyped, NEW r, r.candidates \in Seq(CandidateReplies)
  PROVE  Panel!Items(Panel!DivergePhase(r).candidates) =
           {p \in Panel!Items(Panel!MergeCandidates(r.candidates)) :
              Panel!ValidateCandidate(p, Panel!CandidateTaskBase(r))}
<1> DEFINE p == Panel!MergeCandidates(r.candidates)
           base == Panel!CandidateTaskBase(r)
           g == GoodIn(p, base)
           c == Panel!DivergePhase(r).candidates
<1>1. PoolBy(p, g, Panel!DivergePhase(r))
  BY PoolParts
<1>2. c = Panel!Picked(p, g)
  BY <1>1 DEF PoolBy
<1>3. p \in Seq(Proposals)
  BY MergeCandidatesJoins
<1> HIDE DEF p, base, c
<1>4. g \in SUBSET (1 .. Len(p))
  BY DEF GoodIn
<1>5. PicksBy(Proposals, p, g, c)
  BY <1>2, <1>3, <1>4, PickedIs, SamePanelPicks
<1>6. ASSUME NEW x \in Panel!Items(c)
      PROVE  x \in Panel!Items(p) /\ Panel!ValidateCandidate(x, base)
  <2>1. PICK n \in 1 .. Len(c) : x = c[n]
    BY DEF Panel!Items
  <2>2. Nth(g, n) \in g /\ x = p[Nth(g, n)]
    BY <1>5, <2>1 DEF PicksBy
  <2> QED BY <2>2 DEF GoodIn, Panel!Items
<1>7. ASSUME NEW x \in Panel!Items(p), Panel!ValidateCandidate(x, base)
      PROVE  x \in Panel!Items(c)
  <2>1. PICK i \in 1 .. Len(p) : x = p[i]
    BY DEF Panel!Items
  <2>2. i \in g
    BY <1>7, <2>1 DEF GoodIn
  <2>3. PICK n \in 1 .. Len(c) : Nth(g, n) = i
    BY <1>5, <2>2 DEF PicksBy
  <2>4. c[n] = x
    BY <1>5, <2>1, <2>3 DEF PicksBy
  <2> QED BY <2>4 DEF Panel!Items
<1>8. Panel!Items(c) = {x \in Panel!Items(p) : Panel!ValidateCandidate(x, base)}
  BY <1>6, <1>7
<1> QED BY <1>8 DEF p, base, c

\* What is asked of a list of votes depends on its items alone.
LEMMA ByItems ==
  ASSUME NEW a, NEW b, Panel!Items(a) = Panel!Items(b)
  PROVE  Panel!HasMinimumVoteFamilies(a) <=> Panel!HasMinimumVoteFamilies(b)
<1>1. ASSUME NEW s PROVE Panel!Sources(s) = {x.source : x \in Panel!Items(s)}
  BY DEF Panel!Sources, Panel!Items
<1>2. Panel!Sources(a) = Panel!Sources(b)
  BY <1>1
<1> QED BY <1>2 DEF Panel!HasMinimumVoteFamilies

LEMMA IdsByItems ==
  ASSUME NEW pool
  PROVE  Panel!CandidateTaskIds(pool) =
           {x.value : x \in {y \in Panel!Items(pool.candidates) : y.decision = "pick_task"}}
BY DEF Panel!CandidateTaskIds, Panel!Items

LEMMA MergedReversed ==
  ASSUME AnswersTyped, NEW s \in Seq(CandidateReplies)
  PROVE  Panel!Items(Panel!MergeCandidates(Panel!Reversed(s))) =
         Panel!Items(Panel!MergeCandidates(s))
<1> DEFINE q == Panel!Reversed(s)
           n == Len(s)
           In(x, c) == \E k \in 1 .. Len(Panel!CandidatesOf(c)) : Panel!CandidatesOf(c)[k] = x
           A == Panel!MergeCandidates(s)
           B == Panel!MergeCandidates(q)
<1>1. /\ q \in Seq(CandidateReplies) /\ Len(q) = n
      /\ \A i \in 1 .. n : n + 1 - i \in 1 .. n /\ q[i] = s[n + 1 - i] /\ q[n + 1 - i] = s[i]
  BY ReversedIs
<1> HIDE DEF q
<1>2. \A x : (\E k \in 1 .. Len(A) : A[k] = x) <=> \E i \in 1 .. n : In(x, s[i])
  BY MergeCandidatesJoins
<1>3. \A x : (\E k \in 1 .. Len(B) : B[k] = x) <=> \E i \in 1 .. n : In(x, q[i])
  <2>1. q \in Seq(CandidateReplies) /\ n = Len(q)
    BY <1>1
  <2>2. \A x : (\E k \in 1 .. Len(B) : B[k] = x) <=> \E i \in 1 .. Len(q) : In(x, q[i])
    BY <2>1, MergeCandidatesJoins
  <2> HIDE DEF n, B, In
  <2> QED BY <2>1, <2>2
<1> HIDE DEF A, B, In, n
<1>4. \A x : (\E i \in 1 .. n : In(x, s[i])) <=> (\E i \in 1 .. n : In(x, q[i]))
  BY <1>1
<1>5. \A x : x \in Panel!Items(A) <=> x \in Panel!Items(B)
  BY <1>2, <1>3, <1>4 DEF Panel!Items
<1> QED BY <1>5 DEF A, B, q

-----------------------------------------------------------------------------
(* A direction that converged. *)

\* What the votes are of a tally that run_decision calls converged.
Backed(v, ids, t) ==
  /\ t.pick \in KeysIn(v, ids)
  /\ Panel!Cardinality({i \in 1 .. Len(v) : Panel!VoteKey(v[i]) = t.pick}) >= 2
  /\ Panel!Cardinality(Panel!Families(Panel!Sources(v))) >= 2
  /\ Panel!Human(v) = {}

LEMMA FamiliesGrow ==
  ASSUME NEW S, NEW v \in Seq(S), NEW P \in SUBSET (1 .. Len(v)),
         Panel!HasMinimumVoteFamilies(Panel!Picked(v, P))
  PROVE  Panel!Cardinality(Panel!Families(Panel!Sources(v))) >= 2
<1> DEFINE w == Panel!Picked(v, P)
           F == Panel!Families(Panel!Sources(v))
           G == Panel!Families(Panel!Sources(w))
           f == [i \in 1 .. Len(v) |-> Panel!Family(v[i].source)]
<1>1. ASSUME NEW X PROVE Panel!Cardinality(X) = Cardinality(X)
  BY DEF Panel!Cardinality, Cardinality
<1>2. PicksBy(S, v, P, w)
  BY PickedIs, SamePanelPicks
<1>3. Cardinality(G) >= 2
  BY <1>1 DEF Panel!HasMinimumVoteFamilies
<1> HIDE DEF w
<1>4. G \subseteq F
  <2>1. Panel!Sources(w) \subseteq Panel!Sources(v)
    <3>1. \A n \in 1 .. Len(w) : Nth(P, n) \in 1 .. Len(v) /\ w[n] = v[Nth(P, n)]
      BY <1>2 DEF PicksBy
    <3> QED BY <3>1 DEF Panel!Sources
  <2> QED BY <2>1 DEF Panel!Families
<1>5. IsFiniteSet(F)
  <2>1. \A x : x \in F <=> \E i \in 1 .. Len(v) : x = Panel!Family(v[i].source)
    BY DEF Panel!Families, Panel!Sources
  <2> HIDE DEF F
  <2>2. f \in Surjection(1 .. Len(v), F)
    BY <2>1 DEF Surjection
  <2>3. Len(v) \in Nat /\ 1 \in Int /\ Len(v) \in Int
    OBVIOUS
  <2>4. IsFiniteSet(1 .. Len(v))
    BY <2>3, FS_Interval
  <2> HIDE DEF f
  <2> QED BY <2>2, <2>4, FS_Surjection
<1> HIDE DEF F, G
<1>6. IsFiniteSet(G) /\ Cardinality(G) <= Cardinality(F)
  BY <1>4, <1>5, FS_Subset
<1>7. Cardinality(F) \in Nat /\ Cardinality(G) \in Nat
  BY <1>5, <1>6, FS_CardinalityType
<1>8. Cardinality(F) >= 2
  BY <1>3, <1>6, <1>7
<1> QED BY <1>1, <1>8 DEF F

LEMMA TallyBacked ==
  ASSUME AnswersTyped, NEW v \in Seq(Votes), NEW ids, NEW t, TallyBy(v, ids, t),
         t.count >= 2, Panel!Human(t.minority) = {}, Panel!HasMinimumVoteFamilies(t.votes)
  PROVE  Backed(v, ids, t)
<1> DEFINE keys == KeysIn(v, ids)
           count == CountIn(v, ids)
           pick == t.pick
<1>1. ASSUME NEW X PROVE Panel!Cardinality(X) = Cardinality(X)
  BY DEF Panel!Cardinality, Cardinality
<1>2. Len(v) \in Nat /\ IsFiniteSet(1 .. Len(v))
  <2>1. Len(v) \in Nat /\ 1 \in Int /\ Len(v) \in Int
    OBVIOUS
  <2> QED BY <2>1, FS_Interval
<1>3. keys # {}
  <2>1. ~(0 >= 2)
    OBVIOUS
  <2> QED BY <2>1 DEF TallyBy
<1>4. pick \in keys /\ t.count = count[pick]
  BY <1>3, PickIsKey DEF TallyBy
<1>5. count[pick] = Cardinality(Backing(v, ids, pick))
  BY <1>4 DEF CountIn
<1> DEFINE A == {i \in 1 .. Len(v) : Panel!VoteKey(v[i]) = pick}
<1>6. Cardinality(A) >= 2
  <2>1. A \in SUBSET (1 .. Len(v)) /\ Backing(v, ids, pick) \in SUBSET A
    BY DEF Backing, KeyedIn, ValidIn
  <2> HIDE DEF A, pick, keys, count
  <2>2. IsFiniteSet(A)
    BY <1>2, <2>1, FS_Subset
  <2>3. IsFiniteSet(Backing(v, ids, pick)) /\ Cardinality(Backing(v, ids, pick)) <= Cardinality(A)
    BY <2>1, <2>2, FS_Subset
  <2>4. Cardinality(A) \in Nat /\ Cardinality(Backing(v, ids, pick)) \in Nat
    BY <2>2, <2>3, FS_CardinalityType
  <2> QED BY <1>4, <1>5, <2>3, <2>4
<1>7. Panel!Cardinality(Panel!Families(Panel!Sources(v))) >= 2
  <2>1. ValidIn(v, ids) \in SUBSET (1 .. Len(v)) /\ t.votes = Panel!Picked(v, ValidIn(v, ids))
    BY DEF ValidIn, TallyBy
  <2> QED BY <2>1, FamiliesGrow
<1>8. Panel!Human(v) = {}
  <2> SUFFICES ASSUME NEW i \in Panel!Human(v) PROVE FALSE
    OBVIOUS
  <2>1. i \in 1 .. Len(v) /\ v[i].decision = "needs_human"
    BY DEF Panel!Human
  <2>2. i \in ValidIn(v, ids)
    BY <2>1 DEF ValidIn, Panel!IsValidVote
  <2>3. Panel!VoteKey(v[i]) # pick
    <3>1. pick[1] # "needs_human"
      BY <1>4, KeyFacts
    <3>2. Panel!VoteKey(v[i])[1] = "needs_human"
      BY <2>1 DEF Panel!VoteKey
    <3> QED BY <3>1, <3>2
  <2> DEFINE P == {j \in ValidIn(v, ids) : Panel!VoteKey(v[j]) # pick}
             m == t.minority
  <2>4. m = Panel!Picked(v, P) /\ i \in P /\ P \in SUBSET (1 .. Len(v))
    BY <2>2, <2>3 DEF TallyBy, ValidIn
  <2> HIDE DEF P, m
  <2>5. PicksBy(Votes, v, P, m)
    BY <2>4, PickedIs, SamePanelPicks
  <2>6. PICK n \in 1 .. Len(m) : Nth(P, n) = i
    BY <2>4, <2>5 DEF PicksBy
  <2>7. m[n] = v[i]
    BY <2>5, <2>6 DEF PicksBy
  <2>8. n \in Panel!Human(m)
    BY <2>1, <2>6, <2>7 DEF Panel!Human
  <2> QED BY <2>8 DEF m
<1> QED BY <1>1, <1>4, <1>6, <1>7, <1>8 DEF Backed

\* The pick does not depend on the order in which the answers came.
LEMMA PhasesReversed ==
  ASSUME AnswersTyped, NEW r \in Asked, NEW q,
         q.diverge = r.diverge, q.validIds = r.validIds,
         q.candidates = Panel!Reversed(r.candidates), q.votes = Panel!Reversed(r.votes)
  PROVE  Panel!RunDirectionPhases(q).tally.pick = Panel!RunDirectionPhases(r).tally.pick
<1>1. /\ r.diverge \in BOOLEAN /\ r.candidates \in Seq(CandidateReplies) /\ r.votes \in Seq(Votes)
      /\ q.diverge = r.diverge /\ q.validIds = r.validIds
      /\ q.candidates = Panel!Reversed(r.candidates) /\ q.votes = Panel!Reversed(r.votes)
  BY DEF Asked
<1>2. q.candidates \in Seq(CandidateReplies) /\ Len(q.candidates) = Len(r.candidates)
  BY <1>1, ReversedIs
<1>3. q.candidates = << >> <=> r.candidates = << >>
  BY <1>1, <1>2
<1> DEFINE d == Panel!RunDirectionPhases(r)
           e == Panel!RunDirectionPhases(q)
           a == Panel!DivergePhase(r)
           b == Panel!DivergePhase(q)
<1>4. PhasesBy(r, d) /\ PhasesBy(q, e)
  <2>1. r.diverge \in BOOLEAN /\ q.diverge \in BOOLEAN
    BY <1>1
  <2>2. PhasesBy(r, Panel!RunDirectionPhases(r))
    BY <2>1, DirectionCases
  <2>3. PhasesBy(q, Panel!RunDirectionPhases(q))
    BY <2>1, DirectionCases
  <2> QED BY <2>2, <2>3
<1>5. Panel!Items(a.candidates) = Panel!Items(b.candidates)
  <2>1. Panel!CandidateTaskBase(q) = Panel!CandidateTaskBase(r)
    BY <1>1 DEF Panel!CandidateTaskBase
  <2>2. Panel!Items(Panel!MergeCandidates(q.candidates)) =
        Panel!Items(Panel!MergeCandidates(r.candidates))
    BY <1>1, MergedReversed
  <2>3. Panel!Items(b.candidates) =
           {p \in Panel!Items(Panel!MergeCandidates(q.candidates)) :
              Panel!ValidateCandidate(p, Panel!CandidateTaskBase(q))}
    BY <1>2, PoolItems
  <2>4. Panel!Items(a.candidates) =
           {p \in Panel!Items(Panel!MergeCandidates(r.candidates)) :
              Panel!ValidateCandidate(p, Panel!CandidateTaskBase(r))}
    BY <1>1, PoolItems
  <2> HIDE DEF a, b
  <2> QED BY <2>1, <2>2, <2>3, <2>4
<1> HIDE DEF a, b, d, e
<1>6. Panel!HasMinimumVoteFamilies(a.candidates) <=> Panel!HasMinimumVoteFamilies(b.candidates)
  BY <1>5, ByItems
<1>7. Panel!CandidateTaskIds(a) = Panel!CandidateTaskIds(b)
  BY <1>5, IdsByItems
<1>8. \A ids : Panel!TallyVotes(q.votes, ids).pick = Panel!TallyVotes(r.votes, ids).pick
  BY <1>1, TallyReversed
<1>9. CASE ~r.diverge \/ r.candidates = << >>
  <2>1. Single(r, d) /\ Single(q, e)
    BY <1>1, <1>3, <1>4, <1>9 DEF PhasesBy
  <2> QED BY <1>1, <1>8, <2>1 DEF Single, d, e
<1>10. CASE r.diverge /\ r.candidates # << >> /\ Panel!HasMinimumVoteFamilies(a.candidates)
  <2>1. Pooled(r, d) /\ Pooled(q, e)
    BY <1>1, <1>3, <1>4, <1>6, <1>10 DEF PhasesBy, a, b
  <2>2. d.tally = Panel!TallyVotes(r.votes, {Panel!CandidateTaskIds(a)})
    BY <2>1 DEF Pooled, a
  <2>3. e.tally = Panel!TallyVotes(q.votes, {Panel!CandidateTaskIds(b)})
    BY <2>1 DEF Pooled, b
  <2> QED BY <1>7, <1>8, <2>2, <2>3 DEF d, e
<1>11. CASE r.diverge /\ r.candidates # << >> /\ ~Panel!HasMinimumVoteFamilies(a.candidates)
  <2>1. Single(r, d) /\ Single(q, e)
    BY <1>1, <1>3, <1>4, <1>6, <1>11 DEF PhasesBy, a, b
  <2> QED BY <1>1, <1>8, <2>1 DEF Single, d, e
<1> QED BY <1>1, <1>9, <1>10, <1>11

\* A task picked from a pool was proposed.
LEMMA PickProposed ==
  ASSUME AnswersTyped, NEW r \in Asked, NEW k,
         k \in KeysIn(r.votes, {Panel!CandidateTaskIds(Panel!DivergePhase(r))}),
         k[1] = "pick_task"
  PROVE  \E i \in 1 .. Len(Panel!MergeCandidates(r.candidates)) :
           Panel!VoteKey(Panel!MergeCandidates(r.candidates)[i]) = k
<1> DEFINE ids == Panel!CandidateTaskIds(Panel!DivergePhase(r))
           v == r.votes
           p == Panel!MergeCandidates(r.candidates)
<1>1. v \in Seq(Votes) /\ r.candidates \in Seq(CandidateReplies)
  BY DEF Asked
<1>2. PICK i \in KeyedIn(v, {ids}) : k = Panel!VoteKey(v[i])
  BY DEF KeysIn
<1> HIDE DEF ids, p
<1>3. k = <<v[i].decision, v[i].value>>
  BY <1>1, <1>2, KeyFacts
<1>4. v[i].decision = "pick_task"
  BY <1>3
<1>5. v[i].value \in ids
  <2>1. Panel!IsValidVote(v[i], {ids})
    BY <1>2 DEF KeyedIn, ValidIn
  <2> QED BY <1>4, <2>1 DEF Panel!IsValidVote
<1>6. PICK x \in Panel!Items(Panel!DivergePhase(r).candidates) :
        x.decision = "pick_task" /\ x.value = v[i].value
  BY <1>5, IdsByItems DEF ids
<1>7. x \in Panel!Items(p)
  BY <1>1, <1>6, PoolItems DEF p
<1>8. PICK j \in 1 .. Len(p) : p[j] = x
  BY <1>7 DEF Panel!Items
<1>9. Panel!VoteKey(x) = <<x.decision, x.value>>
  BY <1>6 DEF Panel!VoteKey
<1>10. Panel!VoteKey(p[j]) = k
  BY <1>3, <1>4, <1>6, <1>8, <1>9
<1> QED BY <1>10 DEF p

LEMMA BackingHolds == ASSUME AnswersTyped, PanelInv PROVE ConvergedIsBacked
<1> SUFFICES ASSUME topic = "decision", outcome # Panel!NoOutcome,
                    outcome.status = "converged", outcome.request.kind # "review"
             PROVE  ConvergedIsBacked
  BY DEF ConvergedIsBacked, Panel!ConvergedIsBacked, Panel!Decided
<1> DEFINE r == outcome.request
           d == Panel!RunDirectionPhases(r)
           p == Panel!MergeCandidates(r.candidates)
           q == [r EXCEPT !.votes = Panel!Reversed(@), !.candidates = Panel!Reversed(@)]
<1>1. r \in Asked /\ OutcomeBy(r, outcome, budget)
  BY DEF PanelInv
<1>2. Answered(r, outcome)
  BY <1>1 DEF OutcomeBy
<1>3. r.votes \in Seq(Votes) /\ r.diverge \in BOOLEAN
  BY <1>1 DEF Asked
<1> HIDE DEF r
<1>4. PhasesBy(r, d)
  BY <1>3, DirectionCases
<1>5. /\ Panel!HasMinimumVoteFamilies(d.tally.votes)
      /\ outcome.pick = d.tally.pick /\ outcome.used = d.used
      /\ Panel!ComposeStatus(r.kind, d.tally) = "converged"
  BY <1>2 DEF Answered, r
<1> HIDE DEF d
<1>6. d.tally.count >= 2 /\ Panel!Human(d.tally.minority) = {}
  BY <1>5 DEF Panel!ComposeStatus, r
<1>7. ASSUME NEW ids, d.tally = Panel!TallyVotes(r.votes, ids) PROVE Backed(r.votes, ids, d.tally)
  <2>1. TallyBy(r.votes, ids, d.tally)
    BY <1>7, TallyIs
  <2> QED BY <1>3, <1>5, <1>6, <2>1, TallyBacked
<1>8. PICK ids : d.tally = Panel!TallyVotes(r.votes, ids)
  BY <1>3, <1>4 DEF PhasesBy, Single, Pooled
<1>9. /\ Panel!Cardinality(Panel!Backers(outcome)) >= 2
      /\ Panel!Cardinality(Panel!Families(Panel!Sources(r.votes))) >= 2
      /\ Panel!Human(r.votes) = {}
  <2>1. Backed(r.votes, ids, d.tally)
    BY <1>7, <1>8
  <2>2. Panel!Backers(outcome) = {i \in 1 .. Len(r.votes) : Panel!VoteKey(r.votes[i]) = d.tally.pick}
    BY <1>5 DEF Panel!Backers, r
  <2> QED BY <2>1, <2>2 DEF Backed
<1>10. ASSUME outcome.used, outcome.pick[1] = "pick_task"
       PROVE  \E i \in 1 .. Len(p) : Panel!VoteKey(p[i]) = outcome.pick
  <2> DEFINE c == {Panel!CandidateTaskIds(Panel!DivergePhase(r))}
  <2>1. d.tally = Panel!TallyVotes(r.votes, c)
    BY <1>3, <1>4, <1>5, <1>10 DEF PhasesBy, Single, Pooled
  <2>2. Backed(r.votes, c, d.tally)
    BY <1>7, <2>1
  <2>3. outcome.pick \in KeysIn(r.votes, c)
    BY <1>5, <2>2 DEF Backed
  <2> QED BY <1>1, <1>10, <2>3, PickProposed
<1>11. Panel!RunDirectionPhases(q).tally.pick = outcome.pick
  <2>1. /\ q.diverge = r.diverge /\ q.validIds = r.validIds
        /\ q.candidates = Panel!Reversed(r.candidates) /\ q.votes = Panel!Reversed(r.votes)
    BY <1>1 DEF Asked
  <2> HIDE DEF q
  <2> QED BY <1>1, <1>5, <2>1, PhasesReversed DEF d
<1> QED BY <1>9, <1>10, <1>11 DEF ConvergedIsBacked, Panel!ConvergedIsBacked, r

\* A direction that run_decision calls converged has two votes for it, votes of
\* two families, no vote for a human, an author if there was a pool, and the
\* order of the answers does not matter, whatever is answered and how much.
THEOREM ConvergedTheorem ==
  ASSUME AnswersTyped
  PROVE  RulesSpec => []ConvergedIsBacked
<1>1. RulesInit => PanelInv
  BY PanelStarts
<1>2. PanelInv /\ [RulesNext]_(rulesVars) => PanelInv'
  BY PanelKept
<1>3. PanelInv => ConvergedIsBacked
  BY BackingHolds
<1> QED BY <1>1, <1>2, <1>3, PTL DEF RulesSpec

-----------------------------------------------------------------------------
(* The autonomous gate, of a log and of that log with one more completion. *)

\* model_hints_for_run, model_for_completed, slot_key and record_completion, of any log.
HintsIn(l, r, slot) ==
  {l[i].model : i \in {j \in 1 .. Len(l) :
     /\ l[j].type = "runner.finished" /\ l[j].run = r
     /\ l[j].model # Proof!Unknown /\ Proof!TaskSlot(l[j]) = slot}}
KeyOfEvent(l, e) ==
  LET hints == HintsIn(l, e.run, Proof!TaskSlot(e))
      model == IF \/ e.model # Proof!Unknown
                  \/ e.type = "runner.finished"
                  \/ Cardinality(hints) # 1
               THEN e.model ELSE CHOOSE m \in hints : TRUE
  IN  <<e.work, model, e.day>>
SameIn(l, i, j) == i = j \/ (l[i].job # Proof!NoJob /\ l[i].job = l[j].job)

\* The positions of the completions of a group, and of those that are its samples.
InGroup(l, g) ==
  {i \in 1 .. Len(l) :
     /\ Proof!Group(KeyOfEvent(l, l[i])) = g
     /\ \A j \in 1 .. Len(l) :
          KeyOfEvent(l, l[j]) = KeyOfEvent(l, l[i]) /\ SameIn(l, i, j) => j <= i}
Counted(l, g) ==
  {i \in InGroup(l, g) :
     /\ \A j \in InGroup(l, g) : SameIn(l, i, j) => j <= i
     /\ Proof!IsCompletedOutcome(l[i].status)}

\* The outcomes of the last samples, and what is said of them.
Latest(l, P) ==
  LET s == Picked([i \in 1 .. Len(l) |-> i], P)
      n == IF Len(s) > RecentCompletions THEN RecentCompletions ELSE Len(s)
  IN  [k \in 1 .. n |-> l[s[Len(s) - n + k]].status]
Unreliable(r) ==
  IF Len(r) >= MinRateSamples THEN 2 * Proof!Failures(r) >= Len(r)
  ELSE Proof!TrailingFailures(r) >= ColdStreak
Unsafe(l) ==
  \E i \in 1 .. Len(l) : Unreliable(Latest(l, Counted(l, Proof!Group(KeyOfEvent(l, l[i])))))

LEMMA SameProofPicks ==
  ASSUME NEW s, NEW P
  PROVE  Proof!Picked(s, P) = Picked(s, P) /\ Proof!Cardinality(P) = Cardinality(P)
<1>1. \A Q : Proof!Cardinality(Q) = Cardinality(Q)
  BY DEF Cardinality, Proof!Cardinality
<1>2. \A Q, n : Proof!Nth(Q, n) = Nth(Q, n)
  BY <1>1 DEF Nth, Proof!Nth
<1> QED BY <1>1, <1>2 DEF Picked, Proof!Picked

LEMMA HintsAre ==
  ASSUME NEW r, NEW slot
  PROVE  Proof!ModelHints(r, slot) = HintsIn(log, r, slot)
BY DEF Proof!ModelHints, HintsIn

LEMMA KeyIs ==
  ASSUME NEW e
  PROVE  Proof!SlotKey(e) = KeyOfEvent(log, e)
<1> DEFINE slot == Proof!TaskSlot(e)
<1>1. Proof!ModelHints(e.run, slot) = HintsIn(log, e.run, slot)
  BY HintsAre
<1>2. \A P : Proof!Cardinality(P) = Cardinality(P)
  BY SameProofPicks
<1> QED BY <1>1, <1>2 DEF Proof!SlotKey, Proof!ModelFor, KeyOfEvent

LEMMA CompletionsAre ==
  ASSUME NEW key
  PROVE  Proof!Completions(key) =
           {i \in 1 .. Len(log) :
              /\ KeyOfEvent(log, log[i]) = key
              /\ \A j \in 1 .. Len(log) :
                   KeyOfEvent(log, log[j]) = key /\ SameIn(log, i, j) => j <= i}
<1>1. \A i : Proof!SlotKey(log[i]) = KeyOfEvent(log, log[i])
  BY KeyIs
<1>2. \A i, j : Proof!Same(i, j) <=> SameIn(log, i, j)
  BY DEF Proof!Same, SameIn
<1> QED BY <1>1, <1>2 DEF Proof!Completions, Proof!Indexes

LEMMA SamplesAre ==
  ASSUME NEW g
  PROVE  Proof!Samples(g) = Picked([i \in 1 .. Len(log) |-> i], Counted(log, g))
<1> DEFINE all == UNION {e.completions : e \in {x \in Proof!CrossRunEvidence :
                                                   Proof!Group(x.key) = g}}
<1>1. \A k : Proof!Entry(k).key = k /\ Proof!Entry(k).completions = Proof!Completions(k)
  BY DEF Proof!Entry
<1>2. all = UNION {Proof!Completions(k) : k \in {x \in Proof!Keys : Proof!Group(x) = g}}
  BY <1>1 DEF Proof!CrossRunEvidence
<1>3. Proof!Keys = {KeyOfEvent(log, log[i]) : i \in 1 .. Len(log)}
  BY KeyIs DEF Proof!Keys
<1>4. ASSUME NEW i
      PROVE  i \in all <=> i \in InGroup(log, g)
  <2>1. i \in all <=> \E h \in 1 .. Len(log) :
          /\ Proof!Group(KeyOfEvent(log, log[h])) = g
          /\ i \in Proof!Completions(KeyOfEvent(log, log[h]))
    BY <1>2, <1>3
  <2>2. ASSUME NEW k
        PROVE  i \in Proof!Completions(k) <=>
                 /\ i \in 1 .. Len(log)
                 /\ KeyOfEvent(log, log[i]) = k
                 /\ \A j \in 1 .. Len(log) :
                      KeyOfEvent(log, log[j]) = k /\ SameIn(log, i, j) => j <= i
    BY CompletionsAre
  <2> QED BY <2>1, <2>2 DEF InGroup
<1>5. \A i, j : Proof!Same(i, j) <=> SameIn(log, i, j)
  BY DEF Proof!Same, SameIn
<1>7. all = InGroup(log, g)
  BY <1>4
<1>6. Counted(log, g) = {i \in {h \in all : \A j \in all : Proof!Same(h, j) => j <= h} :
                           Proof!IsCompletedOutcome(log[i].status)}
  BY <1>5, <1>7 DEF Counted
<1>8. \A s, P : Proof!Picked(s, P) = Picked(s, P)
  BY SameProofPicks
<1> QED BY <1>6, <1>8, Zenon DEF Proof!Samples

LEMMA RiskIs == Proof!Risky <=> Unsafe(log)
<1>1. \A g : Proof!Recent(g) = Latest(log, Counted(log, g))
  BY SamplesAre DEF Proof!Recent, Latest
<1>2. \A g : Proof!AtRisk(g) <=> Unreliable(Latest(log, Counted(log, g)))
  BY <1>1 DEF Proof!AtRisk, Unreliable
<1>3. Proof!Groups = {Proof!Group(KeyOfEvent(log, log[i])) : i \in 1 .. Len(log)}
  BY KeyIs DEF Proof!Groups, Proof!Keys
<1> QED BY <1>2, <1>3 DEF Proof!Risky, Unsafe

-----------------------------------------------------------------------------
(* One more failure among the latest outcomes: the window grows or slides. *)

Bad(r) == {k \in 1 .. Len(r) : Proof!IsFailure(r[k])}
BadTail(r) == {k \in 1 .. Len(r) : \A j \in k .. Len(r) : Proof!IsFailure(r[j])}
Joined(r, t) ==
  /\ Len(t) = Len(r) + 1 /\ Proof!IsFailure(t[Len(t)])
  /\ \A k \in 1 .. Len(r) : t[k] = r[k]
Slid(r, t) ==
  /\ Len(t) = Len(r) /\ Len(r) # 0 /\ Proof!IsFailure(t[Len(t)])
  /\ \A k \in 1 .. Len(r) - 1 : t[k] = r[k + 1]

LEMMA BadFacts ==
  ASSUME NEW r, Len(r) \in Nat
  PROVE  /\ Proof!Failures(r) = Cardinality(Bad(r))
         /\ Proof!TrailingFailures(r) = Cardinality(BadTail(r))
         /\ IsFiniteSet(Bad(r)) /\ IsFiniteSet(BadTail(r))
         /\ Cardinality(Bad(r)) \in Nat /\ Cardinality(BadTail(r)) \in Nat
         /\ Cardinality(BadTail(r)) <= Cardinality(Bad(r))
<1>1. Proof!Failures(r) = Cardinality(Bad(r))
  BY SameProofPicks DEF Proof!Failures, Bad
<1>2. Proof!TrailingFailures(r) = Cardinality(BadTail(r))
  BY SameProofPicks DEF Proof!TrailingFailures, BadTail
<1>3. IsFiniteSet(1 .. Len(r))
  <2>1. 1 \in Int /\ Len(r) \in Int
    OBVIOUS
  <2> QED BY <2>1, FS_Interval
<1>4. Bad(r) \subseteq 1 .. Len(r)
  BY DEF Bad
<1>5. BadTail(r) \subseteq Bad(r)
  <2> SUFFICES ASSUME NEW k \in 1 .. Len(r), \A j \in k .. Len(r) : Proof!IsFailure(r[j])
               PROVE  Proof!IsFailure(r[k])
    BY DEF Bad, BadTail
  <2>1. k \in k .. Len(r)
    OBVIOUS
  <2> QED BY <2>1
<1>6. IsFiniteSet(Bad(r))
  BY <1>3, <1>4, FS_Subset
<1>7. IsFiniteSet(BadTail(r)) /\ Cardinality(BadTail(r)) <= Cardinality(Bad(r))
  BY <1>5, <1>6, FS_Subset
<1> QED BY <1>1, <1>2, <1>6, <1>7, FS_CardinalityType

LEMMA JoinedCounts ==
  ASSUME NEW r, NEW t, Len(r) \in Nat, Joined(r, t)
  PROVE  /\ Cardinality(Bad(t)) = Cardinality(Bad(r)) + 1
         /\ Cardinality(BadTail(t)) = Cardinality(BadTail(r)) + 1
<1> DEFINE n == Len(r)
<1>1. /\ Len(t) = n + 1 /\ n \in Nat /\ Proof!IsFailure(t[n + 1])
      /\ \A k \in 1 .. n : t[k] = r[k]
  BY DEF Joined
<1>2. IsFiniteSet(Bad(r)) /\ IsFiniteSet(BadTail(r))
  BY BadFacts
<1>3. \A k \in 1 .. n + 1 : k = n + 1 \/ k \in 1 .. n
  BY <1>1
<1>4. n + 1 \in 1 .. n + 1 /\ n + 1 \notin 1 .. n /\ 1 .. n \subseteq 1 .. n + 1
  BY <1>1
<1>5. Bad(t) = Bad(r) \cup {n + 1} /\ n + 1 \notin Bad(r)
  <2> HIDE DEF n
  <2>1. Bad(r) = {k \in 1 .. n : Proof!IsFailure(r[k])}
    BY DEF Bad, n
  <2>2. Bad(t) = {k \in 1 .. n + 1 : Proof!IsFailure(t[k])}
    BY <1>1 DEF Bad
  <2> QED BY <1>1, <1>3, <1>4, <2>1, <2>2
<1>6. BadTail(t) = BadTail(r) \cup {n + 1} /\ n + 1 \notin BadTail(r)
  <2> HIDE DEF n
  <2>1. BadTail(r) = {k \in 1 .. n : \A j \in k .. n : Proof!IsFailure(r[j])}
    BY DEF BadTail, n
  <2>2. BadTail(t) = {k \in 1 .. n + 1 : \A j \in k .. n + 1 : Proof!IsFailure(t[j])}
    BY <1>1 DEF BadTail
  <2>3. ASSUME NEW k \in 1 .. n
        PROVE  (\A j \in k .. n + 1 : Proof!IsFailure(t[j])) <=>
               (\A j \in k .. n : Proof!IsFailure(r[j]))
    <3>1. \A j \in k .. n : j \in k .. n + 1 /\ j \in 1 .. n
      BY <1>1
    <3>2. \A j \in k .. n + 1 : j = n + 1 \/ (j \in k .. n /\ j \in 1 .. n)
      BY <1>1
    <3> QED BY <1>1, <3>1, <3>2
  <2>4. \A j \in n + 1 .. n + 1 : j = n + 1
    BY <1>1
  <2> QED BY <1>1, <1>3, <1>4, <2>1, <2>2, <2>3, <2>4
<1> QED BY <1>2, <1>5, <1>6, FS_AddElement

\* The first place of a window goes to the last, the others move up.
LEMMA SlidCounts ==
  ASSUME NEW r, NEW t, Len(r) \in Nat, Slid(r, t)
  PROVE  /\ Cardinality(Bad(r)) <= Cardinality(Bad(t))
         /\ Cardinality(BadTail(r)) <= Cardinality(BadTail(t))
<1> DEFINE n == Len(r)
           Up(k) == IF k = 1 THEN n ELSE k - 1
<1>1. /\ Len(t) = n /\ n \in Nat /\ n >= 1 /\ Proof!IsFailure(t[n])
      /\ \A k \in 1 .. n - 1 : t[k] = r[k + 1]
  BY DEF Slid
<1>2. IsFiniteSet(Bad(t)) /\ IsFiniteSet(BadTail(t))
  BY <1>1, BadFacts
<1>3. /\ Bad(r) = {k \in 1 .. n : Proof!IsFailure(r[k])}
      /\ Bad(t) = {k \in 1 .. n : Proof!IsFailure(t[k])}
      /\ BadTail(r) = {k \in 1 .. n : \A j \in k .. n : Proof!IsFailure(r[j])}
      /\ BadTail(t) = {k \in 1 .. n : \A j \in k .. n : Proof!IsFailure(t[j])}
  BY <1>1 DEF Bad, BadTail
<1> HIDE DEF n
<1>4. \A k \in 1 .. n : Up(k) \in 1 .. n /\ (k # 1 => k - 1 \in 1 .. n - 1 /\ k - 1 + 1 = k)
  BY <1>1
<1>5. \A k, h \in 1 .. n : Up(k) = Up(h) => k = h
  BY <1>1
<1>6. \A k \in Bad(r) : Up(k) \in Bad(t)
  <2> SUFFICES ASSUME NEW k \in 1 .. n, Proof!IsFailure(r[k])
               PROVE  Proof!IsFailure(t[Up(k)])
    BY <1>3, <1>4
  <2> QED BY <1>1, <1>4
<1>7. \A k \in BadTail(r) : Up(k) \in BadTail(t)
  <2> SUFFICES ASSUME NEW k \in 1 .. n, \A j \in k .. n : Proof!IsFailure(r[j]),
                      NEW j \in Up(k) .. n
               PROVE  Proof!IsFailure(t[j])
    BY <1>3, <1>4
  <2>1. CASE j = n
    BY <1>1, <2>1
  <2>2. CASE j # n
    <3>1. k # 1
      BY <1>1, <2>2
    <3>2. j \in 1 .. n - 1 /\ j + 1 \in k .. n
      BY <1>1, <2>2, <3>1
    <3> QED BY <1>1, <3>2
  <2> QED BY <2>1, <2>2
<1>8. ASSUME NEW A \in SUBSET (1 .. n), NEW B, IsFiniteSet(B), \A k \in A : Up(k) \in B
      PROVE  Cardinality(A) <= Cardinality(B)
  <2> DEFINE f == [k \in A |-> Up(k)]
  <2> HIDE DEF Up
  <2>1. f \in [A -> B] /\ \A k, h \in A : f[k] = f[h] => k = h
    BY <1>5, <1>8
  <2> HIDE DEF f
  <2>2. f \in Injection(A, B)
    BY <2>1 DEF Injection, IsInjective
  <2> QED BY <1>8, <2>2, FS_Injection
<1>9. Bad(r) \subseteq 1 .. n /\ BadTail(r) \subseteq 1 .. n
  BY <1>3
<1> HIDE DEF Up
<1> QED BY <1>2, <1>6, <1>7, <1>8, <1>9

\* Once the sample is full the rate decides, and it counts the streak.
LEMMA RiskStays ==
  ASSUME StreakReachesRate, NEW r, NEW t, Len(r) \in Nat, Joined(r, t) \/ Slid(r, t),
         Unreliable(r)
  PROVE  Unreliable(t)
<1> DEFINE F == Cardinality(Bad(r))
           T == Cardinality(BadTail(r))
           G == Cardinality(Bad(t))
           U == Cardinality(BadTail(t))
<1>1. Len(t) \in Nat
  BY DEF Joined, Slid
<1>2. F \in Nat /\ T \in Nat /\ Proof!Failures(r) = F /\ Proof!TrailingFailures(r) = T
  BY BadFacts
<1>3. G \in Nat /\ U \in Nat /\ U <= G /\ Proof!Failures(t) = G /\ Proof!TrailingFailures(t) = U
  BY <1>1, BadFacts
<1> HIDE DEF F, T, G, U
<1>4. MinRateSamples \in Nat /\ ColdStreak \in Nat /\ 2 * (ColdStreak + 1) >= MinRateSamples
  BY DEF StreakReachesRate
<1>5. IF Len(r) >= MinRateSamples THEN 2 * F >= Len(r) ELSE T >= ColdStreak
  BY <1>2 DEF Unreliable
<1>6. CASE Joined(r, t)
  <2>1. G = F + 1 /\ U = T + 1 /\ Len(t) = Len(r) + 1
    BY <1>6, JoinedCounts DEF F, T, G, U, Joined
  <2> QED BY <1>2, <1>3, <1>4, <1>5, <2>1 DEF Unreliable
<1>7. CASE Slid(r, t)
  <2>1. F <= G /\ T <= U /\ Len(t) = Len(r)
    BY <1>7, SlidCounts DEF F, T, G, U, Slid
  <2> QED BY <1>2, <1>3, <1>4, <1>5, <2>1 DEF Unreliable
<1> QED BY <1>6, <1>7

-----------------------------------------------------------------------------
(* The log with one more failure, and its samples. *)

\* m is l with the failure e at its end, of a job nobody spoke of before and of
\* a model that its run has named for the work, or of an unknown one.
FailsNext(l, e, m) ==
  /\ Len(l) \in Nat /\ Len(m) = Len(l) + 1 /\ m[Len(l) + 1] = e
  /\ \A i \in 1 .. Len(l) : m[i] = l[i]
  /\ Proof!IsFailure(e.status)
  /\ \A i \in 1 .. Len(l) : e.job # Proof!NoJob => l[i].job # e.job
  /\ e.model \in HintsIn(l, e.run, Proof!TaskSlot(e)) \cup {Proof!Unknown}

LEMMA HintsStay ==
  ASSUME NEW l, NEW e, NEW m, FailsNext(l, e, m), NEW r, NEW slot
  PROVE  HintsIn(m, r, slot) = HintsIn(l, r, slot)
<1> DEFINE n == Len(l)
<1>1. n \in Nat /\ Len(m) = n + 1 /\ m[n + 1] = e /\ \A i \in 1 .. n : m[i] = l[i]
  BY DEF FailsNext
<1>2. \A i \in 1 .. n + 1 : i = n + 1 \/ i \in 1 .. n
  BY <1>1
<1>3. 1 .. n \subseteq 1 .. n + 1 /\ n + 1 \in 1 .. n + 1
  BY <1>1
<1> DEFINE Names(q, i) ==
             /\ q[i].type = "runner.finished" /\ q[i].run = r
             /\ q[i].model # Proof!Unknown /\ Proof!TaskSlot(q[i]) = slot
<1> HIDE DEF n
<1>4. /\ \A x : x \in HintsIn(l, r, slot) <=> \E i \in 1 .. n : Names(l, i) /\ x = l[i].model
      /\ \A x : x \in HintsIn(m, r, slot) <=> \E i \in 1 .. n + 1 : Names(m, i) /\ x = m[i].model
  BY <1>1 DEF HintsIn, n
<1>5. \A i \in 1 .. n : Names(m, i) <=> Names(l, i)
  BY <1>1
<1>6. Names(m, n + 1) => e.model \in HintsIn(l, r, slot)
  <2> SUFFICES ASSUME Names(m, n + 1) PROVE e.model \in HintsIn(l, r, slot)
    OBVIOUS
  <2>1. e.run = r /\ Proof!TaskSlot(e) = slot /\ e.model # Proof!Unknown
    BY <1>1
  <2>2. e.model \in HintsIn(l, e.run, Proof!TaskSlot(e)) \cup {Proof!Unknown}
    BY DEF FailsNext
  <2> QED BY <2>1, <2>2
<1> HIDE DEF Names
<1>7. \A x : x \in HintsIn(m, r, slot) <=> x \in HintsIn(l, r, slot)
  BY <1>1, <1>2, <1>3, <1>4, <1>5, <1>6
<1> QED BY <1>7 DEF HintsIn

LEMMA KeysStay ==
  ASSUME NEW l, NEW e, NEW m, FailsNext(l, e, m), NEW x
  PROVE  KeyOfEvent(m, x) = KeyOfEvent(l, x)
<1> DEFINE slot == Proof!TaskSlot(x)
<1>1. HintsIn(m, x.run, slot) = HintsIn(l, x.run, slot)
  BY HintsStay
<1> QED BY <1>1 DEF KeyOfEvent

LEMMA CountedJoins ==
  ASSUME NEW l, NEW e, NEW m, FailsNext(l, e, m), NEW g
  PROVE  Counted(m, g) = IF Proof!Group(KeyOfEvent(l, e)) = g
                         THEN Counted(l, g) \cup {Len(l) + 1} ELSE Counted(l, g)
<1> DEFINE n == Len(l)
           K(x) == KeyOfEvent(l, x)
           mine == Proof!Group(K(e)) = g
<1>1. n \in Nat /\ Len(m) = n + 1 /\ m[n + 1] = e /\ \A i \in 1 .. n : m[i] = l[i]
  BY DEF FailsNext
<1>2. \A x : KeyOfEvent(m, x) = K(x)
  BY KeysStay
<1> HIDE DEF n, K
<1>3. /\ \A i \in 1 .. n + 1 : i = n + 1 \/ i \in 1 .. n
      /\ \A i \in 1 .. n : i \in 1 .. n + 1 /\ i # n + 1 /\ i <= n + 1 /\ ~(n + 1 <= i)
      /\ n + 1 \in 1 .. n + 1 /\ n + 1 <= n + 1
  BY <1>1
<1>4. \A i \in 1 .. n : ~SameIn(m, i, n + 1) /\ ~SameIn(m, n + 1, i)
  <2>1. \A i \in 1 .. n : e.job # Proof!NoJob => l[i].job # e.job
    BY DEF FailsNext, n
  <2> QED BY <1>1, <1>3, <2>1 DEF SameIn
<1>5. \A i, j \in 1 .. n : SameIn(m, i, j) <=> SameIn(l, i, j)
  BY <1>1 DEF SameIn
<1>6. InGroup(l, g) = {i \in 1 .. n : Proof!Group(K(l[i])) = g
        /\ \A j \in 1 .. n : K(l[j]) = K(l[i]) /\ SameIn(l, i, j) => j <= i}
  BY DEF InGroup, n, K
<1>7. InGroup(m, g) = {i \in 1 .. n + 1 : Proof!Group(K(m[i])) = g
        /\ \A j \in 1 .. n + 1 : K(m[j]) = K(m[i]) /\ SameIn(m, i, j) => j <= i}
  BY <1>1, <1>2 DEF InGroup
<1>8. \A i \in 1 .. n : i \in InGroup(m, g) <=> i \in InGroup(l, g)
  <2> SUFFICES ASSUME NEW i \in 1 .. n PROVE i \in InGroup(m, g) <=> i \in InGroup(l, g)
    OBVIOUS
  <2>1. (\A j \in 1 .. n + 1 : K(m[j]) = K(m[i]) /\ SameIn(m, i, j) => j <= i) <=>
        (\A j \in 1 .. n : K(l[j]) = K(l[i]) /\ SameIn(l, i, j) => j <= i)
    BY <1>1, <1>3, <1>4, <1>5
  <2> QED BY <1>1, <1>3, <1>6, <1>7, <2>1
<1>9. n + 1 \in InGroup(m, g) <=> mine
  <2>1. \A j \in 1 .. n + 1 : SameIn(m, n + 1, j) => j <= n + 1
    BY <1>3
  <2> QED BY <1>1, <1>3, <1>7, <2>1
<1>10. InGroup(l, g) \subseteq 1 .. n /\ InGroup(m, g) \subseteq 1 .. n + 1
  BY <1>6, <1>7
<1>11. \A i \in 1 .. n : i \in Counted(m, g) <=> i \in Counted(l, g)
  <2> SUFFICES ASSUME NEW i \in 1 .. n PROVE i \in Counted(m, g) <=> i \in Counted(l, g)
    OBVIOUS
  <2>1. (\A j \in InGroup(m, g) : SameIn(m, i, j) => j <= i) <=>
        (\A j \in InGroup(l, g) : SameIn(l, i, j) => j <= i)
    BY <1>3, <1>4, <1>5, <1>8, <1>10
  <2> QED BY <1>1, <1>8, <2>1 DEF Counted
<1>12. n + 1 \in Counted(m, g) <=> mine
  <2>1. Proof!IsCompletedOutcome(m[n + 1].status)
    BY <1>1 DEF FailsNext, Proof!IsCompletedOutcome
  <2>2. \A j \in InGroup(m, g) : SameIn(m, n + 1, j) => j <= n + 1
    BY <1>3, <1>10
  <2> QED BY <1>9, <2>1, <2>2 DEF Counted
<1>13. Counted(l, g) \subseteq 1 .. n /\ Counted(m, g) \subseteq 1 .. n + 1
  BY <1>10 DEF Counted
<1>14. n \in Nat /\ (Proof!Group(KeyOfEvent(l, e)) = g <=> mine)
  BY <1>1 DEF K
<1> HIDE DEF mine
<1>15. CASE mine
  <2>1. Counted(m, g) = Counted(l, g) \cup {n + 1}
    BY <1>3, <1>11, <1>12, <1>13, <1>15
  <2> QED BY <1>14, <1>15, <2>1 DEF n
<1>16. CASE ~mine
  <2>1. Counted(m, g) = Counted(l, g)
    BY <1>3, <1>11, <1>12, <1>13, <1>16
  <2> QED BY <1>14, <1>16, <2>1
<1> QED BY <1>15, <1>16

\* The outcomes at the last of some positions.
LatestBy(l, P, r) ==
  /\ IsFiniteSet(P) /\ P \in SUBSET Nat /\ Cardinality(P) \in Nat /\ Len(r) \in Nat
  /\ Cardinality(P) <= RecentCompletions =>
       /\ Len(r) = Cardinality(P)
       /\ \A k \in 1 .. Len(r) : r[k] = l[Nth(P, k)].status
  /\ Cardinality(P) >= RecentCompletions =>
       /\ Len(r) = RecentCompletions
       /\ \A k \in 1 .. RecentCompletions : r[k] = l[Nth(P, Cardinality(P) - RecentCompletions + k)].status
  /\ r = [k \in 1 .. Len(r) |-> r[k]]

LEMMA LatestIs ==
  ASSUME RecentCompletions \in Nat, NEW l, Len(l) \in Nat, NEW P \in SUBSET (1 .. Len(l))
  PROVE  LatestBy(l, P, Latest(l, P))
<1> DEFINE w == Len(l)
           id == [i \in 1 .. w |-> i]
           s == Picked(id, P)
           c == Cardinality(P)
           n == IF c > RecentCompletions THEN RecentCompletions ELSE c
           r == Latest(l, P)
<1>1. P \in SUBSET Nat /\ IsFiniteSet(P) /\ c \in Nat
  <2>1. 1 \in Int /\ Len(l) \in Int /\ 1 .. Len(l) \subseteq Nat
    OBVIOUS
  <2>2. IsFiniteSet(1 .. Len(l))
    BY <2>1, FS_Interval
  <2> QED BY <2>1, <2>2, FS_Subset, FS_CardinalityType
<1>2. \A k \in 1 .. c : Nth(P, k) \in P
  BY <1>1, NthFacts
<1>3. s = [k \in 1 .. c |-> id[Nth(P, k)]]
  BY DEF Picked
<1>4. \A i \in P : id[i] = i
  OBVIOUS
<1> HIDE DEF c, id, s
<1>5. Len(s) = c /\ \A k \in 1 .. c : s[k] = Nth(P, k)
  <2>1. Len(s) = c
    BY <1>1, <1>3
  <2>2. \A k \in 1 .. c : s[k] = id[Nth(P, k)]
    BY <1>3
  <2> QED BY <1>2, <1>4, <2>1, <2>2
<1>6. r = [k \in 1 .. n |-> l[s[c - n + k]].status]
  BY <1>5 DEF Latest, s, id
<1>7. n \in Nat /\ \A k \in 1 .. n : c - n + k \in 1 .. c
  BY <1>1
<1>8. (c <= RecentCompletions => n = c) /\ (c >= RecentCompletions => n = RecentCompletions)
  BY <1>1
<1> HIDE DEF n, r
<1>9. Len(r) = n /\ r = [k \in 1 .. n |-> r[k]] /\ \A k \in 1 .. n : r[k] = l[s[c - n + k]].status
  BY <1>6, <1>7
<1>10. \A k \in 1 .. n : r[k] = l[Nth(P, c - n + k)].status
  BY <1>5, <1>7, <1>9
<1>11. c <= RecentCompletions => \A k \in 1 .. n : c - n + k = k
  BY <1>1, <1>8
<1> QED BY <1>1, <1>7, <1>8, <1>9, <1>10, <1>11 DEF LatestBy, c, r

LEMMA LatestStays ==
  ASSUME RecentCompletions \in Nat, NEW l, NEW e, NEW m, FailsNext(l, e, m),
         NEW P \in SUBSET (1 .. Len(l))
  PROVE  Latest(m, P) = Latest(l, P)
<1> DEFINE w == Len(l)
           c == Cardinality(P)
           r == Latest(l, P)
           t == Latest(m, P)
<1>1. w \in Nat /\ Len(m) = w + 1 /\ \A i \in 1 .. w : m[i] = l[i]
  BY DEF FailsNext
<1>2. P \in SUBSET (1 .. Len(m)) /\ Len(m) \in Nat
  BY <1>1
<1>3. LatestBy(l, P, r) /\ LatestBy(m, P, t)
  BY <1>1, <1>2, LatestIs
<1>4. \A k \in 1 .. c : Nth(P, k) \in P
  BY <1>3, NthFacts DEF LatestBy
<1>5. \A k \in 1 .. c : m[Nth(P, k)] = l[Nth(P, k)]
  BY <1>1, <1>4
<1> HIDE DEF c, r, t
<1>6. c \in Nat
  BY <1>3 DEF LatestBy, c
<1>7. Len(t) = Len(r) /\ \A k \in 1 .. Len(r) : t[k] = r[k]
  <2>1. CASE c <= RecentCompletions
    BY <1>3, <1>5, <2>1 DEF LatestBy, c
  <2>2. CASE c >= RecentCompletions
    <3>1. \A k \in 1 .. RecentCompletions : c - RecentCompletions + k \in 1 .. c
      BY <1>6, <2>2
    <3> QED BY <1>3, <1>5, <2>2, <3>1 DEF LatestBy, c
  <2> QED BY <1>6, <2>1, <2>2
<1>8. r = [k \in 1 .. Len(r) |-> r[k]] /\ t = [k \in 1 .. Len(t) |-> t[k]]
  BY <1>3 DEF LatestBy
<1>9. t = r
  BY <1>7, <1>8
<1> QED BY <1>9 DEF r, t

LEMMA LatestGrows ==
  ASSUME RecentCompletions \in Nat, NEW l, NEW e, NEW m, FailsNext(l, e, m),
         NEW P \in SUBSET (1 .. Len(l)),
         NEW Q, Q = P \cup {Len(l) + 1}
  PROVE  \/ Joined(Latest(l, P), Latest(m, Q))
         \/ Slid(Latest(l, P), Latest(m, Q))
         \/ Latest(m, Q) = Latest(l, P)
<1> DEFINE w == Len(l)
           c == Cardinality(P)
           r == Latest(l, P)
           t == Latest(m, Q)
<1>1. /\ w \in Nat /\ Len(m) = w + 1 /\ m[w + 1] = e /\ Proof!IsFailure(e.status)
      /\ \A i \in 1 .. w : m[i] = l[i]
  BY DEF FailsNext
<1>2. Q \in SUBSET (1 .. Len(m)) /\ Len(m) \in Nat /\ w + 1 \in Nat /\ \A i \in P : i < w + 1
  <2>1. P \in SUBSET (1 .. w) /\ Q = P \cup {w + 1}
    OBVIOUS
  <2> HIDE DEF w
  <2>2. w + 1 \in Nat /\ w + 1 \in 1 .. w + 1 /\ \A i \in 1 .. w : i < w + 1 /\ i \in 1 .. w + 1
    BY <1>1
  <2> QED BY <1>1, <2>1, <2>2
<1>3. LatestBy(l, P, r) /\ LatestBy(m, Q, t)
  BY <1>1, <1>2, LatestIs
<1>4. c \in Nat /\ P \in SUBSET Nat /\ IsFiniteSet(P)
  BY <1>3 DEF LatestBy
<1>5. OneMoreNth(P, w + 1, Q)
  BY <1>2, <1>4, NthAppend
<1>6. /\ Cardinality(Q) = c + 1 /\ Nth(Q, c + 1) = w + 1
      /\ \A k \in 1 .. c : Nth(Q, k) = Nth(P, k) /\ Nth(P, k) \in 1 .. w
  BY <1>4, <1>5, NthFacts DEF OneMoreNth
<1> HIDE DEF w, c, r, t
<1>7. \A k \in 1 .. c : m[Nth(Q, k)] = l[Nth(P, k)]
  BY <1>1, <1>6
<1>8. Proof!IsFailure(m[Nth(Q, c + 1)].status)
  BY <1>1, <1>6
<1>9. CASE c < RecentCompletions
  <2>1. c <= RecentCompletions /\ c + 1 <= RecentCompletions /\ c + 1 \in 1 .. c + 1
        /\ \A k \in 1 .. c : k \in 1 .. c + 1
    BY <1>4, <1>9
  <2>2. Len(r) = c /\ \A k \in 1 .. c : r[k] = l[Nth(P, k)].status
    BY <1>3, <2>1 DEF LatestBy, c
  <2>3. Len(t) = c + 1 /\ \A k \in 1 .. c + 1 : t[k] = m[Nth(Q, k)].status
    BY <1>3, <1>6, <2>1 DEF LatestBy
  <2>4. Proof!IsFailure(t[Len(t)])
    <3>1. t[c + 1] = m[Nth(Q, c + 1)].status
      BY <2>1, <2>3
    <3> QED BY <1>8, <2>3, <3>1
  <2>5. ASSUME NEW k \in 1 .. c PROVE t[k] = r[k]
    <3>1. t[k] = m[Nth(Q, k)].status
      BY <2>1, <2>3
    <3>2. r[k] = l[Nth(P, k)].status
      BY <2>2
    <3> QED BY <1>7, <3>1, <3>2
  <2> QED BY <2>2, <2>3, <2>4, <2>5 DEF Joined, r, t
<1>10. CASE c >= RecentCompletions /\ RecentCompletions # 0
  <2>1. /\ Len(r) = RecentCompletions
        /\ \A k \in 1 .. RecentCompletions : r[k] = l[Nth(P, c - RecentCompletions + k)].status
    BY <1>3, <1>10 DEF LatestBy, c
  <2>2. c + 1 >= RecentCompletions
    BY <1>4, <1>10
  <2>3. /\ Len(t) = RecentCompletions
        /\ \A k \in 1 .. RecentCompletions : t[k] = m[Nth(Q, c + 1 - RecentCompletions + k)].status
    <3> DEFINE q == Cardinality(Q)
    <3>1. q = c + 1
      BY <1>6
    <3>2. q >= RecentCompletions =>
            /\ Len(t) = RecentCompletions
            /\ \A k \in 1 .. RecentCompletions : t[k] = m[Nth(Q, q - RecentCompletions + k)].status
      BY <1>3 DEF LatestBy
    <3> HIDE DEF q
    <3>3. q >= RecentCompletions
      BY <2>2, <3>1
    <3>4. \A k \in 1 .. RecentCompletions : q - RecentCompletions + k = c + 1 - RecentCompletions + k
      BY <1>4, <3>1
    <3> QED BY <3>2, <3>3, <3>4
  <2>4. ASSUME NEW k \in 1 .. RecentCompletions - 1 PROVE t[k] = r[k + 1]
    <3>1. /\ k \in 1 .. RecentCompletions /\ k + 1 \in 1 .. RecentCompletions
          /\ c - RecentCompletions + (k + 1) = c + 1 - RecentCompletions + k
          /\ c + 1 - RecentCompletions + k \in 1 .. c
      BY <1>4, <1>10
    <3>2. r[k + 1] = l[Nth(P, c + 1 - RecentCompletions + k)].status
      BY <2>1, <3>1
    <3>3. t[k] = m[Nth(Q, c + 1 - RecentCompletions + k)].status
      BY <2>3, <3>1
    <3> QED BY <1>7, <3>1, <3>2, <3>3
  <2>5. Proof!IsFailure(t[RecentCompletions])
    <3>1. /\ RecentCompletions \in 1 .. RecentCompletions
          /\ c + 1 - RecentCompletions + RecentCompletions = c + 1
      BY <1>4, <1>10
    <3> QED BY <1>8, <2>3, <3>1
  <2> QED BY <1>10, <2>1, <2>3, <2>4, <2>5 DEF Slid, r, t
<1>11. CASE RecentCompletions = 0
  <2>1. c >= RecentCompletions /\ c + 1 >= RecentCompletions
    BY <1>4, <1>11
  <2>2. Len(r) = 0 /\ Len(t) = 0
    BY <1>3, <1>6, <1>11, <2>1 DEF LatestBy, c
  <2>3. r = [k \in 1 .. 0 |-> r[k]] /\ t = [k \in 1 .. 0 |-> t[k]]
    BY <1>3, <2>2 DEF LatestBy
  <2>4. \A k : k \notin 1 .. 0
    OBVIOUS
  <2>5. t = r
    BY <2>3, <2>4
  <2> QED BY <2>5 DEF r, t
<1> QED BY <1>4, <1>9, <1>10, <1>11

\* A group that counts as unreliable does so with one more failure as well, of
\* whatever group.
LEMMA RiskGrows ==
  ASSUME StreakReachesRate, NEW l, NEW e, NEW m, FailsNext(l, e, m), Unsafe(l)
  PROVE  Unsafe(m)
<1>1. RecentCompletions \in Nat /\ Len(l) \in Nat
  BY DEF StreakReachesRate, FailsNext
<1>2. PICK i \in 1 .. Len(l) : Unreliable(Latest(l, Counted(l, Proof!Group(KeyOfEvent(l, l[i])))))
  BY DEF Unsafe
<1> DEFINE g == Proof!Group(KeyOfEvent(l, l[i]))
           P == Counted(l, g)
           Q == Counted(m, g)
<1>3. i \in 1 .. Len(m) /\ m[i] = l[i]
  BY <1>1 DEF FailsNext
<1>4. Proof!Group(KeyOfEvent(m, m[i])) = g
  BY <1>3, KeysStay
<1>5. P \in SUBSET (1 .. Len(l))
  BY DEF Counted, InGroup
<1>6. Unreliable(Latest(l, P))
  BY <1>2
<1>7. Q = P \cup {Len(l) + 1} \/ Q = P
  BY CountedJoins
<1> HIDE DEF g, P, Q
<1>8. Len(Latest(l, P)) \in Nat
  BY <1>1, <1>5, LatestIs DEF LatestBy
<1>9. Unreliable(Latest(m, Q))
  <2>1. CASE Q = P
    BY <1>1, <1>5, <1>6, <2>1, LatestStays
  <2>2. CASE Q = P \cup {Len(l) + 1}
    <3>1. \/ Joined(Latest(l, P), Latest(m, Q))
          \/ Slid(Latest(l, P), Latest(m, Q))
          \/ Latest(m, Q) = Latest(l, P)
      BY <1>1, <1>5, <2>2, LatestGrows
    <3> QED BY <1>6, <1>8, <3>1, RiskStays
  <2> QED BY <1>7, <2>1, <2>2
<1> QED BY <1>3, <1>4, <1>9 DEF Unsafe, Q

\* The log is a sequence.
LogInv == \E S : log \in Seq(S)

LEMMA LogKept ==
  ASSUME LogInv, [RulesNext]_(rulesVars)
  PROVE  LogInv' /\ (log' = log \/ \E e : log' = Append(log, e))
<1>1. PICK S : log \in Seq(S)
  BY DEF LogInv
<1>2. CASE log' = log
  BY <1>2 DEF LogInv
<1>3. CASE log' # log
  <2>1. EvidenceStep
    BY <1>3 DEF RulesNext, rulesVars, telling, AddRound, ChangeRun, ChangeLedger, ChangeHead,
                MergeStep, DecisionStep, PermissionStep
  <2>2. PICK e : log' = Append(log, e)
    BY <1>3, <2>1 DEF EvidenceStep, Proof!Next, Proof!Finished, Proof!Reported, Proof!Voted,
                      Proof!NextDay, Proof!Emit
  <2>3. log \in Seq(S \cup {e})
    BY <1>1
  <2>4. log' \in Seq(S \cup {e})
    BY <2>2, <2>3
  <2> QED BY <2>2, <2>4 DEF LogInv
<1> QED BY <1>2, <1>3

\* A failure never opens the autonomous gate: if some group of completions speaks
\* against autopilot and a failure of a new job is logged, of a model that its
\* run has named before or of an unknown one, autopilot still may not go on its
\* own, for any runs, works, days and models, any window and rate limits of
\* which the streak reaches the rate.
THEOREM FailureTheorem ==
  ASSUME StreakReachesRate
  PROVE  RulesSpec => FailureNeverHelps
<1>1. RulesInit => LogInv
  <2> SUFFICES ASSUME RulesInit PROVE LogInv
    OBVIOUS
  <2>1. log = << >>
    BY DEF RulesInit, Proof!Init
  <2>2. log \in Seq(Nat)
    BY <2>1
  <2> QED BY <2>2 DEF LogInv
<1>2. LogInv /\ [RulesNext]_(rulesVars) => LogInv'
  BY LogKept
<1> DEFINE told ==
      /\ Len(log') = Len(log) + 1
      /\ LET e == log'[Len(log')] IN
           /\ Proof!IsFailure(e.status) /\ ~Proof!Known(e)
           /\ e.model \in Proof!ModelHints(e.run, Proof!TaskSlot(e)) \cup {Proof!Unknown}
      /\ Proof!Risky
<1>3. LogInv /\ [RulesNext]_(rulesVars) => [told => Proof!OperationalReliability' # "none"]_(Proof!vars)
  <2> SUFFICES ASSUME LogInv, [RulesNext]_(rulesVars), told
               PROVE  Proof!OperationalReliability' # "none"
    OBVIOUS
  <2> DEFINE e == log'[Len(log')]
  <2>1. PICK S : log \in Seq(S)
    BY DEF LogInv
  <2>2. Len(log) \in Nat
    BY <2>1
  <2>3. log' # log
    <3> SUFFICES ASSUME log' = log PROVE FALSE
      OBVIOUS
    <3>1. Len(log) = Len(log) + 1
      OBVIOUS
    <3> QED BY <2>2, <3>1
  <2>4. PICK x : log' = Append(log, x)
    BY <2>3, LogKept
  <2>5. Len(log') = Len(log) + 1 /\ log'[Len(log) + 1] = x /\ \A i \in 1 .. Len(log) : log'[i] = log[i]
    BY <2>1, <2>4
  <2>6. e = x
    BY <2>5
  <2>7. /\ Proof!IsFailure(x.status) /\ ~Proof!Known(x)
        /\ x.model \in Proof!ModelHints(x.run, Proof!TaskSlot(x)) \cup {Proof!Unknown}
    BY <2>6
  <2>8. Proof!ModelHints(x.run, Proof!TaskSlot(x)) = HintsIn(log, x.run, Proof!TaskSlot(x))
    BY HintsAre
  <2>9. \A i \in 1 .. Len(log) : x.job # Proof!NoJob => log[i].job # x.job
    BY <2>7 DEF Proof!Known
  <2>10. FailsNext(log, x, log')
    BY <2>2, <2>5, <2>7, <2>8, <2>9 DEF FailsNext
  <2>11. Unsafe(log)
    BY RiskIs
  <2>12. Unsafe(log')
    BY <2>10, <2>11, RiskGrows
  <2>13. Proof!Risky'
    <3>1. (Proof!Risky <=> Unsafe(log))'
      BY RiskIs, PTL
    <3> QED BY <2>12, <3>1
  <2> QED BY <2>13 DEF Proof!OperationalReliability
<1> QED BY <1>1, <1>2, <1>3, PTL DEF RulesSpec, FailureNeverHelps, Proof!FailureNeverHelps

=============================================================================
