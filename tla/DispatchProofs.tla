--------------------------- MODULE DispatchProofs ---------------------------
(***************************************************************************)
(* The safety of Dispatch: windows are closed and recorded honestly, for   *)
(* any dispatches, windows and failures, and a wait prints the outcome of  *)
(* its own dispatch.  Then that of Terminal, the hand-over that Dispatch   *)
(* takes for one step.                                                     *)
(***************************************************************************)
EXTENDS Dispatch, Terminal, StateMergeProofs

Statuses == {"active", "retained", "cleaned"}
Item  == [key : Window, val : Statuses, close : BOOLEAN]
Event == [win : Window, rc : {0, 1}]
DSteps == {"load", "prepare", "persist", "send", "confirm", "retain", "wait", "poll", "late",
           "expire", "done"}
RSteps == {"idle", "emit", "finish", "close", "clean", "recheck"}

TypeInv ==
  /\ log \in Seq(Event)
  /\ target \in [Dispatcher -> Window]
  /\ dpc \in [Dispatcher -> DSteps]
  /\ cursor \in [Dispatcher -> Nat]
  /\ agent \in [Window -> {"none", "working", "gone"}]
  /\ rpc \in [Window -> RSteps]
  /\ rc \in [Window -> {0, 1}]
  /\ result \in [Dispatcher -> {"none", "ok", "bad", "failed", "timeout"}]

\* A window that was closed stays closed: an agent has run in it, so nobody
\* creates it again.
Away == {w \in Window : w \notin open /\ agent[w] # "none"}

\* A copy records as cleaned only windows of A, and has the wish to close a
\* window only from a dispatch that was to close it (B).
Honest(s, A, B) ==
  \A i \in 1 .. Len(s) :
    (s[i].val = "cleaned" => s[i].key \in A) /\ (s[i].close => s[i].key \in B)

\* A report past its first step has an agent, and has read a wish to close its
\* window only if there was one when it began; one that closes the window does
\* so for success and for such a wish, and holds an active record of it.
Reporting(w) ==
  /\ rpc[w] # "idle" => agent[w] # "none"
  /\ rpc[w] # "idle" =>
       \A i \in 1 .. Len(rsnap[w]) : rsnap[w][i].key = w /\ rsnap[w][i].close => w \in granted
  /\ rpc[w] \in {"close", "clean"} =>
       rc[w] = 0 /\ w \in granted /\ At(rsnap[w], w, "active") # {}
  /\ rpc[w] = "clean" => w \notin open

CloseInv ==
  /\ TypeInv
  /\ windows \in Seq(Item)
  /\ dsnap \in [Dispatcher -> Seq(Item)]
  /\ rsnap \in [Window -> Seq(Item)]
  /\ Honest(windows, Away, asked)
  /\ \A d \in Dispatcher : Honest(dsnap[d], Away, asked)
  /\ \A w \in Window : Honest(rsnap[w], Away, asked)
  /\ \A w \in Window : Reporting(w)

-----------------------------------------------------------------------------
(* The operators on dispatch_windows.                                      *)

LEMMA LastInFacts ==
  ASSUME NEW n \in Nat, NEW S \in SUBSET (1 .. n), S # {}
  PROVE  LastIn(S) \in S
<1> DEFINE T == {k \in Nat : k < n /\ n - k \in S}
<1>1. PICK i \in S : TRUE
  OBVIOUS
<1>2. n - i \in T
  BY <1>1
<1>3. PICK k \in T : \A m \in T : k <= m
  BY <1>2, LeastNumber
<1>4. n - k \in S /\ k \in Nat
  BY <1>3
<1>5. ASSUME NEW j \in S PROVE j <= n - k
  <2>1. j \in 1 .. n /\ n - j \in T
    OBVIOUS
  <2>2. k <= n - j
    BY <1>3, <2>1
  <2> QED BY <1>4, <2>1, <2>2
<1>6. \E x \in S : \A j \in S : j <= x
  BY <1>4, <1>5
<1> QED BY <1>6 DEF LastIn

LEMMA SettleFacts ==
  ASSUME NEW s \in Seq(Item), NEW S, NEW st \in Statuses
  PROVE  /\ Settle(s, S, st) \in Seq(Item)
         /\ Len(Settle(s, S, st)) = Len(s)
         /\ \A i \in 1 .. Len(s) :
              /\ Settle(s, S, st)[i].key = s[i].key
              /\ Settle(s, S, st)[i].close = s[i].close
              /\ i # LastIn(S) => Settle(s, S, st)[i] = s[i]
              /\ i = LastIn(S) => Settle(s, S, st)[i].val = st
<1> DEFINE n == LastIn(S)
           t == Settle(s, S, st)
           new == [s[n] EXCEPT !.val = st]
<1>1. t = [s EXCEPT ![n] = new]
  BY DEF Settle
<1>2. \A i \in 1 .. Len(s) : s[i] \in Item
  OBVIOUS
<1>3. n \in 1 .. Len(s) => /\ new \in Item /\ new.key = s[n].key /\ new.val = st
                          /\ new.close = s[n].close
  BY <1>2 DEF Item
<1> HIDE DEF n, t, new
<1>4. t \in Seq(Item) /\ Len(t) = Len(s)
  <2>1. CASE n \in 1 .. Len(s)
    BY <1>1, <1>3, <2>1
  <2>2. CASE n \notin 1 .. Len(s)
    <3>1. t = s
      BY <1>1, <2>2
    <3> QED BY <3>1
  <2> QED BY <2>1, <2>2
<1>5. \A i \in 1 .. Len(s) : t[i] = IF i = n THEN new ELSE s[i]
  BY <1>1
<1> QED BY <1>3, <1>4, <1>5 DEF n, t

LEMMA HonestSettle ==
  ASSUME NEW s \in Seq(Item), NEW S, NEW st \in Statuses, NEW A, NEW B, Honest(s, A, B),
         st = "cleaned" => \A i \in 1 .. Len(s) : i = LastIn(S) => s[i].key \in A
  PROVE  Settle(s, S, st) \in Seq(Item) /\ Honest(Settle(s, S, st), A, B)
<1>1. Settle(s, S, st) \in Seq(Item) /\ Len(Settle(s, S, st)) = Len(s)
  BY SettleFacts
<1>2. ASSUME NEW i \in 1 .. Len(s), Settle(s, S, st)[i].val = "cleaned"
      PROVE  Settle(s, S, st)[i].key \in A
  BY <1>2, SettleFacts DEF Honest
<1>3. ASSUME NEW i \in 1 .. Len(s), Settle(s, S, st)[i].close
      PROVE  Settle(s, S, st)[i].key \in B
  BY <1>3, SettleFacts DEF Honest
<1> QED BY <1>1, <1>2, <1>3 DEF Honest

LEMMA HonestRecorded ==
  ASSUME NEW s \in Seq(Item), NEW w \in Window, NEW close \in BOOLEAN, NEW A, NEW B,
         Honest(s, A, B), close => w \in B
  PROVE  Recorded(s, w, close) \in Seq(Item) /\ Honest(Recorded(s, w, close), A, B)
<1> DEFINE old == {i \in 1 .. Len(s) : s[i].key = w /\ s[i].val # "cleaned"}
           e == [key |-> w, val |-> "active", close |-> close]
           n == LastIn(old)
           t == Recorded(s, w, close)
<1>1. /\ e \in Item /\ e.val # "cleaned" /\ e.key = w
      /\ e.close => w \in B
  BY DEF Item, Statuses
<1>2. t = IF old # {} THEN [s EXCEPT ![n] = e] ELSE Append(s, e)
  BY DEF Recorded
<1> HIDE DEF e, old, n, t
<1>3. t \in Seq(Item) /\ \A i \in 1 .. Len(t) : t[i] = e \/ (i \in 1 .. Len(s) /\ t[i] = s[i])
  <2>1. CASE old # {}
    <3>1. t = [s EXCEPT ![n] = e] /\ e \in Item
      BY <1>1, <1>2, <2>1
    <3>2. t \in Seq(Item) /\ Len(t) = Len(s)
      <4>1. CASE n \in 1 .. Len(s)
        BY <3>1, <4>1
      <4>2. CASE n \notin 1 .. Len(s)
        <5>1. t = s
          BY <3>1, <4>2
        <5> QED BY <5>1
      <4> QED BY <4>1, <4>2
    <3>3. \A i \in 1 .. Len(s) : t[i] = e \/ t[i] = s[i]
      BY <3>1
    <3> QED BY <3>2, <3>3
  <2>2. CASE old = {}
    <3>1. /\ t = Append(s, e) /\ t \in Seq(Item)
          /\ Len(t) = Len(s) + 1 /\ Len(s) \in Nat
      BY <1>1, <1>2, <2>2
    <3>2. \A i \in 1 .. Len(s) + 1 : t[i] = IF i <= Len(s) THEN s[i] ELSE e
      BY <1>1, <3>1
    <3> QED BY <3>1, <3>2
  <2> QED BY <2>1, <2>2
<1>4. Honest(t, A, B)
  BY <1>1, <1>3 DEF Honest
<1> QED BY <1>3, <1>4 DEF t

LEMMA HonestMerged ==
  ASSUME NEW cur \in Seq(Item), NEW nxt \in Seq(Item), NEW A, NEW B,
         Honest(cur, A, B), Honest(nxt, A, B)
  PROVE  Merged(cur, nxt) \in Seq(Item) /\ Honest(Merged(cur, nxt), A, B)
<1> DEFINE m == Merged(cur, nxt)
<1>1. m \in Seq(Item)
  BY MergeTheorem
<1>2. \A i \in 1 .. Len(m) : \/ \E j \in 1 .. Len(cur) : m[i] = cur[j]
                             \/ \E j \in 1 .. Len(nxt) : m[i] = nxt[j]
  BY MergeTheorem
<1> QED BY <1>1, <1>2 DEF Honest

LEMMA HonestMore ==
  ASSUME NEW s, NEW A, NEW B, NEW C, NEW D, A \subseteq C, B \subseteq D, Honest(s, A, B)
  PROVE  Honest(s, C, D)
BY DEF Honest

-----------------------------------------------------------------------------
(* Windows are closed and recorded honestly.                               *)

LEMMA TypeStep ==
  ASSUME TypeInv, [Next]_vars
  PROVE  TypeInv'
<1> USE DEF DGoto, RGoto, End
<1>1. CASE UNCHANGED vars
  BY <1>1 DEF vars, dispatchVars, reportVars, TypeInv
<1>2. ASSUME NEW d \in Dispatcher, DStep(d) PROVE TypeInv'
  <2>1. CASE Load(d)
    BY <2>1 DEF Load, TypeInv, DSteps, reportVars
  <2>2. CASE Prepare(d)
    BY <2>2 DEF Prepare, TypeInv, DSteps, reportVars
  <2>3. CASE PersistWindow(d)
    BY <2>3 DEF PersistWindow, TypeInv, DSteps
  <2>4. CASE Send(d)
    BY <2>4 DEF Send, TypeInv, DSteps, reportVars
  <2>5. CASE Confirm(d)
    BY <2>5 DEF Confirm, TypeInv, DSteps, reportVars
  <2>6. CASE RetainOwn(d)
    BY <2>6 DEF RetainOwn, TypeInv, DSteps, reportVars
  <2>7. \A n : Outcome(n) \in {"ok", "bad"}
    BY DEF Outcome
  <2>8. StartCursor(d) \in Nat
    BY DEF StartCursor, TypeInv
  <2>9. CASE StartWait(d)
    BY <2>7, <2>8, <2>9 DEF StartWait, TypeInv, DSteps, reportVars
  <2>10. CASE Poll(d)
    BY <2>7, <2>10 DEF Poll, TypeInv, DSteps, reportVars
  <2>11. CASE Timeout(d)
    BY <2>11 DEF Timeout, TypeInv, DSteps, reportVars
  <2>12. CASE LoadLatest(d)
    BY <2>12 DEF LoadLatest, TypeInv, DSteps, reportVars
  <2>13. CASE RetainLatest(d)
    BY <2>13 DEF RetainLatest, TypeInv, DSteps, reportVars
  <2> QED BY <1>2, <2>1, <2>2, <2>3, <2>4, <2>5, <2>6, <2>9, <2>10, <2>11, <2>12, <2>13 DEF DStep
<1>3. ASSUME NEW w \in Window,
             (\E code \in {0, 1} : Report(w, code)) \/ RStep(w) \/ Gone(w) \/ Die(w)
      PROVE  TypeInv'
  <2>1. CASE \E code \in {0, 1} : Report(w, code)
    BY <2>1 DEF Report, TypeInv, RSteps, dispatchVars
  <2>2. CASE EmitCompleted(w)
    <3>1. [win |-> w, rc |-> rc[w]] \in Event
      BY DEF Event, TypeInv
    <3>2. log' = Append(log, [win |-> w, rc |-> rc[w]]) \/ log' = log
      BY <2>2 DEF EmitCompleted
    <3>3. log' \in Seq(Event)
      <4> DEFINE e == [win |-> w, rc |-> rc[w]]
      <4> HIDE DEF e
      <4>1. e \in Event /\ (log' = Append(log, e) \/ log' = log) /\ log \in Seq(Event)
        BY <3>1, <3>2 DEF e, TypeInv
      <4> QED BY <4>1
    <3> QED BY <2>2, <3>3 DEF EmitCompleted, TypeInv, RSteps, dispatchVars
  <2>3. CASE FinishWindow(w) \/ Close(w) \/ Recheck(w) \/ Clean(w)
    <3>1. UNCHANGED <<log, dispatchVars, agent, rc>>
      BY <2>3 DEF FinishWindow, Close, Recheck, Clean
    <3>2. \E t \in RSteps : rpc' = [rpc EXCEPT ![w] = t]
      BY <2>3 DEF FinishWindow, Close, Recheck, Clean, RSteps
    <3> QED BY <3>1, <3>2 DEF TypeInv, dispatchVars
  <2>4. CASE Gone(w) \/ Die(w)
    BY <2>4 DEF Gone, Die, TypeInv, RSteps, dispatchVars, reportVars
  <2> QED BY <1>3, <2>1, <2>2, <2>3, <2>4 DEF RStep
<1>4. CASE Quiet
  BY <1>1, <1>4 DEF Quiet
<1> QED BY <1>1, <1>2, <1>3, <1>4 DEF Next

\* An agent that has started never becomes none again, and a window that is
\* away stays so.
LEMMA AwayStep ==
  ASSUME TypeInv, [Next]_vars
  PROVE  /\ \A w \in Window : agent[w] # "none" => agent'[w] # "none"
         /\ Away \subseteq Away'
         /\ asked \subseteq asked' /\ granted \subseteq granted'
<1>1. agent \in [Window -> {"none", "working", "gone"}] /\ target \in [Dispatcher -> Window]
  BY DEF TypeInv
<1>2. UNCHANGED agent \/ \E w \in Window : agent' = [agent EXCEPT ![w] = "working"]
        \/ agent' = [agent EXCEPT ![w] = "gone"]
  <2>1. ASSUME NEW d \in Dispatcher, DStep(d)
        PROVE  UNCHANGED agent \/ agent' = [agent EXCEPT ![target[d]] = "working"]
    BY <2>1 DEF DStep, Load, Prepare, PersistWindow, Send, Confirm, RetainOwn, StartWait, Poll,
                Timeout, LoadLatest, RetainLatest
  <2>2. ASSUME NEW w \in Window,
               (\E code \in {0, 1} : Report(w, code)) \/ RStep(w) \/ Gone(w) \/ Die(w)
        PROVE  UNCHANGED agent \/ agent' = [agent EXCEPT ![w] = "gone"]
    BY <2>2 DEF Report, RStep, EmitCompleted, FinishWindow, Close, Recheck, Clean, Gone, Die
  <2>3. CASE UNCHANGED vars \/ Quiet
    BY <2>3 DEF Quiet, vars
  <2> QED BY <1>1, <2>1, <2>2, <2>3 DEF Next
<1>3. \A w \in Window : agent[w] # "none" => agent'[w] # "none"
  BY <1>1, <1>2
<1>4. \A w \in open' : w \in open \/ (w \in Window => agent[w] = "none")
  <2>1. ASSUME NEW d \in Dispatcher, DStep(d), NEW w \in open'
        PROVE  w \in open \/ (w \in Window => agent[w] = "none")
    <3>1. CASE Prepare(d)
      BY <2>1, <3>1 DEF Prepare, Ready
    <3>2. CASE UNCHANGED open
      BY <2>1, <3>2
    <3> QED BY <2>1, <3>1, <3>2 DEF DStep, Load, PersistWindow, Send, Confirm, RetainOwn,
               StartWait, Poll, Timeout, LoadLatest, RetainLatest
  <2>2. ASSUME NEW w \in Window,
               (\E code \in {0, 1} : Report(w, code)) \/ RStep(w) \/ Gone(w) \/ Die(w)
        PROVE  open' \subseteq open
    BY <2>2 DEF Report, RStep, EmitCompleted, FinishWindow, Close, Recheck, Clean, Gone, Die
  <2>3. CASE UNCHANGED vars \/ Quiet
    BY <2>3 DEF Quiet, vars
  <2> QED BY <2>1, <2>2, <2>3 DEF Next
<1>5. asked \subseteq asked' /\ granted \subseteq granted'
  BY DEF Next, DStep, RStep, Load, Prepare, PersistWindow, Send, Confirm, RetainOwn, StartWait,
         Poll, Timeout, LoadLatest, RetainLatest, Report, EmitCompleted, FinishWindow, Close,
         Recheck, Clean, Gone, Die, Quiet, vars, reportVars
<1> QED BY <1>3, <1>4, <1>5 DEF Away

\* What a step saves and copies is honest; the rest of the report's state is
\* settled by the action.
LEMMA Copied ==
  ASSUME CloseInv, TypeInv', Away \subseteq Away', asked \subseteq asked',
         windows' \in Seq(Item), Honest(windows', Away, asked'),
         \/ dsnap' = dsnap
         \/ \E d \in Dispatcher, s \in Seq(Item) :
              Honest(s, Away, asked') /\ dsnap' = [dsnap EXCEPT ![d] = s],
         \/ rsnap' = rsnap
         \/ \E w \in Window, s \in Seq(Item) :
              Honest(s, Away, asked') /\ rsnap' = [rsnap EXCEPT ![w] = s],
         \A w \in Window : Reporting(w)'
  PROVE  CloseInv'
<1>0. /\ \A d \in Dispatcher : Honest(dsnap[d], Away, asked')
      /\ \A w \in Window : Honest(rsnap[w], Away, asked')
  BY HonestMore DEF CloseInv
<1>1. /\ dsnap' \in [Dispatcher -> Seq(Item)]
      /\ \A d \in Dispatcher : Honest(dsnap'[d], Away, asked')
  BY <1>0 DEF CloseInv
<1>2. /\ rsnap' \in [Window -> Seq(Item)]
      /\ \A w \in Window : Honest(rsnap'[w], Away, asked')
  BY <1>0 DEF CloseInv
<1>3. Honest(windows', Away', asked')
  BY HonestMore
<1>4. \A d \in Dispatcher : Honest(dsnap'[d], Away', asked')
  BY <1>1, HonestMore
<1>5. \A w \in Window : Honest(rsnap'[w], Away', asked')
  BY <1>2, HonestMore
<1> QED BY <1>1, <1>2, <1>3, <1>4, <1>5 DEF CloseInv

LEMMA ReportingStays ==
  ASSUME CloseInv, Away \subseteq Away', granted \subseteq granted', NEW w \in Window,
         agent[w] # "none" => agent'[w] # "none",
         rpc'[w] = rpc[w], rc'[w] = rc[w], rsnap'[w] = rsnap[w]
  PROVE  Reporting(w)'
<1>1. Reporting(w)
  BY DEF CloseInv
<1>2. rpc[w] = "clean" => w \in Away
  BY <1>1 DEF Reporting, Away
<1>3. At(rsnap'[w], w, "active") = At(rsnap[w], w, "active")
  OBVIOUS
<1> QED BY <1>1, <1>2, <1>3 DEF Reporting, Away

\* The saves: from a copy of the command or of the report.
LEMMA SaveHonest ==
  ASSUME CloseInv, NEW s \in Seq(Item), Honest(s, Away, asked'), asked \subseteq asked', Save(s)
  PROVE  windows' \in Seq(Item) /\ Honest(windows', Away, asked')
<1>1. windows' = Merged(windows, s)
  BY DEF Save
<1>2. windows \in Seq(Item) /\ Honest(windows, Away, asked')
  BY HonestMore DEF CloseInv
<1> QED BY <1>1, <1>2, HonestMerged

LEMMA CloseStep ==
  ASSUME CloseInv, [Next]_vars
  PROVE  CloseInv'
<1> USE DEF DGoto, RGoto, End
<1>1. /\ TypeInv /\ TypeInv' /\ Away \subseteq Away'
      /\ asked \subseteq asked' /\ granted \subseteq granted'
      /\ \A w \in Window : agent[w] # "none" => agent'[w] # "none"
  BY TypeStep, AwayStep DEF CloseInv
<1>2. windows \in Seq(Item) /\ Honest(windows, Away, asked')
  BY <1>1, HonestMore DEF CloseInv
<1>3. "active" \in Statuses /\ "retained" \in Statuses /\ "cleaned" \in Statuses
  BY DEF Statuses
<1>4. ASSUME NEW s \in Seq(Item), Honest(s, Away, asked'), NEW S
      PROVE  Settle(s, S, "retained") \in Seq(Item) /\ Honest(Settle(s, S, "retained"), Away, asked')
  BY <1>3, <1>4, HonestSettle
<1>5. CASE UNCHANGED vars \/ Quiet
  <2>1. UNCHANGED <<windows, dsnap, rpc, rc, rsnap, agent>>
    BY <1>5 DEF Quiet, vars, dispatchVars, reportVars
  <2>2. \A w \in Window : Reporting(w)'
    BY <1>1, <2>1, ReportingStays
  <2> QED BY <1>1, <1>2, <2>1, <2>2, Copied
<1>6. ASSUME NEW d \in Dispatcher, DStep(d) PROVE CloseInv'
  <2>1. UNCHANGED <<rpc, rsnap, rc>>
    BY <1>6 DEF DStep, Load, Prepare, PersistWindow, Send, Confirm, RetainOwn, StartWait, Poll,
                Timeout, LoadLatest, RetainLatest, reportVars
  <2>2. \A w \in Window : Reporting(w)'
    BY <1>1, <2>1, ReportingStays
  <2>3. dsnap[d] \in Seq(Item) /\ Honest(dsnap[d], Away, asked') /\ target[d] \in Window
    BY <1>1, HonestMore DEF CloseInv, TypeInv
  <2>4. CASE UNCHANGED windows /\ UNCHANGED dsnap
    BY <1>1, <1>2, <2>1, <2>2, <2>4, Copied
  <2>5. CASE UNCHANGED windows /\ dsnap' = [dsnap EXCEPT ![d] = windows]
    BY <1>1, <1>2, <2>1, <2>2, <2>5, Copied
  <2>6. CASE PersistWindow(d)
    <3> DEFINE flag == d \in closing
               next == Recorded(dsnap[d], target[d], flag)
    <3>1. CASE UNCHANGED windows /\ UNCHANGED dsnap
      BY <2>4, <3>1
    <3>2. CASE /\ Save(next) /\ dsnap' = [dsnap EXCEPT ![d] = Merged(windows, next)]
               /\ asked' = asked \cup (IF d \in closing THEN {target[d]} ELSE {})
      <4>1. next \in Seq(Item) /\ Honest(next, Away, asked')
        <5>1. flag \in BOOLEAN /\ (flag => target[d] \in asked')
          BY <3>2
        <5> HIDE DEF flag
        <5> QED BY <2>3, <5>1, HonestRecorded
      <4> HIDE DEF next
      <4>2. Merged(windows, next) \in Seq(Item) /\ Honest(Merged(windows, next), Away, asked')
        BY <1>2, <4>1, HonestMerged
      <4>3. windows' = Merged(windows, next)
        BY <3>2 DEF Save
      <4> QED BY <1>1, <2>1, <2>2, <3>2, <4>2, <4>3, Copied
    <3> QED BY <2>6, <3>1, <3>2 DEF PersistWindow
  <2>7. CASE RetainOwn(d)
    <3> DEFINE s == Settle(dsnap[d], At(dsnap[d], target[d], "active"), "retained")
    <3>1. s \in Seq(Item) /\ Honest(s, Away, asked')
      BY <1>4, <2>3
    <3>2. Save(s) /\ UNCHANGED dsnap
      BY <2>7 DEF RetainOwn
    <3> HIDE DEF s
    <3> QED BY <1>1, <2>1, <2>2, <3>1, <3>2, SaveHonest, Copied
  <2>8. CASE RetainLatest(d)
    <3> DEFINE s == Settle(dsnap[d], Active(dsnap[d]), "retained")
    <3>1. s \in Seq(Item) /\ Honest(s, Away, asked')
      BY <1>4, <2>3
    <3>2. (Save(s) \/ UNCHANGED windows) /\ UNCHANGED dsnap
      BY <2>8 DEF RetainLatest
    <3> HIDE DEF s
    <3> QED BY <1>1, <2>1, <2>2, <2>4, <3>1, <3>2, SaveHonest, Copied
  <2>9. CASE Load(d) \/ LoadLatest(d)
    BY <2>5, <2>9 DEF Load, LoadLatest
  <2>10. CASE Prepare(d) \/ Send(d) \/ Confirm(d) \/ StartWait(d) \/ Poll(d) \/ Timeout(d)
    BY <2>4, <2>10 DEF Prepare, Send, Confirm, StartWait, Poll, Timeout
  <2> QED BY <1>6, <2>6, <2>7, <2>8, <2>9, <2>10 DEF DStep
<1>7. ASSUME NEW w \in Window,
             (\E code \in {0, 1} : Report(w, code)) \/ RStep(w) \/ Gone(w) \/ Die(w)
      PROVE  CloseInv'
  <2>1. UNCHANGED dsnap
    BY <1>7 DEF Report, RStep, EmitCompleted, FinishWindow, Close, Recheck, Clean, Gone, Die,
                dispatchVars
  <2>2. rsnap[w] \in Seq(Item) /\ Honest(rsnap[w], Away, asked') /\ Reporting(w)
    BY <1>1, HonestMore DEF CloseInv
  <2>3. rpc \in [Window -> RSteps] /\ rsnap \in [Window -> Seq(Item)] /\ rc \in [Window -> {0, 1}]
    BY <1>1 DEF CloseInv, TypeInv
  <2>4. ASSUME \/ UNCHANGED <<rpc, rc, rsnap>>
               \/ \E t : rpc' = [rpc EXCEPT ![w] = t] /\ UNCHANGED <<rc, rsnap>>
               \/ \E code : Report(w, code),
               Reporting(w)'
        PROVE  \A v \in Window : Reporting(v)'
    <3>1. ASSUME NEW v \in Window, v # w PROVE Reporting(v)'
      <4>1. rpc'[v] = rpc[v] /\ rc'[v] = rc[v] /\ rsnap'[v] = rsnap[v]
        BY <2>3, <2>4, <3>1 DEF Report
      <4> QED BY <1>1, <4>1, ReportingStays
    <3> QED BY <2>4, <3>1
  <2>5. ASSUME NEW t \in RSteps, rpc' = [rpc EXCEPT ![w] = t], UNCHANGED <<rc, rsnap>>,
               t # "idle" => rpc[w] # "idle",
               t \in {"close", "clean"} =>
                 rc[w] = 0 /\ w \in granted /\ At(rsnap[w], w, "active") # {},
               t = "clean" => w \notin open',
               windows' \in Seq(Item), Honest(windows', Away, asked')
        PROVE  CloseInv'
    <3>1. rpc'[w] = t
      BY <2>3, <2>5
    <3>2. agent[w] # "none" => agent'[w] # "none"
      BY <1>1
    <3>3. t # "idle" => agent'[w] # "none"
      BY <2>2, <2>5, <3>2 DEF Reporting
    <3>4. t # "idle" =>
            \A i \in 1 .. Len(rsnap[w]) :
              rsnap[w][i].key = w /\ rsnap[w][i].close => w \in granted'
      BY <1>1, <2>2, <2>5 DEF Reporting
    <3>5. Reporting(w)'
      BY <1>1, <2>5, <3>1, <3>3, <3>4 DEF Reporting
    <3> QED BY <1>1, <2>1, <2>4, <2>5, <3>5, Copied
  <2>6. CASE \E code \in {0, 1} : Report(w, code)
    <3>1. /\ rsnap' = [rsnap EXCEPT ![w] = windows] /\ UNCHANGED <<windows, agent, asked>>
          /\ agent[w] = "working" /\ rpc' = [rpc EXCEPT ![w] = "emit"]
          /\ granted' = granted \cup (asked \cap {w})
      BY <2>6 DEF Report
    <3>2. rpc'[w] = "emit" /\ agent'[w] = "working" /\ rsnap'[w] = windows
      BY <2>3, <3>1
    <3>3. \A i \in 1 .. Len(windows) : windows[i].key = w /\ windows[i].close => w \in granted'
      BY <1>2, <3>1 DEF Honest
    <3>4. Reporting(w)'
      BY <3>2, <3>3 DEF Reporting
    <3> QED BY <1>1, <1>2, <2>1, <2>4, <2>6, <3>1, <3>4, Copied
  <2>7. CASE EmitCompleted(w)
    <3>1. /\ UNCHANGED <<windows, rsnap, rc>> /\ rpc[w] = "emit"
          /\ rpc' = [rpc EXCEPT ![w] = "finish"]
      BY <2>7 DEF EmitCompleted
    <3> QED BY <1>2, <2>5, <3>1 DEF RSteps
  <2>8. CASE FinishWindow(w)
    <3> DEFINE mine == At(rsnap[w], w, "active")
               s == Settle(rsnap[w], mine, "retained")
    <3>1. UNCHANGED <<rsnap, rc>> /\ rpc[w] = "finish"
      BY <2>8 DEF FinishWindow
    <3>2. s \in Seq(Item) /\ Honest(s, Away, asked')
      BY <1>4, <2>2
    <3>3. \/ Save(s) /\ rpc' = [rpc EXCEPT ![w] = "idle"]
          \/ UNCHANGED windows /\ \E t \in {"idle", "recheck"} : rpc' = [rpc EXCEPT ![w] = t]
          \/ /\ UNCHANGED windows /\ mine # {} /\ ~ Keeps(w, mine)
             /\ rpc' = [rpc EXCEPT ![w] = "close"]
      BY <2>8 DEF FinishWindow
    <3> HIDE DEF s
    <3>7. ASSUME mine # {}, ~ Keeps(w, mine) PROVE rc[w] = 0 /\ w \in granted
      <4>1. rc[w] = 0 /\ rsnap[w][LastIn(mine)].close
        BY <3>7, <2>3 DEF Keeps
      <4>2. LastIn(mine) \in mine
        <5>1. Len(rsnap[w]) \in Nat /\ mine \in SUBSET (1 .. Len(rsnap[w]))
          BY <2>2 DEF At
        <5> QED BY <3>7, <5>1, LastInFacts
      <4>3. LastIn(mine) \in 1 .. Len(rsnap[w]) /\ rsnap[w][LastIn(mine)].key = w
        BY <4>2 DEF At
      <4> QED BY <2>2, <3>1, <4>1, <4>3 DEF Reporting
    <3>4. CASE Save(s) /\ rpc' = [rpc EXCEPT ![w] = "idle"]
      BY <1>1, <2>5, <3>1, <3>2, <3>4, SaveHonest DEF RSteps
    <3>5. CASE UNCHANGED windows /\ \E t \in {"idle", "recheck"} : rpc' = [rpc EXCEPT ![w] = t]
      BY <1>2, <2>5, <3>1, <3>5 DEF RSteps
    <3>6. CASE /\ UNCHANGED windows /\ mine # {} /\ ~ Keeps(w, mine)
               /\ rpc' = [rpc EXCEPT ![w] = "close"]
      BY <1>2, <2>5, <3>1, <3>6, <3>7 DEF RSteps
    <3> QED BY <3>3, <3>4, <3>5, <3>6
  <2>9. CASE Close(w)
    <3> DEFINE mine == At(rsnap[w], w, "active")
               s == Settle(rsnap[w], mine, "retained")
    <3>1. UNCHANGED <<rsnap, rc>> /\ rpc[w] = "close"
      BY <2>9 DEF Close
    <3>2. s \in Seq(Item) /\ Honest(s, Away, asked')
      BY <1>4, <2>2
    <3>3. \/ UNCHANGED windows /\ open' = open \ {w} /\ rpc' = [rpc EXCEPT ![w] = "clean"]
          \/ (Save(s) \/ UNCHANGED windows) /\ rpc' = [rpc EXCEPT ![w] = "recheck"]
      BY <2>9 DEF Close
    <3>4. rc[w] = 0 /\ w \in granted /\ mine # {}
      BY <2>2, <3>1 DEF Reporting
    <3> HIDE DEF s
    <3>5. CASE UNCHANGED windows /\ open' = open \ {w} /\ rpc' = [rpc EXCEPT ![w] = "clean"]
      BY <1>2, <2>5, <3>1, <3>4, <3>5 DEF RSteps
    <3>6. CASE (Save(s) \/ UNCHANGED windows) /\ rpc' = [rpc EXCEPT ![w] = "recheck"]
      BY <1>1, <1>2, <2>5, <3>1, <3>2, <3>6, SaveHonest DEF RSteps
    <3> QED BY <3>3, <3>5, <3>6
  <2>10. CASE Recheck(w)
    <3> DEFINE s == Settle(windows, At(windows, w, "active"), "retained")
    <3>1. s \in Seq(Item) /\ Honest(s, Away, asked')
      BY <1>2, <1>4
    <3>2. /\ UNCHANGED <<rsnap, rc>> /\ rpc' = [rpc EXCEPT ![w] = "idle"]
          /\ Save(s) \/ UNCHANGED windows
      BY <2>10 DEF Recheck
    <3> HIDE DEF s
    <3> QED BY <1>1, <1>2, <2>5, <3>1, <3>2, SaveHonest DEF RSteps
  <2>11. CASE Clean(w)
    <3> DEFINE mine == At(rsnap[w], w, "active")
               s == Settle(rsnap[w], mine, "cleaned")
    <3>1. UNCHANGED <<rsnap, rc>> /\ rpc[w] = "clean"
      BY <2>11 DEF Clean
    <3>2. \/ Save(s) /\ rpc' = [rpc EXCEPT ![w] = "idle"]
          \/ UNCHANGED windows /\ rpc' = [rpc EXCEPT ![w] = "recheck"]
      BY <2>11 DEF Clean
    <3>3. w \in Away /\ mine # {}
      BY <2>2, <3>1 DEF Reporting, Away
    <3>4. LastIn(mine) \in mine
      <4>1. Len(rsnap[w]) \in Nat /\ mine \in SUBSET (1 .. Len(rsnap[w]))
        BY <2>2 DEF At
      <4> QED BY <3>3, <4>1, LastInFacts
    <3>5. \A i \in 1 .. Len(rsnap[w]) : i = LastIn(mine) => rsnap[w][i].key \in Away
      BY <3>3, <3>4 DEF At
    <3>6. s \in Seq(Item) /\ Honest(s, Away, asked')
      <4> HIDE DEF mine
      <4> QED BY <1>3, <2>2, <3>5, HonestSettle
    <3> HIDE DEF s
    <3> QED BY <1>1, <1>2, <2>5, <3>1, <3>2, <3>6, SaveHonest DEF RSteps
  <2>12. CASE Gone(w)
    <3>1. UNCHANGED <<windows, rpc, rc, rsnap>>
      BY <2>12 DEF Gone, reportVars
    <3>2. \A v \in Window : Reporting(v)'
      BY <1>1, <3>1, ReportingStays
    <3> QED BY <1>1, <1>2, <2>1, <3>1, <3>2, Copied
  <2>13. CASE Die(w)
    <3>1. UNCHANGED <<windows, rsnap, rc>> /\ rpc' = [rpc EXCEPT ![w] = "idle"]
      BY <2>13 DEF Die
    <3> QED BY <1>2, <2>5, <3>1 DEF RSteps
  <2> QED BY <1>7, <2>6, <2>7, <2>8, <2>9, <2>10, <2>11, <2>12, <2>13 DEF RStep
<1> QED BY <1>5, <1>6, <1>7 DEF Next

LEMMA TypeInit == Init => TypeInv
BY DEF Init, TypeInv, DSteps, RSteps

LEMMA CloseInit == Init => CloseInv
<1> SUFFICES ASSUME Init PROVE CloseInv
  OBVIOUS
<1>1. /\ windows = << >> /\ asked = {} /\ dsnap = [d \in Dispatcher |-> << >>]
      /\ rsnap = [w \in Window |-> << >>] /\ rpc = [w \in Window |-> "idle"]
  BY DEF Init
<1>2. \A A, B : Honest(<< >>, A, B)
  BY DEF Honest
<1>3. << >> \in Seq(Item)
  OBVIOUS
<1>4. \A w \in Window : Reporting(w)
  BY <1>1 DEF Reporting
<1>5. /\ \A d \in Dispatcher : Honest(dsnap[d], Away, asked)
      /\ \A w \in Window : Honest(rsnap[w], Away, asked)
  BY <1>1, <1>2
<1> QED BY <1>1, <1>2, <1>3, <1>4, <1>5, TypeInit DEF CloseInv

\* Only Close removes a window.
LEMMA CloseOnly ==
  ASSUME CloseInv, [Next]_vars, NEW w \in open \ open'
  PROVE  rpc[w] = "close" /\ rc[w] = 0 /\ w \in granted
<1>1. \E v \in Window : Close(v) /\ v = w
  <2>1. ASSUME NEW d \in Dispatcher, DStep(d) PROVE FALSE
    <3>1. open \subseteq open'
      BY <2>1 DEF DStep, Load, Prepare, PersistWindow, Send, Confirm, RetainOwn, StartWait, Poll,
                  Timeout, LoadLatest, RetainLatest
    <3> QED BY <3>1
  <2>2. ASSUME NEW v \in Window,
               (\E code \in {0, 1} : Report(v, code)) \/ RStep(v) \/ Gone(v) \/ Die(v)
        PROVE  Close(v) /\ v = w
    <3>1. UNCHANGED open \/ (Close(v) /\ open' = open \ {v})
      BY <2>2 DEF Report, RStep, EmitCompleted, FinishWindow, Close, Recheck, Clean, Gone, Die
    <3> QED BY <3>1
  <2>3. ~(UNCHANGED vars \/ Quiet)
    BY DEF Quiet, vars
  <2> QED BY <2>1, <2>2, <2>3 DEF Next
<1>2. w \in Window /\ rpc[w] = "close"
  BY <1>1 DEF Close
<1>3. Reporting(w)
  BY <1>2 DEF CloseInv
<1> QED BY <1>2, <1>3 DEF Reporting

\* A window is closed only for a report of success from it that began after a
\* dispatch with --close-window had recorded the window, and is recorded as
\* cleaned only when it is closed: for any dispatches with and without the
\* option into any windows, with saves, events and reports that fail or not.
THEOREM CloseTheorem == Spec => ClosedOnSuccess
<1>1. CloseInv /\ [Next]_vars => CloseInv'
  BY CloseStep
<1>2. CloseInv /\ [Next]_vars =>
        [\A w \in open \ open' : rpc[w] = "close" /\ rc[w] = 0 /\ w \in granted]_vars
  BY CloseOnly
<1>3. CloseInv => \A w \in Window : Status(windows, w) = "cleaned" => w \notin open
  <2> SUFFICES ASSUME CloseInv, NEW w \in Window, Status(windows, w) = "cleaned"
               PROVE  w \notin open
    OBVIOUS
  <2>1. windows \in Seq(Item) /\ Honest(windows, Away, asked)
    BY DEF CloseInv
  <2>2. w \in Keys(windows) /\ LastOf(windows, w).val = "cleaned"
    BY DEF Status
  <2>3. PICK i \in 1 .. Len(windows) : LastOf(windows, w) = windows[i] /\ windows[i].key = w
    BY <2>1, <2>2, LastOfFacts
  <2> QED BY <2>1, <2>2, <2>3 DEF Honest, Away
<1> QED BY CloseInit, <1>1, <1>2, <1>3, PTL DEF Spec, ClosedOnSuccess

-----------------------------------------------------------------------------
(* The outcome that a wait prints.                                         *)

Early == {"load", "prepare", "persist", "send"}
Delivered(w) == \E e \in Dispatcher : w = target[e] /\ dpc[e] \notin Early
Sole(d) == \A e \in Dispatcher \ {d} : target[e] # target[d]

\* What d has read of the log: its cursor is within the log, before it there is
\* nothing of a window that is d's alone, and behind it is the event that d
\* ended with.
Waited(d) ==
  /\ cursor[d] <= Len(log)
  /\ d \in byHand /\ Sole(d) => \A i \in 1 .. cursor[d] : log[i].win # target[d]
  /\ result[d] \in {"ok", "bad"} =>
       /\ dpc[d] = "done" /\ cursor[d] < Len(log)
       /\ log[cursor[d] + 1].rc = 0 <=> result[d] = "ok"

\* Only a window that something was sent to has an agent and reports.
ResultInv ==
  /\ TypeInv
  /\ \A w \in Window : rpc[w] # "idle" => agent[w] # "none"
  /\ \A w \in Window : agent[w] # "none" => Delivered(w)
  /\ \A i \in 1 .. Len(log) : Delivered(log[i].win)
  /\ \A d \in Dispatcher : Waited(d)

LEMMA ResultInit == Init => ResultInv
<1> SUFFICES ASSUME Init PROVE ResultInv
  OBVIOUS
<1>1. TypeInv /\ log = << >> /\ \A d \in Dispatcher : cursor[d] = 0 /\ result[d] = "none"
  BY TypeInit DEF Init
<1>2. \A d \in Dispatcher : Waited(d)
  BY <1>1 DEF Waited
<1>3. \A w \in Window : rpc[w] = "idle" /\ agent[w] = "none"
  BY DEF Init
<1> QED BY <1>1, <1>2, <1>3 DEF ResultInv

\* A step of dispatcher d: what was sent stays sent, the others wait as before.
LEMMA ResultTurn ==
  ASSUME ResultInv, TypeInv', NEW d \in Dispatcher, NEW t \in DSteps,
         dpc' = [dpc EXCEPT ![d] = t], dpc[d] \notin Early => t \notin Early,
         UNCHANGED <<log, byHand, target, rpc>>,
         \/ agent' = agent
         \/ agent' = [agent EXCEPT ![target[d]] = "working"] /\ t \notin Early,
         NEW c \in Nat, cursor' = [cursor EXCEPT ![d] = c],
         NEW r, result' = [result EXCEPT ![d] = r],
         c <= Len(log),
         d \in byHand /\ Sole(d) => \A i \in 1 .. c : log[i].win # target[d],
         r \in {"ok", "bad"} => t = "done" /\ c < Len(log) /\ (log[c + 1].rc = 0 <=> r = "ok")
  PROVE  ResultInv'
<1>1. /\ dpc \in [Dispatcher -> DSteps] /\ cursor \in [Dispatcher -> Nat]
      /\ agent \in [Window -> {"none", "working", "gone"}]
      /\ result \in [Dispatcher -> {"none", "ok", "bad", "failed", "timeout"}]
  BY DEF ResultInv, TypeInv
<1>2. \A e \in Dispatcher : dpc'[e] = (IF e = d THEN t ELSE dpc[e])
        /\ cursor'[e] = (IF e = d THEN c ELSE cursor[e]) /\ result'[e] = (IF e = d THEN r ELSE result[e])
  BY <1>1
<1>3. \A w : Delivered(w) => Delivered(w)'
  BY <1>2 DEF Delivered
<1>4. t \notin Early => Delivered(target[d])'
  BY <1>2 DEF Delivered
<1>5. \A w \in Window : agent'[w] # "none" => Delivered(w)'
  BY <1>1, <1>3, <1>4 DEF ResultInv
<1>6. \A w \in Window : rpc'[w] # "idle" => agent'[w] # "none"
  BY <1>1 DEF ResultInv
<1>7. \A i \in 1 .. Len(log') : Delivered(log[i].win)
  BY DEF ResultInv
<1>8. \A i \in 1 .. Len(log') : Delivered(log[i].win)'
  BY <1>2, <1>7 DEF Delivered
<1>9. ASSUME NEW e \in Dispatcher PROVE Waited(e)'
  <2>1. CASE e = d
    BY <1>2, <2>1 DEF Waited, Sole
  <2>2. CASE e # d
    <3>1. Waited(e) /\ dpc'[e] = dpc[e] /\ cursor'[e] = cursor[e] /\ result'[e] = result[e]
      BY <1>2, <2>2 DEF ResultInv
    <3> QED BY <3>1 DEF Waited, Sole
  <2> QED BY <2>1, <2>2
<1> QED BY <1>5, <1>6, <1>8, <1>9 DEF ResultInv

LEMMA ResultStep ==
  ASSUME ResultInv, [Next]_vars
  PROVE  ResultInv'
<1> USE DEF DGoto, RGoto, End
<1>1. TypeInv /\ TypeInv'
  BY TypeStep DEF ResultInv
<1>2. /\ log \in Seq(Event) /\ Len(log) \in Nat /\ dpc \in [Dispatcher -> DSteps]
      /\ cursor \in [Dispatcher -> Nat] /\ agent \in [Window -> {"none", "working", "gone"}]
      /\ rpc \in [Window -> RSteps]
      /\ result \in [Dispatcher -> {"none", "ok", "bad", "failed", "timeout"}]
  BY <1>1 DEF TypeInv
<1>3. CASE UNCHANGED vars \/ Quiet
  <2>1. UNCHANGED <<log, byHand, target, dpc, cursor, result, agent, rpc>>
    BY <1>3 DEF Quiet, vars, dispatchVars, reportVars
  <2>2. \A d \in Dispatcher : Waited(d)'
    BY <2>1 DEF ResultInv, Waited, Sole
  <2> QED BY <1>1, <2>1, <2>2 DEF ResultInv, Delivered
<1>4. ASSUME NEW d \in Dispatcher, DStep(d) PROVE ResultInv'
  <2>1. /\ Waited(d) /\ cursor[d] \in Nat /\ dpc[d] \in DSteps
        /\ dpc = [dpc EXCEPT ![d] = dpc[d]] /\ cursor = [cursor EXCEPT ![d] = cursor[d]]
        /\ result = [result EXCEPT ![d] = result[d]]
    BY <1>2 DEF ResultInv
  <2>2. UNCHANGED <<byHand, target, log, rpc>>
    BY <1>4 DEF DStep, Load, Prepare, PersistWindow, Send, Confirm, RetainOwn, StartWait, Poll,
                Timeout, LoadLatest, RetainLatest, reportVars
  <2>3. dpc[d] # "done" => result[d] \notin {"ok", "bad"}
    BY <2>1 DEF Waited
  <2>4. d \in byHand /\ Sole(d) => \A i \in 1 .. cursor[d] : log[i].win # target[d]
    BY <2>1 DEF Waited
  <2>5. CASE Load(d)
    <3>1. /\ dpc[d] = "load" /\ dpc' = [dpc EXCEPT ![d] = "prepare"] /\ UNCHANGED <<agent, result>>
          /\ cursor' = [cursor EXCEPT ![d] = Len(log)]
      BY <2>5 DEF Load
    <3>2. ASSUME Sole(d), NEW i \in 1 .. Len(log), log[i].win = target[d] PROVE FALSE
      <4>1. PICK e \in Dispatcher : target[d] = target[e] /\ dpc[e] \notin Early
        BY <3>2 DEF ResultInv, Delivered
      <4> QED BY <3>1, <3>2, <4>1 DEF Sole, Early
    <3>3. "prepare" \in DSteps /\ (dpc[d] \notin Early => "prepare" \notin Early)
      BY <3>1 DEF DSteps, Early
    <3>4. d \in byHand /\ Sole(d) => \A i \in 1 .. Len(log) : log[i].win # target[d]
      BY <3>2
    <3>5. result[d] \notin {"ok", "bad"} /\ Len(log) <= Len(log)
      BY <1>2, <2>3, <3>1
    <3> QED BY <1>1, <1>2, <2>1, <2>2, <3>1, <3>3, <3>4, <3>5, ResultTurn
  <2>6. CASE Prepare(d) \/ PersistWindow(d)
    <3>1. /\ dpc[d] \in {"prepare", "persist"} /\ UNCHANGED <<agent, cursor>>
          /\ \E t \in {"persist", "send", "done"} : dpc' = [dpc EXCEPT ![d] = t]
          /\ result' = result \/ result' = [result EXCEPT ![d] = "failed"]
      BY <2>6 DEF Prepare, PersistWindow
    <3>2. PICK t \in {"persist", "send", "done"} : dpc' = [dpc EXCEPT ![d] = t]
      BY <3>1
    <3>3. PICK r \in {result[d], "failed"} : result' = [result EXCEPT ![d] = r]
      BY <2>1, <3>1
    <3>4. t \in DSteps /\ dpc[d] \in Early /\ r \notin {"ok", "bad"}
      BY <2>3, <3>1, <3>2, <3>3 DEF DSteps, Early
    <3> QED BY <1>1, <2>1, <2>2, <2>4, <3>1, <3>2, <3>3, <3>4, ResultTurn DEF Waited
  <2>7. CASE Send(d)
    <3>1. /\ dpc[d] = "send" /\ UNCHANGED <<cursor, result>>
          /\ agent' = agent \/ agent' = [agent EXCEPT ![target[d]] = "working"]
          /\ \E t \in {"confirm", "retain"} : dpc' = [dpc EXCEPT ![d] = t]
      BY <2>7 DEF Send
    <3>2. PICK t \in {"confirm", "retain"} : dpc' = [dpc EXCEPT ![d] = t]
      BY <3>1
    <3>3. t \in DSteps /\ t \notin Early /\ result[d] \notin {"ok", "bad"}
      BY <2>3, <3>1, <3>2 DEF DSteps, Early
    <3> QED BY <1>1, <2>1, <2>2, <2>4, <3>1, <3>2, <3>3, ResultTurn DEF Waited
  <2>8. CASE Confirm(d) \/ RetainOwn(d) \/ Timeout(d) \/ LoadLatest(d)
    <3>1. /\ dpc[d] \in {"confirm", "retain", "poll", "late"} /\ UNCHANGED <<agent, cursor>>
          /\ \E t \in {"wait", "retain", "late", "expire", "done"} : dpc' = [dpc EXCEPT ![d] = t]
          /\ result' = result \/ \E r \in {"failed", "timeout"} : result' = [result EXCEPT ![d] = r]
      BY <2>8 DEF Confirm, RetainOwn, Timeout, LoadLatest
    <3>2. PICK t \in {"wait", "retain", "late", "expire", "done"} : dpc' = [dpc EXCEPT ![d] = t]
      BY <3>1
    <3>3. PICK r \in {result[d], "failed", "timeout"} : result' = [result EXCEPT ![d] = r]
      BY <2>1, <3>1
    <3>4. t \in DSteps /\ t \notin Early /\ r \notin {"ok", "bad"}
      BY <2>3, <3>1, <3>2, <3>3 DEF DSteps, Early
    <3> QED BY <1>1, <2>1, <2>2, <2>4, <3>1, <3>2, <3>3, <3>4, ResultTurn DEF Waited
  <2>9. CASE RetainLatest(d)
    <3>1. /\ dpc[d] = "expire" /\ UNCHANGED <<agent, cursor, result>>
          /\ dpc' = [dpc EXCEPT ![d] = "done"]
      BY <2>9 DEF RetainLatest
    <3>2. "done" \in DSteps /\ "done" \notin Early /\ result[d] \notin {"ok", "bad"}
      BY <2>3, <3>1 DEF DSteps, Early
    <3> QED BY <1>1, <2>1, <2>2, <2>4, <3>1, <3>2, ResultTurn DEF Waited
  <2>10. CASE StartWait(d) \/ Poll(d)
    <3> DEFINE c == IF dpc[d] = "wait" THEN StartCursor(d) ELSE cursor[d]
    <3>1. UNCHANGED agent /\ dpc[d] \in {"wait", "poll"} /\ cursor' = [cursor EXCEPT ![d] = c]
      BY <2>1, <2>10 DEF StartWait, Poll
    <3>2. /\ c \in Nat /\ c <= Len(log)
          /\ d \in byHand /\ Sole(d) => \A i \in 1 .. c : log[i].win # target[d]
      BY <1>2, <2>1 DEF StartCursor, Waited
    <3>3. \/ /\ Seen(c) /\ dpc' = [dpc EXCEPT ![d] = "done"]
             /\ result' = [result EXCEPT ![d] = Outcome(c)]
          \/ result' = result /\ \E t \in {"poll", "late"} : dpc' = [dpc EXCEPT ![d] = t]
      BY <2>10 DEF StartWait, Poll
    <3> HIDE DEF c
    <3>4. CASE /\ Seen(c) /\ dpc' = [dpc EXCEPT ![d] = "done"]
               /\ result' = [result EXCEPT ![d] = Outcome(c)]
      <4>1. c < Len(log)
        BY <1>2, <3>2, <3>4 DEF Seen
      <4>2. log[c + 1].rc = 0 <=> Outcome(c) = "ok"
        BY DEF Outcome
      <4>3. "done" \in DSteps /\ "done" \notin Early
        BY DEF DSteps, Early
      <4> QED BY <1>1, <2>2, <3>1, <3>2, <3>4, <4>1, <4>2, <4>3, ResultTurn
    <3>5. CASE result' = result /\ \E t \in {"poll", "late"} : dpc' = [dpc EXCEPT ![d] = t]
      <4>1. PICK t \in {"poll", "late"} : dpc' = [dpc EXCEPT ![d] = t]
        BY <3>5
      <4>2. t \in DSteps /\ t \notin Early /\ result[d] \notin {"ok", "bad"}
        BY <2>3, <3>1, <4>1 DEF DSteps, Early
      <4> QED BY <1>1, <2>1, <2>2, <3>1, <3>2, <3>5, <4>1, <4>2, ResultTurn
    <3> QED BY <3>3, <3>4, <3>5
  <2> QED BY <1>4, <2>5, <2>6, <2>7, <2>8, <2>9, <2>10 DEF DStep
<1>5. ASSUME NEW w \in Window,
             (\E code \in {0, 1} : Report(w, code)) \/ RStep(w) \/ Gone(w) \/ Die(w)
      PROVE  ResultInv'
  <2>1. UNCHANGED <<byHand, target, dpc, cursor, result>>
    BY <1>5 DEF Report, RStep, EmitCompleted, FinishWindow, Close, Recheck, Clean, Gone, Die,
                dispatchVars
  <2>2. agent[w] # "none" /\ Delivered(w)
    <3>1. agent[w] = "working" \/ rpc[w] # "idle"
      BY <1>5 DEF Report, RStep, EmitCompleted, FinishWindow, Close, Recheck, Clean, Gone, Die
    <3> QED BY <3>1 DEF ResultInv
  <2>3. \A v : Delivered(v) <=> Delivered(v)'
    BY <2>1 DEF Delivered
  <2>4. agent' = agent \/ agent' = [agent EXCEPT ![w] = "gone"]
    BY <1>5 DEF Report, RStep, EmitCompleted, FinishWindow, Close, Recheck, Clean, Gone, Die
  <2>5. \A v \in Window : agent'[v] # "none" => Delivered(v)'
    BY <1>2, <2>2, <2>3, <2>4 DEF ResultInv
  <2>6. \A v \in Window : rpc'[v] # "idle" => agent'[v] # "none"
    <3>1. rpc' = rpc \/ \E t : rpc' = [rpc EXCEPT ![w] = t]
      BY <1>5 DEF Report, RStep, EmitCompleted, FinishWindow, Close, Recheck, Clean, Gone, Die,
                  reportVars
    <3>2. \A v \in Window \ {w} : agent'[v] = agent[v] /\ rpc'[v] = rpc[v]
      BY <1>2, <2>4, <3>1
    <3>3. agent'[w] # "none"
      BY <1>2, <2>2, <2>4
    <3> QED BY <3>2, <3>3 DEF ResultInv
  <2>7. log' = log \/ \E e \in Event : e.win = w /\ log' = Append(log, e)
    <3>1. CASE EmitCompleted(w)
      <4> DEFINE e == [win |-> w, rc |-> rc[w]]
      <4>1. e \in Event /\ e.win = w
        BY <1>1 DEF Event, TypeInv
      <4>2. log' = log \/ log' = Append(log, e)
        BY <3>1 DEF EmitCompleted
      <4> QED BY <4>1, <4>2
    <3>2. CASE ~EmitCompleted(w)
      BY <1>5, <3>2 DEF Report, RStep, FinishWindow, Close, Recheck, Clean, Gone, Die
    <3> QED BY <3>1, <3>2
  <2>8. /\ Len(log') \in Nat /\ Len(log) <= Len(log')
        /\ \A i \in 1 .. Len(log) : log'[i] = log[i]
        /\ \A i \in 1 .. Len(log') : i \in 1 .. Len(log) \/ log'[i].win = w
    <3>1. CASE log' = log
      BY <1>2, <3>1
    <3>2. ASSUME NEW e \in Event, e.win = w, log' = Append(log, e)
          PROVE  /\ Len(log') \in Nat /\ Len(log) <= Len(log')
                 /\ \A i \in 1 .. Len(log) : log'[i] = log[i]
                 /\ \A i \in 1 .. Len(log') : i \in 1 .. Len(log) \/ log'[i].win = w
      BY <1>2, <3>2
    <3> QED BY <2>7, <3>1, <3>2
  <2>9. \A i \in 1 .. Len(log') : Delivered(log'[i].win)
    BY <2>2, <2>8 DEF ResultInv
  <2>10. \A i \in 1 .. Len(log') : Delivered(log[i].win)'
    BY <2>1, <2>9 DEF Delivered
  <2>11. ASSUME NEW d \in Dispatcher PROVE Waited(d)'
    <3>1. Waited(d) /\ cursor[d] \in Nat
      BY <1>2 DEF ResultInv
    <3>2. cursor'[d] <= Len(log')
      BY <1>2, <2>1, <2>8, <3>1 DEF Waited
    <3>3. \A i \in 1 .. cursor[d] : log'[i] = log[i]
      BY <1>2, <2>8, <3>1 DEF Waited
    <3>4. cursor[d] < Len(log) => cursor[d] < Len(log') /\ log'[cursor[d] + 1] = log[cursor[d] + 1]
      BY <1>2, <2>8, <3>1
    <3> QED BY <2>1, <3>1, <3>2, <3>3, <3>4 DEF Waited, Sole
  <2> QED BY <1>1, <2>5, <2>6, <2>10, <2>11 DEF ResultInv
<1> QED BY <1>3, <1>4, <1>5 DEF Next

\* For any number of dispatches into one log: an outcome that is printed is the
\* return code of the first event behind the cursor, and events --wait --after
\* does not time out over a completion of a window that no other dispatch uses.
NothingMissed ==
  \A d \in Dispatcher :
    /\ result[d] \in {"ok", "bad"} =>
         cursor[d] < Len(log) /\ (log[cursor[d] + 1].rc = 0 <=> result[d] = "ok")
    /\ d \in byHand /\ Sole(d) => ~ \E i \in 1 .. cursor[d] : log[i].win = target[d]

\* check_events and events::wait_for keep NothingMissed for any dispatches.
THEOREM WaitTheorem == Spec => []NothingMissed
<1>1. ResultInv /\ [Next]_vars => ResultInv'
  BY ResultStep
<1>2. ResultInv => NothingMissed
  BY DEF ResultInv, Waited, NothingMissed
<1> QED BY ResultInit, <1>1, <1>2, PTL DEF Spec

\* With one dispatch at a time the event is moreover one of its own window: the
\* outcome printed is its own, whatever fails on the way.
THEOREM ResultTheorem ==
  ASSUME NEW d, Dispatcher = {d}
  PROVE  Spec => []ResultIsOwn
<1>1. ResultInv /\ [Next]_vars => ResultInv'
  BY ResultStep
<1>2. ResultInv => ResultIsOwn
  <2> SUFFICES ASSUME ResultInv PROVE ResultIsOwn
    OBVIOUS
  <2>1. Len(log) \in Nat /\ cursor[d] \in Nat /\ Waited(d) /\ Sole(d)
    BY DEF ResultInv, TypeInv, Sole
  <2>2. \A i \in 1 .. Len(log) : log[i].win = target[d]
    BY DEF ResultInv, Delivered
  <2>3. ASSUME result[d] \in {"ok", "bad"}
        PROVE  /\ cursor[d] < Len(log) /\ log[cursor[d] + 1].win = target[d]
               /\ (log[cursor[d] + 1].rc = 0) = (result[d] = "ok")
    BY <2>1, <2>2, <2>3 DEF Waited
  <2>4. d \in byHand => ~ \E i \in 1 .. cursor[d] : log[i].win = target[d]
    BY <2>1 DEF Waited
  <2> QED BY <2>3, <2>4 DEF ResultIsOwn
<1> QED BY ResultInit, <1>1, <1>2, PTL DEF Spec

-----------------------------------------------------------------------------
(***************************************************************************)
(* The safety of Terminal: how the prompt gets into the window and how a   *)
(* tmux job is known to be done, for any commands, jobs, windows, options  *)
(* and attempts, and whatever the programs and the people there do.        *)
(***************************************************************************)
PSteps  == {"prepare", "shell", "send", "paste", "enter", "ready", "probe", "probed", "confirm",
            "complete", "done"}
Results == {"none", "ok", "failed", "timeout"}
Whys    == {"shared", "agent", "stale", "exited", "user"}
Texts   == {"setup", "launch", "prompt"}
Marks   == {"$", "echo", "ready", "prompt", "banner", "work", "trust", "update", "press enter"}
Fgs     == {"none", "shell", "busy", "boot", "idle", "work", "trust", "update", "gone"}

Task   == [by : Proc \cup {NoOne}, try : Nat]
Entry  == [by : Proc \cup {NoOne}, try : Nat, what : Texts \cup {"key", "probe", "user"}]
Pane   == [fg : Fgs, owner : Proc \cup {NoOne}, line : Seq(Entry), screen : SUBSET Marks,
           tasks : SUBSET Task]
Driver == [pc : PSteps, win : Windows \cup {NoWindow}, left : Seq(Texts), try : Nat,
           due : BOOLEAN, skipped : SUBSET Marks, prev : SUBSET Marks, result : Results,
           excuse : SUBSET Whys]

\* The lines before the prompt: the launch line is the last of them.
Script == {s \in Seq({"setup", "launch"}) : \A i \in 1 .. Len(s) : s[i] = "launch" => i = Len(s)}

\* Steps at which a driver still has text to send; steps without a window.
TextSteps == {"shell", "send", "paste", "enter", "probe", "probed"}
Outside   == {"prepare", "done"}

\* A driver that is at work has a window and no result, and text where it is
\* about to send some; until it is launched a one-shot goal has no prompt.
Basic(p, o, r, t) ==
  /\ r.pc \notin Outside => r.win \in Windows /\ t.fg # "none"
  /\ r.pc # "done" => r.result = "none"
  /\ r.pc \in TextSteps => r.left # << >>
  /\ r.pc \in {"paste", "enter"} => o.backend = "tmux"
  /\ p \in Goal /\ o.runner = "aix" /\ r.pc \in TextSteps => r.left \in Script

\* Between C-u and Enter the line is what this driver has put there.
Whole(p, o, r, t) ==
  o.backend = "tmux" /\ "shared" \notin r.excuse /\ t.fg # "gone" =>
    /\ r.pc = "paste" => t.line = << >>
    /\ r.pc = "enter" => t.line = <<[by |-> p, try |-> r.try, what |-> Head(r.left)]>>

\* Only a user who came later can have started the program in the window.
Spared(p, o, r, t) ==
  p \in Goal /\ o.backend = "tmux" /\ r.pc \notin Outside /\ t.fg = "busy" => "user" \in r.excuse

\* With nothing to excuse it, the window has no agent before the launch line,
\* then none or the one launched, and the mark is there only if that one waits.
Waiting(p, t) ==
  \/ t.fg \in {"shell", "busy"} /\ "ready" \notin t.screen
  \/ /\ t.owner = p /\ t.fg \in {"boot", "update", "trust", "idle"}
     /\ "ready" \in t.screen => t.fg = "idle"
     /\ t.fg = "trust" => "trust" \in t.screen
Reached(p, o, r, t) ==
  p \in Goal /\ o.runner # "aix" /\ r.excuse = {} /\ t.fg # "gone" =>
    /\ r.pc \in TextSteps =>
         \/ r.left \in Script /\ t.fg \in {"shell", "busy"}
         \/ r.left = <<"prompt">> /\ t.fg = "idle" /\ t.owner = p
    /\ r.pc = "ready" => Waiting(p, t)

Own(p, o, r, t) == Basic(p, o, r, t) /\ Whole(p, o, r, t) /\ Spared(p, o, r, t) /\ Reached(p, o, r, t)

\* r after something that excuses it.
Excused(r, x) == [r EXCEPT !.excuse = @ \cup {x}]

WindowInv ==
  /\ opt \in Options
  /\ at \in [Proc -> Driver]
  /\ term \in [Windows -> Pane]
  /\ \A w \in Old : term[w].fg # "none"
  /\ \A p \in Proc : Own(p, opt[p], at[p], term[at[p].win])

-----------------------------------------------------------------------------
LEMMA GoesFacts ==
  ASSUME NEW r \in Driver, NEW s \in PSteps
  PROVE  /\ Goes(r, s) \in Driver /\ Waits(r, s) \in Driver
         /\ \A g \in {Goes(r, s), Waits(r, s)} :
              /\ g.pc = s /\ g.win = r.win /\ g.left = r.left /\ g.try = r.try
              /\ g.result = r.result /\ g.excuse = r.excuse
BY DEF Goes, Waits, Driver

LEMMA EndedFacts ==
  ASSUME NEW r \in Driver, NEW how \in Results
  PROVE  /\ Ended(r, how) \in Driver
         /\ Ended(r, how).pc = "done" /\ Ended(r, how).result = how
         /\ Ended(r, how).try = r.try /\ Ended(r, how).left = << >>
         /\ Ended(r, how).win = NoWindow
<1> DEFINE s == Start(r.try)
<1>1. << >> \in Seq(Texts) /\ r.try \in Nat
  BY DEF Driver
<1>2. s \in Driver /\ s.try = r.try /\ s.left = << >> /\ s.win = NoWindow
  BY <1>1 DEF Start, Driver, PSteps, Results
<1>3. Ended(r, how) = [s EXCEPT !.pc = "done", !.result = how]
  BY DEF Ended
<1> HIDE DEF s
<1> QED BY <1>2, <1>3 DEF Driver, PSteps

LEMMA StartFacts ==
  ASSUME NEW n \in Nat
  PROVE  /\ Start(n) \in Driver
         /\ Start(n).pc = "prepare" /\ Start(n).result = "none" /\ Start(n).try = n
<1>1. << >> \in Seq(Texts)
  OBVIOUS
<1> QED BY <1>1 DEF Start, Driver, PSteps, Results

LEMMA ExcusedFacts ==
  ASSUME NEW r \in Driver, NEW x \in Whys
  PROVE  /\ Excused(r, x) \in Driver /\ Excused(r, x).excuse = r.excuse \cup {x}
         /\ Excused(r, x).pc = r.pc /\ Excused(r, x).win = r.win
         /\ Excused(r, x).left = r.left /\ Excused(r, x).try = r.try
         /\ Excused(r, x).result = r.result
BY DEF Driver, Excused

LEMMA EndedOwn ==
  ASSUME NEW p, NEW o, NEW r, NEW t, r.pc = "done"
  PROVE  Own(p, o, r, t)
BY DEF Own, Basic, Whole, Spared, Reached, Outside, TextSteps

\* What others do in the window costs a driver its claims about it.
LEMMA OwnExcused ==
  ASSUME NEW p, NEW o, NEW r \in Driver, NEW t, NEW u, Own(p, o, r, t),
         u.fg # "none" \/ r.pc \in Outside, u.fg = "busy" => t.fg = "busy"
  PROVE  Own(p, o, Excused(r, "shared"), u)
<1> DEFINE s == Excused(r, "shared")
<1>1. /\ s.pc = r.pc /\ s.win = r.win /\ s.left = r.left /\ s.result = r.result
      /\ s.excuse = r.excuse \cup {"shared"}
  BY ExcusedFacts DEF Whys
<1> HIDE DEF s
<1>3. Basic(p, o, s, u)
  BY <1>1 DEF Own, Basic
<1>4. Whole(p, o, s, u)
  BY <1>1 DEF Whole
<1>5. Spared(p, o, s, u)
  BY <1>1 DEF Own, Spared
<1>6. Reached(p, o, s, u)
  BY <1>1 DEF Reached
<1> QED BY <1>3, <1>4, <1>5, <1>6 DEF Own, s

-----------------------------------------------------------------------------
(* The three kinds of steps of a driver, and the steps of the world.       *)

LEMMA MovesStep ==
  ASSUME WindowInv, NEW p \in Proc, NEW r \in Driver, Moves(p, r), UNCHANGED <<opt, term>>,
         Own(p, opt[p], r, term[r.win])
  PROVE  WindowInv'
<1>1. at' \in [Proc -> Driver] /\ at'[p] = r /\ \A q \in Proc \ {p} : at'[q] = at[q]
  BY DEF WindowInv, Moves
<1>2. \A q \in Proc : Own(q, opt[q], at'[q], term[at'[q].win])
  BY <1>1 DEF WindowInv
<1> QED BY <1>1, <1>2 DEF WindowInv

LEMMA TouchesStep ==
  ASSUME WindowInv, NEW p \in Proc, NEW r \in Driver, Touches(p, r), UNCHANGED opt,
         at[p].win \in Windows, NEW t \in Pane, Puts(at[p].win, t),
         t.fg # "none", t.fg = "busy" => Here(p).fg = "busy",
         Own(p, opt[p], r, t), r.win = at[p].win \/ r.pc = "done"
  PROVE  WindowInv'
<1> DEFINE w == at[p].win
<1>1. /\ at' = [q \in Proc |->
              IF q = p THEN r
              ELSE IF at[q].win = w THEN Excused(at[q], "shared")
              ELSE at[q]]
      /\ term' = [term EXCEPT ![w] = t]
      /\ t.fg = "busy" => term[w].fg = "busy"
  BY DEF Touches, Puts, Here, Excused
<1>2. w \in Windows
  OBVIOUS
<1> HIDE DEF w
<1>3. term' \in [Windows -> Pane] /\ term'[w] = t /\ \A v : v # w => term'[v] = term[v]
  BY <1>1, <1>2 DEF WindowInv
<1>4. \A v \in Old : term'[v].fg # "none"
  BY <1>3 DEF WindowInv
<1>5. ASSUME NEW q \in Proc
      PROVE  at'[q] \in Driver /\ Own(q, opt[q], at'[q], term'[at'[q].win])
  <2>1. CASE q = p
    <3>1. at'[q] = r
      BY <1>1, <2>1
    <3>2. CASE r.win = w
      BY <2>1, <3>1, <3>2, <1>3
    <3>3. CASE r.pc = "done"
      BY <2>1, <3>1, <3>3, EndedOwn
    <3> QED BY <3>2, <3>3 DEF w
  <2>2. CASE q # p /\ at[q].win = w
    <3>1. at'[q] = Excused(at[q], "shared") /\ at[q] \in Driver
      BY <1>1, <2>2 DEF WindowInv
    <3>2. at'[q] \in Driver /\ at'[q].win = w
      BY <3>1, <2>2, ExcusedFacts DEF Whys
    <3>3. Own(q, opt[q], at[q], term[w])
      BY <2>2 DEF WindowInv
    <3>4. Own(q, opt[q], at'[q], t)
      BY <3>1, <3>3, <1>1, OwnExcused
    <3> QED BY <3>2, <3>4, <1>3
  <2>3. CASE q # p /\ at[q].win # w
    <3>1. at'[q] = at[q] /\ at[q] \in Driver
      BY <1>1, <2>3 DEF WindowInv
    <3>2. term'[at'[q].win] = term[at[q].win]
      BY <3>1, <2>3, <1>3
    <3> QED BY <3>1, <3>2 DEF WindowInv
  <2> QED BY <2>1, <2>2, <2>3
<1>6. at' \in [Proc -> Driver]
  BY <1>1, <1>5
<1>7. opt' = opt /\ opt \in Options
  BY DEF WindowInv
<1> QED BY <1>3, <1>4, <1>5, <1>6, <1>7 DEF WindowInv

LEMMA TakesStep ==
  ASSUME WindowInv, NEW p \in Proc, at[p].pc = "prepare", UNCHANGED opt,
         NEW w \in Windows, NEW step \in PSteps, Takes(p, w, step), TerminalWorld,
         step \in IF p \in Goal THEN {"send", "shell"} ELSE {"ready", "shell"},
         NEW t \in Pane, term' = [term EXCEPT ![w] = t],
         t.fg # "none", t.fg = "busy" => term[w].fg = "busy",
         p \in Goal /\ opt[p].backend = "tmux" => t.fg = "shell",
         ~AgentIn(w) => t.fg \in {"shell", "busy", "gone"}
  PROVE  WindowInv'
<1> DEFINE left == IF p \in Goal THEN Lines ELSE <<"prompt">>
           alone == {q \in Proc \ {p} : at[q].win = w} = {}
           excuse == (IF alone THEN {} ELSE {"shared"})
                       \cup (IF AgentIn(w) THEN {"agent"} ELSE {})
           r == [at[p] EXCEPT !.pc = step, !.win = w, !.left = left, !.excuse = excuse]
<1>1. at' = [q \in Proc |->
              IF q = p THEN r
              ELSE IF at[q].win = w THEN Excused(at[q], "shared")
              ELSE at[q]]
  BY DEF Takes, Excused
<1>2. /\ left \in Seq(Texts) /\ left # << >>
      /\ p \in Goal => left \in Script
  <2>1. SetupLines \in Nat
    BY DEF TerminalWorld
  <2>2. /\ Lines \in Seq({"setup", "launch"}) /\ Len(Lines) = SetupLines + 1
        /\ \A i \in 1 .. SetupLines + 1 :
             Lines[i] = IF i <= SetupLines THEN "setup" ELSE "launch"
    BY <2>1 DEF Lines
  <2>3. Lines \in Script
    BY <2>1, <2>2 DEF Script
  <2>4. Lines \in Seq(Texts) /\ Lines # << >> /\ Len(<<"prompt">>) = 1
    BY <2>1, <2>2 DEF Texts
  <2> HIDE DEF Lines
  <2>5. <<"prompt">> \in Seq(Texts) /\ <<"prompt">> # << >>
    BY DEF Texts
  <2> QED BY <2>3, <2>4, <2>5
<1>3. excuse \in SUBSET Whys /\ (excuse = {} => ~AgentIn(w))
  <2> HIDE DEF alone
  <2> QED BY DEF Whys
<1>4. at[p] \in Driver /\ at[p].result = "none"
  BY DEF WindowInv, Own, Basic
<1> HIDE DEF left, alone, excuse
<1>5. /\ r \in Driver /\ r.pc = step /\ r.win = w /\ r.left = left /\ r.excuse = excuse
      /\ r.result = "none"
  BY <1>2, <1>3, <1>4 DEF Driver
<1> HIDE DEF r
<1>6. Own(p, opt[p], r, t)
  <2>1. Basic(p, opt[p], r, t)
    BY <1>2, <1>5 DEF Basic, TextSteps
  <2>2. Whole(p, opt[p], r, t)
    BY <1>5 DEF Whole
  <2>3. Spared(p, opt[p], r, t)
    BY DEF Spared
  <2>4. Reached(p, opt[p], r, t)
    BY <1>2, <1>3, <1>5 DEF Reached, TextSteps
  <2> QED BY <2>1, <2>2, <2>3, <2>4 DEF Own
<1>7. term' \in [Windows -> Pane] /\ term'[w] = t /\ \A v : v # w => term'[v] = term[v]
  BY DEF WindowInv
<1>8. \A v \in Old : term'[v].fg # "none"
  BY <1>7 DEF WindowInv
<1>9. ASSUME NEW q \in Proc
      PROVE  at'[q] \in Driver /\ Own(q, opt[q], at'[q], term'[at'[q].win])
  <2>1. CASE q = p
    BY <1>1, <1>5, <1>6, <1>7, <2>1
  <2>2. CASE q # p /\ at[q].win = w
    <3>1. at'[q] = Excused(at[q], "shared") /\ at[q] \in Driver
      BY <1>1, <2>2 DEF WindowInv
    <3>2. at'[q] \in Driver /\ at'[q].win = w
      BY <3>1, <2>2, ExcusedFacts DEF Whys
    <3>3. Own(q, opt[q], at[q], term[w])
      BY <2>2 DEF WindowInv
    <3>4. Own(q, opt[q], at'[q], t)
      BY <3>1, <3>3, OwnExcused
    <3> QED BY <3>2, <3>4, <1>7
  <2>3. CASE q # p /\ at[q].win # w
    <3>1. at'[q] = at[q] /\ at[q] \in Driver
      BY <1>1, <2>3 DEF WindowInv
    <3>2. term'[at'[q].win] = term[at[q].win]
      BY <3>1, <2>3, <1>7
    <3> QED BY <3>1, <3>2 DEF WindowInv
  <2> QED BY <2>1, <2>2, <2>3
<1>10. at' \in [Proc -> Driver]
  BY <1>1, <1>9
<1>11. opt' = opt /\ opt \in Options
  BY DEF WindowInv
<1> QED BY <1>7, <1>8, <1>9, <1>10, <1>11 DEF WindowInv

LEMMA WorldMoves ==
  ASSUME WindowInv, UNCHANGED opt, NEW w \in Windows, NEW t \in Pane, Puts(w, t), t.fg # "none",
         \A q \in Proc :
           IF at[q].win = w
           THEN /\ at'[q] \in Driver /\ at'[q].win = w
                /\ Own(q, opt[q], at'[q], t)
           ELSE at'[q] = at[q],
         NEW f, at' = [q \in Proc |-> f[q]]
  PROVE  WindowInv'
<1>1. term' \in [Windows -> Pane] /\ term'[w] = t /\ \A v : v # w => term'[v] = term[v]
  BY DEF WindowInv, Puts
<1>2. \A v \in Old : term'[v].fg # "none"
  BY <1>1 DEF WindowInv
<1>3. \A q \in Proc : at'[q] \in Driver /\ Own(q, opt[q], at'[q], term'[at'[q].win])
  BY <1>1 DEF WindowInv
<1>4. at' \in [Proc -> Driver]
  BY <1>3
<1>5. opt' = opt /\ opt \in Options
  BY DEF WindowInv
<1> QED BY <1>1, <1>2, <1>3, <1>4, <1>5 DEF WindowInv

-----------------------------------------------------------------------------
(* What the steps make of a driver's claims.                               *)

\* A driver goes on in the same window with the same text.
LEMMA OwnGoes ==
  ASSUME NEW p, NEW o, NEW r \in Driver, NEW g \in Driver, NEW t, Own(p, o, r, t),
         r.pc \notin Outside, g.win = r.win, g.left = r.left, g.result = r.result,
         g.excuse = r.excuse,
         \/ g.pc = r.pc /\ g.try = r.try
         \/ g.pc \in {"confirm", "complete"}
         \/ g.pc \in {"send", "probe", "probed"} /\ r.pc \in TextSteps
  PROVE  Own(p, o, g, t)
<1>1. Basic(p, o, g, t)
  BY DEF Own, Basic, Outside, TextSteps
<1>2. Whole(p, o, g, t)
  BY DEF Own, Whole
<1>3. Spared(p, o, g, t)
  BY DEF Own, Spared, Outside
<1>4. Reached(p, o, g, t)
  BY DEF Own, Reached, TextSteps
<1> QED BY <1>1, <1>2, <1>3, <1>4 DEF Own

\* The line changes and the driver is not between C-u and Enter.
LEMMA OwnLine ==
  ASSUME NEW p, NEW o, NEW r, NEW t \in Pane, NEW s, Own(p, o, r, t), r.pc \notin {"paste", "enter"}
  PROVE  Own(p, o, r, [t EXCEPT !.line = s])
<1> DEFINE u == [t EXCEPT !.line = s]
<1>1. u.fg = t.fg /\ u.owner = t.owner /\ u.screen = t.screen
  BY DEF Pane
<1> HIDE DEF u
<1>2. Basic(p, o, r, u)
  BY <1>1 DEF Own, Basic
<1>3. Whole(p, o, r, u)
  BY DEF Whole
<1>4. Spared(p, o, r, u)
  BY <1>1 DEF Own, Spared
<1>5. Reached(p, o, r, u)
  BY <1>1 DEF Own, Reached, Waiting
<1> QED BY <1>2, <1>3, <1>4, <1>5 DEF Own, u

\* What the programs and the people do in a window without disturbing anyone.
Turns(t, u) ==
  \/ u.fg = "gone"
  \/ /\ u.line = t.line /\ u.owner = t.owner
     /\ \/ t.fg = "shell" /\ u.fg = "shell" /\ u.screen = {"$"}
        \/ /\ t.fg = "boot" /\ u.fg \in {"idle", "trust", "update"}
           /\ "ready" \in u.screen => "ready" \in t.screen \/ u.fg = "idle"
           /\ u.fg = "trust" => "trust" \in u.screen
        \/ t.fg = "work" /\ u.fg \in {"work", "idle", "shell"}
        \/ t.fg \in {"trust", "update"} /\ u.fg = "idle"
        \/ t.fg = "busy" /\ u.fg = "shell" /\ u.screen = t.screen

LEMMA OwnTurns ==
  ASSUME NEW p, NEW o, NEW r, NEW t, NEW u, Own(p, o, r, t), Turns(t, u)
  PROVE  Own(p, o, r, u)
<1>1. Basic(p, o, r, u)
  BY DEF Own, Basic, Turns
<1>2. Whole(p, o, r, u)
  BY DEF Own, Whole, Turns
<1>3. Spared(p, o, r, u)
  BY DEF Own, Spared, Turns
<1>4. Reached(p, o, r, u)
  BY DEF Own, Reached, Waiting, Turns
<1> QED BY <1>1, <1>2, <1>3, <1>4 DEF Own

\* And what does disturb.
LEMMA OwnDisturbed ==
  ASSUME NEW p, NEW o, NEW r \in Driver, NEW t, NEW u, Own(p, o, r, t), NEW why \in {"exited", "user"},
         u.line = t.line, t.fg # "gone", u.fg \in {"shell", "busy"}, u.fg = "busy" => why = "user"
  PROVE  Own(p, o, Excused(r, why), u)
<1> DEFINE s == Excused(r, why)
<1>1. /\ s.pc = r.pc /\ s.win = r.win /\ s.left = r.left /\ s.result = r.result
      /\ s.try = r.try /\ s.excuse = r.excuse \cup {why}
  BY ExcusedFacts DEF Whys
<1> HIDE DEF s
<1>2. Basic(p, o, s, u)
  BY <1>1 DEF Own, Basic
<1>3. Whole(p, o, s, u)
  BY <1>1 DEF Own, Whole
<1>4. Spared(p, o, s, u)
  BY <1>1 DEF Own, Spared
<1>5. Reached(p, o, s, u)
  BY <1>1 DEF Reached
<1> QED BY <1>2, <1>3, <1>4, <1>5 DEF Own, s

LEMMA TurnsStep ==
  ASSUME WindowInv, UNCHANGED <<opt, at>>, NEW w \in Windows, NEW t \in Pane, Puts(w, t),
         t.fg # "none", Turns(term[w], t)
  PROVE  WindowInv'
<1>1. \A q \in Proc : at'[q] \in Driver /\ Own(q, opt[q], at'[q], term[at'[q].win])
  BY DEF WindowInv
<1>2. \A q \in Proc : at[q].win = w => Own(q, opt[q], at'[q], t)
  BY <1>1, OwnTurns
<1>3. at' = [q \in Proc |-> at[q]]
  BY DEF WindowInv
<1> QED BY <1>1, <1>2, <1>3, WorldMoves

LEMMA DisturbsStep ==
  ASSUME WindowInv, UNCHANGED opt, NEW w \in Windows, NEW t \in Pane, Puts(w, t),
         NEW why \in {"exited", "user"}, Disturbs(w, why), t.line = term[w].line,
         term[w].fg # "gone", t.fg \in {"shell", "busy"}, t.fg = "busy" => why = "user"
  PROVE  WindowInv'
<1> DEFINE f == [q \in Proc |-> IF at[q].win = w THEN Excused(at[q], why) ELSE at[q]]
<1>1. at' = f
  BY DEF Disturbs, Excused
<1>2. ASSUME NEW q \in Proc, at[q].win = w
      PROVE  at'[q] \in Driver /\ at'[q].win = w /\ Own(q, opt[q], at'[q], t)
  <2>1. at'[q] = Excused(at[q], why) /\ at[q] \in Driver
    BY <1>1, <1>2 DEF WindowInv
  <2>2. Own(q, opt[q], at[q], term[w])
    BY <1>2 DEF WindowInv
  <2>3. Own(q, opt[q], at'[q], t)
    BY <2>1, <2>2, OwnDisturbed
  <2> QED BY <1>2, <2>1, <2>3, ExcusedFacts DEF Whys
<1>3. \A q \in Proc : at[q].win # w => at'[q] = at[q]
  BY <1>1
<1>4. at' = [q \in Proc |-> f[q]]
  BY <1>1
<1> HIDE DEF f
<1> QED BY <1>2, <1>3, <1>4, WorldMoves

LEMMA WorldWindows ==
  ASSUME WindowInv, NEW w \in Windows, World(w)
  PROVE  WindowInv'
<1> DEFINE t == term[w]
<1>1. /\ t \in Pane /\ UNCHANGED opt
      /\ ShellPrints(w) \/ Boots(w) \/ Finishes(w) \/ Exits(w) \/ Human(w)
  BY DEF WindowInv, World
<1>2. CASE ShellPrints(w)
  <2> DEFINE u == [t EXCEPT !.screen = {"$"}]
  <2>1. Puts(w, u) /\ UNCHANGED at /\ t.fg = "shell"
    BY <1>2 DEF ShellPrints
  <2>2. u \in Pane /\ u.fg = "shell" /\ u.line = t.line /\ u.owner = t.owner /\ u.screen = {"$"}
    BY <1>1, <2>1 DEF Pane, Marks
  <2> HIDE DEF u
  <2>3. Turns(t, u)
    BY <2>1, <2>2 DEF Turns
  <2> QED BY <1>1, <2>1, <2>2, <2>3, TurnsStep
<1>3. CASE Boots(w)
  <2>1. PICK to \in {"idle", "trust", "update"} :
          Puts(w, [t EXCEPT !.fg = to, !.screen = @ \cup
            CASE to = "idle"   -> {"ready"}
              [] to = "trust"  -> {"trust"}
              [] to = "update" -> {"update", "press enter"}])
    BY <1>3 DEF Boots
  <2> DEFINE more == CASE to = "idle"   -> {"ready"}
                       [] to = "trust"  -> {"trust"}
                       [] to = "update" -> {"update", "press enter"}
             u == [t EXCEPT !.fg = to, !.screen = @ \cup more]
  <2>2. more \in SUBSET Marks /\ ("ready" \in more => to = "idle") /\ (to = "trust" => "trust" \in more)
    BY DEF Marks
  <2>3. Puts(w, u) /\ UNCHANGED at /\ t.fg = "boot"
    BY <1>3, <2>1 DEF Boots
  <2> HIDE DEF more
  <2>4. /\ u \in Pane /\ u.fg = to /\ u.line = t.line /\ u.owner = t.owner
        /\ u.screen = t.screen \cup more
    BY <1>1, <2>2 DEF Pane, Fgs
  <2> HIDE DEF u
  <2>5. Turns(t, u)
    BY <2>2, <2>3, <2>4 DEF Turns
  <2> QED BY <1>1, <2>3, <2>4, <2>5, TurnsStep
<1>4. CASE Finishes(w)
  <2>1. PICK x \in t.tasks, to \in {"work", "shell", "idle"} :
          Puts(w, [t EXCEPT !.tasks = @ \ {x}, !.fg = to])
    BY <1>4 DEF Finishes
  <2> DEFINE u == [t EXCEPT !.tasks = @ \ {x}, !.fg = to]
  <2>2. u \in Pane /\ u.fg = to /\ u.line = t.line /\ u.owner = t.owner
    BY <1>1, <2>1 DEF Pane, Fgs
  <2>3. Puts(w, u) /\ UNCHANGED at /\ t.fg = "work"
    BY <1>4, <2>1 DEF Finishes
  <2> HIDE DEF u
  <2>4. Turns(t, u)
    BY <2>1, <2>2, <2>3 DEF Turns
  <2> QED BY <1>1, <2>1, <2>2, <2>3, <2>4, TurnsStep
<1>5. CASE Exits(w)
  <2>1. PICK keep \in {t.screen, {"$"}} :
          Puts(w, [t EXCEPT !.fg = "shell", !.owner = NoOne, !.tasks = {}, !.screen = keep])
    BY <1>5 DEF Exits
  <2> DEFINE u == [t EXCEPT !.fg = "shell", !.owner = NoOne, !.tasks = {}, !.screen = keep]
  <2>2. keep \in SUBSET Marks
    BY <1>1, <2>1 DEF Pane, Marks
  <2>3. u \in Pane /\ u.fg = "shell" /\ u.line = t.line
    BY <1>1, <2>2 DEF Pane, Fgs
  <2>4. Puts(w, u) /\ Disturbs(w, "exited") /\ t.fg # "gone"
    BY <1>5, <2>1 DEF Exits, AgentIn
  <2> HIDE DEF u
  <2> QED BY <1>1, <2>3, <2>4, DisturbsStep
<1>6. CASE Human(w)
  <2>1. CASE /\ t.fg \in {"trust", "update"} /\ UNCHANGED at
             /\ Puts(w, [t EXCEPT !.fg = "idle", !.screen = @ \cup {"ready"}])
    <3> DEFINE u == [t EXCEPT !.fg = "idle", !.screen = @ \cup {"ready"}]
    <3>1. u \in Pane /\ u.fg = "idle" /\ u.line = t.line /\ u.owner = t.owner
      BY <1>1 DEF Pane, Fgs, Marks
    <3>2. Puts(w, u)
      BY <2>1
    <3> HIDE DEF u
    <3>3. Turns(t, u)
      BY <2>1, <3>1 DEF Turns
    <3> QED BY <1>1, <2>1, <3>1, <3>2, <3>3, TurnsStep
  <2>2. CASE /\ t.fg = "shell" /\ Puts(w, [t EXCEPT !.fg = "busy"]) /\ Disturbs(w, "user")
    <3> DEFINE u == [t EXCEPT !.fg = "busy"]
    <3>1. u \in Pane /\ u.fg = "busy" /\ u.line = t.line
      BY <1>1 DEF Pane, Fgs
    <3>2. Puts(w, u) /\ t.fg # "gone"
      BY <2>2
    <3> HIDE DEF u
    <3> QED BY <1>1, <2>2, <3>1, <3>2, DisturbsStep
  <2>3. CASE t.fg = "busy" /\ Puts(w, [t EXCEPT !.fg = "shell"]) /\ UNCHANGED at
    <3> DEFINE u == [t EXCEPT !.fg = "shell"]
    <3>1. /\ u \in Pane /\ u.fg = "shell" /\ u.line = t.line /\ u.owner = t.owner
          /\ u.screen = t.screen
      BY <1>1 DEF Pane, Fgs
    <3>2. Puts(w, u)
      BY <2>3
    <3> HIDE DEF u
    <3>3. Turns(t, u)
      BY <2>3, <3>1 DEF Turns
    <3> QED BY <1>1, <2>3, <3>1, <3>2, <3>3, TurnsStep
  <2>4. CASE /\ UNCHANGED at
             /\ Puts(w, [fg |-> "gone", owner |-> NoOne, line |-> << >>, screen |-> {},
                           tasks |-> {}])
    <3> DEFINE u == [fg |-> "gone", owner |-> NoOne, line |-> << >>, screen |-> {}, tasks |-> {}]
    <3>1. << >> \in Seq(Entry)
      OBVIOUS
    <3>2. u \in Pane /\ u.fg = "gone"
      BY <3>1 DEF Pane, Fgs
    <3>3. Puts(w, u)
      BY <2>4
    <3> HIDE DEF u
    <3>4. Turns(t, u)
      BY <3>2 DEF Turns
    <3> QED BY <1>1, <2>4, <3>2, <3>3, <3>4, TurnsStep
  <2> QED BY <1>6, <2>1, <2>2, <2>3, <2>4 DEF Human
<1> QED BY <1>1, <1>2, <1>3, <1>4, <1>5, <1>6

\* A driver that has a window has a pane there.
LEMMA PaneFacts ==
  ASSUME WindowInv, NEW p \in Proc, at[p].pc \notin Outside
  PROVE  /\ at[p] \in Driver /\ at[p].win \in Windows /\ Here(p) = term[at[p].win]
         /\ Here(p) \in Pane /\ Here(p).fg # "none" /\ at[p].result = "none"
         /\ Own(p, opt[p], at[p], Here(p))
BY DEF WindowInv, Own, Basic, Outside, Here

LEMMA EndsStep ==
  ASSUME WindowInv, NEW p \in Proc, NEW how \in Results, Moves(p, Ended(at[p], how)),
         UNCHANGED <<opt, term>>
  PROVE  WindowInv'
<1> DEFINE r == Ended(at[p], how)
<1>1. at[p] \in Driver
  BY DEF WindowInv
<1>2. r \in Driver /\ r.pc = "done"
  BY <1>1, EndedFacts
<1> HIDE DEF r
<1>3. Own(p, opt[p], r, term[r.win])
  BY <1>2, EndedOwn
<1> QED BY <1>2, <1>3, MovesStep DEF r

LEMMA PrepareWindows ==
  ASSUME WindowInv, TerminalWorld, NEW p \in Proc, FindWindow(p)
  PROVE  WindowInv'
<1>0. /\ at[p].pc = "prepare" /\ UNCHANGED opt /\ Old \subseteq Windows /\ New \subseteq Windows
      /\ Begins(p) \in PSteps /\ "shell" \in PSteps
      /\ Begins(p) \in IF p \in Goal THEN {"send", "shell"} ELSE {"ready", "shell"}
  BY DEF FindWindow, Windows, Begins, PSteps
<1>1. ASSUME NEW w \in Old, Takes(p, w, Begins(p)), UNCHANGED term,
             p \in Goal /\ opt[p].backend = "tmux" => term[w].fg = "shell"
      PROVE  WindowInv'
  <2> DEFINE t == term[w]
  <2>1. w \in Windows /\ t \in Pane /\ t.fg # "none"
    BY <1>0 DEF WindowInv
  <2>2. term' = [term EXCEPT ![w] = t]
    BY <1>1 DEF WindowInv
  <2>3. ~AgentIn(w) => t.fg \in {"shell", "busy", "gone"}
    BY <2>1 DEF AgentIn, Pane, Fgs
  <2> HIDE DEF t
  <2>4. /\ p \in Goal /\ opt[p].backend = "tmux" => t.fg = "shell"
        /\ t.fg = "busy" => term[w].fg = "busy"
    BY <1>1 DEF t
  <2> QED BY <1>0, <1>1, <2>1, <2>2, <2>3, <2>4, TakesStep
<1>2. ASSUME NEW step \in PSteps, Opens(p, step),
             step \in IF p \in Goal THEN {"send", "shell"} ELSE {"ready", "shell"}
      PROVE  WindowInv'
  <2> DEFINE free == {w \in New : term[w].fg = "none"}
             w == CHOOSE v \in free : TRUE
             t == [term[w] EXCEPT !.fg = "shell"]
  <2>1. free # {} /\ Puts(w, t) /\ Takes(p, w, step)
    BY <1>2 DEF Opens
  <2>2. w \in New
    BY <2>1
  <2> HIDE DEF free, w
  <2>3. w \in Windows /\ term[w] \in Pane
    BY <1>0, <2>2 DEF WindowInv
  <2>4. t \in Pane /\ t.fg = "shell"
    BY <2>3 DEF Pane, Fgs
  <2> HIDE DEF t
  <2>5. term' = [term EXCEPT ![w] = t]
    BY <2>1 DEF Puts
  <2> QED BY <1>0, <1>2, <2>1, <2>3, <2>4, <2>5, TakesStep
<1>3. ASSUME Moves(p, Ended(at[p], "failed")), UNCHANGED term PROVE WindowInv'
  BY <1>0, <1>3, EndsStep DEF Results
<1>4. CASE opt[p].aim = "target" /\ UNCHANGED term /\ \E w \in Old :
             IF term[w].fg # "gone" /\ MayUse(p, w) THEN Takes(p, w, Begins(p))
             ELSE Moves(p, Ended(at[p], "failed")) /\ UNCHANGED fresh
  <2>1. PICK w \in Old : IF term[w].fg # "gone" /\ MayUse(p, w) THEN Takes(p, w, Begins(p))
                         ELSE Moves(p, Ended(at[p], "failed")) /\ UNCHANGED fresh
    BY <1>4
  <2>2. CASE MayUse(p, w) /\ Takes(p, w, Begins(p))
    <3>1. p \in Goal /\ opt[p].backend = "tmux" => term[w].fg = "shell"
      BY <2>2 DEF MayUse, InTmux
    <3> QED BY <1>1, <1>4, <2>2, <3>1
  <2> QED BY <1>3, <1>4, <2>1, <2>2
<1>5. CASE \E w \in CallerPanes :
             IF term[w].fg = "shell" THEN Takes(p, w, Begins(p)) /\ UNCHANGED term
             ELSE Opens(p, Begins(p))
  BY <1>0, <1>1, <1>2, <1>5 DEF CallerPanes
<1>6. CASE Opens(p, IF InTmux(p) THEN Begins(p) ELSE "shell")
  BY <1>0, <1>2, <1>6
<1> QED BY <1>4, <1>5, <1>6 DEF FindWindow

LEMMA ScriptTail ==
  ASSUME NEW s \in Script, Len(s) > 1
  PROVE  Tail(s) \in Script /\ Head(s) = "setup"
<1>1. s \in Seq({"setup", "launch"}) /\ \A i \in 1 .. Len(s) : s[i] = "launch" => i = Len(s)
  BY DEF Script
<1> DEFINE v == Tail(s)
<1>2. /\ v \in Seq({"setup", "launch"}) /\ Len(v) = Len(s) - 1 /\ Len(s) \in Nat
      /\ \A i \in 1 .. Len(v) : v[i] = s[i + 1]
  BY <1>1
<1>3. Head(s) = s[1] /\ s[1] \in {"setup", "launch"} /\ 1 \in 1 .. Len(s)
  BY <1>1
<1>4. Head(s) = "setup"
  BY <1>1, <1>3
<1> HIDE DEF v
<1>5. ASSUME NEW i \in 1 .. Len(v), v[i] = "launch" PROVE i = Len(v)
  <2>1. i + 1 \in 1 .. Len(s) /\ s[i + 1] = "launch"
    BY <1>2, <1>5
  <2>2. i + 1 = Len(s)
    BY <1>1, <2>1
  <2> QED BY <1>2, <2>2
<1>6. v \in Script
  BY <1>2, <1>5 DEF Script
<1> QED BY <1>4, <1>6 DEF v

LEMMA LongText ==
  ASSUME NEW s \in Seq(Texts), Len(s) > 1
  PROVE  Tail(s) # << >> /\ s # <<"prompt">>
<1> DEFINE v == Tail(s)
<1>1. v \in Seq(Texts) /\ Len(v) = Len(s) - 1 /\ Len(s) \in Nat
  OBVIOUS
<1> HIDE DEF v
<1>2. ASSUME s = <<"prompt">> PROVE FALSE
  <2>1. Len(<<"prompt">>) = 1
    OBVIOUS
  <2>2. Len(s) = 1
    BY <1>2, <2>1
  <2> QED BY <2>2
<1>3. ASSUME v = << >> PROVE FALSE
  <2>1. Len(<< >>) = 0
    OBVIOUS
  <2>2. Len(v) = 0
    BY <1>3, <2>1
  <2>3. Len(s) - 1 = 0
    BY <1>1, <2>2
  <2> QED BY <1>1, <2>3
<1> QED BY <1>2, <1>3 DEF v

LEMMA NoticedFacts ==
  ASSUME WindowInv, NEW p \in Proc, at[p].pc \notin Outside
  PROVE  /\ Noticed(p) \in Driver
         /\ Noticed(p).pc = at[p].pc /\ Noticed(p).win = at[p].win
         /\ Noticed(p).left = at[p].left /\ Noticed(p).try = at[p].try
         /\ Noticed(p).result = at[p].result
         /\ at[p].excuse \subseteq Noticed(p).excuse
         /\ Noticed(p).excuse \subseteq at[p].excuse \cup {"stale"}
         /\ Noticed(p).excuse = {} /\ Head(at[p].left) = "launch" =>
              "ready" \notin Here(p).screen /\ "trust" \notin Here(p).screen
<1>1. at[p] \in Driver
  BY PaneFacts
<1>2. CASE Head(at[p].left) = "launch" /\ Here(p).screen \cap {"ready", "trust"} # {}
  <2>1. Noticed(p) = Excused(at[p], "stale")
    BY <1>2 DEF Noticed, Excused
  <2> QED BY <1>1, <2>1, ExcusedFacts DEF Whys
<1>3. CASE ~(Head(at[p].left) = "launch" /\ Here(p).screen \cap {"ready", "trust"} # {})
  BY <1>1, <1>3 DEF Noticed
<1> QED BY <1>2, <1>3

LEMMA ClearWindows ==
  ASSUME WindowInv, NEW p \in Proc, Clear(p)
  PROVE  WindowInv'
<1> DEFINE t == Here(p)
           u == [t EXCEPT !.line = << >>]
           r == at[p]
           g == Goes(r, "paste")
           o == opt[p]
<1>1. /\ r.pc = "send" /\ t.fg # "gone" /\ Puts(r.win, u) /\ Touches(p, g) /\ UNCHANGED opt
      /\ o.backend = "tmux"
  BY DEF Clear, WindowGone, InTmux
<1>2. /\ r \in Driver /\ r.win \in Windows /\ t \in Pane /\ t.fg # "none" /\ r.result = "none"
      /\ Own(p, o, r, t)
  BY <1>1, PaneFacts DEF Outside
<1>3. << >> \in Seq(Entry)
  OBVIOUS
<1>4. /\ u \in Pane /\ u.fg = t.fg /\ u.owner = t.owner /\ u.screen = t.screen
      /\ u.line = << >>
  BY <1>2, <1>3 DEF Pane
<1>5. /\ g \in Driver /\ g.pc = "paste" /\ g.win = r.win /\ g.left = r.left
      /\ g.result = r.result /\ g.excuse = r.excuse
  BY <1>2, GoesFacts DEF PSteps
<1> HIDE DEF t, u, g, r, o
<1>6. Own(p, o, g, u)
  <2>1. Basic(p, o, g, u)
    BY <1>1, <1>2, <1>4, <1>5 DEF Own, Basic, Outside, TextSteps
  <2>2. Whole(p, o, g, u)
    BY <1>4, <1>5 DEF Whole
  <2>3. Spared(p, o, g, u)
    BY <1>1, <1>2, <1>4, <1>5 DEF Own, Spared, Outside
  <2>4. Reached(p, o, g, u)
    BY <1>1, <1>2, <1>4, <1>5 DEF Own, Reached, TextSteps
  <2> QED BY <2>1, <2>2, <2>3, <2>4 DEF Own
<1> QED BY <1>1, <1>2, <1>4, <1>5, <1>6, TouchesStep DEF r, t, o

LEMMA TextFacts ==
  ASSUME WindowInv, NEW p \in Proc, at[p].pc \in TextSteps
  PROVE  /\ at[p].left \in Seq(Texts) /\ at[p].left # << >> /\ Head(at[p].left) \in Texts
         /\ Text(p) \in Entry /\ Text(p).what = Head(at[p].left) /\ Text(p).by = p
         /\ Text(p).try = at[p].try
         /\ \A s \in SUBSET Marks : Shown(s, Text(p)) \in SUBSET Marks
<1>1. at[p] \in Driver /\ at[p].left # << >>
  BY DEF WindowInv, Own, Basic
<1>2. at[p].left \in Seq(Texts) /\ at[p].try \in Nat
  BY <1>1 DEF Driver
<1>3. Head(at[p].left) \in Texts
  BY <1>1, <1>2
<1>4. /\ Text(p) \in Entry /\ Text(p).what = Head(at[p].left) /\ Text(p).by = p
      /\ Text(p).try = at[p].try
  BY <1>2, <1>3 DEF Text, Entry
<1>5. \A s \in SUBSET Marks : Shown(s, Text(p)) \in SUBSET Marks
  BY DEF Shown, Marks
<1> QED BY <1>1, <1>2, <1>3, <1>4, <1>5

LEMMA PasteWindows ==
  ASSUME WindowInv, NEW p \in Proc, Paste(p)
  PROVE  WindowInv'
<1> DEFINE t == Here(p)
           r == at[p]
           n == Noticed(p)
           g == Goes(n, "enter")
           o == opt[p]
           x == Text(p)
           shown == Shown(t.screen, x)
           u == [t EXCEPT !.line = Append(t.line, x), !.screen = shown]
<1>1. r.pc = "paste" /\ t.fg # "gone" /\ Puts(r.win, u) /\ Touches(p, g) /\ UNCHANGED opt
  BY DEF Paste, WindowGone
<1>2. /\ r \in Driver /\ r.win \in Windows /\ t \in Pane /\ t.fg # "none" /\ r.result = "none"
      /\ Own(p, o, r, t)
  BY <1>1, PaneFacts DEF Outside
<1>3. /\ n \in Driver /\ n.win = r.win /\ n.left = r.left /\ n.try = r.try
      /\ n.result = r.result /\ r.excuse \subseteq n.excuse
      /\ n.excuse \subseteq r.excuse \cup {"stale"}
  BY <1>1, NoticedFacts DEF Outside
<1>4. /\ x \in Entry /\ x = [by |-> p, try |-> r.try, what |-> Head(r.left)]
      /\ t.screen \in SUBSET Marks /\ shown \in SUBSET Marks
  BY <1>1, <1>2, TextFacts DEF TextSteps, Pane, Text
<1> HIDE DEF n, x, shown
<1>5. g \in Driver /\ g.pc = "enter" /\ g.win = n.win /\ g.left = n.left /\ g.try = n.try
      /\ g.result = n.result /\ g.excuse = n.excuse
  BY <1>3, GoesFacts DEF PSteps
<1> HIDE DEF t, g, r, o
<1>6. t.line \in Seq(Entry) /\ Append(t.line, x) \in Seq(Entry)
  BY <1>2, <1>4 DEF Pane
<1>7. u \in Pane /\ u.fg = t.fg /\ u.owner = t.owner /\ u.line = Append(t.line, x)
  BY <1>2, <1>4, <1>6 DEF Pane
<1> HIDE DEF u
<1>8. Own(p, o, g, u)
  <2>1. Basic(p, o, g, u)
    BY <1>1, <1>2, <1>3, <1>5, <1>7 DEF Own, Basic, Outside, TextSteps
  <2>2. Whole(p, o, g, u)
    <3>1. Append(<< >>, x) = <<x>>
      OBVIOUS
    <3> QED BY <1>1, <1>2, <1>3, <1>4, <1>5, <1>7, <3>1 DEF Own, Whole
  <2>3. Spared(p, o, g, u)
    BY <1>1, <1>2, <1>3, <1>5, <1>7 DEF Own, Spared, Outside
  <2>4. Reached(p, o, g, u)
    BY <1>1, <1>2, <1>3, <1>5, <1>7 DEF Own, Reached, TextSteps
  <2> QED BY <2>1, <2>2, <2>3, <2>4 DEF Own
<1> QED BY <1>1, <1>2, <1>3, <1>5, <1>7, <1>8, TouchesStep DEF r, t, o

\* The step after a text: the driver has its window until it is done.
LEMMA AfterSendFacts ==
  ASSUME WindowInv, NEW p \in Proc, at[p].pc \in TextSteps, NEW n \in Driver
  PROVE  LET a == AfterSend(p, n) IN
         /\ a \in Driver
         /\ \/ a.pc = "done"
            \/ /\ a.win = n.win /\ a.left = n.left /\ a.try = n.try
               /\ a.result = n.result /\ a.excuse = n.excuse
               /\ \/ a.pc = "send" /\ Len(at[p].left) > 1
                  \/ a.pc = "ready" /\ Len(at[p].left) <= 1 /\ Head(at[p].left) = "launch"
                  \/ a.pc \in {"confirm", "complete"}
<1>1. Len(at[p].left) \in Nat
  BY TextFacts
<1>2. CASE Len(at[p].left) > 1
  BY <1>2, GoesFacts DEF AfterSend, PSteps
<1>3. CASE ~(Len(at[p].left) > 1) /\ Head(at[p].left) = "launch"
  BY <1>1, <1>3, GoesFacts DEF AfterSend, PSteps
<1>4. CASE ~(Len(at[p].left) > 1) /\ Head(at[p].left) # "launch" /\ p \in Goal
  BY <1>4, GoesFacts DEF AfterSend, PSteps
<1>5. CASE /\ ~(Len(at[p].left) > 1) /\ Head(at[p].left) # "launch" /\ p \notin Goal
           /\ opt[p].mode = "fire"
  BY <1>5, EndedFacts DEF AfterSend, Results
<1>6. CASE /\ ~(Len(at[p].left) > 1) /\ Head(at[p].left) # "launch" /\ p \notin Goal
           /\ opt[p].mode # "fire"
  BY <1>6, GoesFacts DEF AfterSend, PSteps
<1> QED BY <1>2, <1>3, <1>4, <1>5, <1>6

LEMMA PromptsType ==
  ASSUME NEW c \in Seq(Entry)
  PROVE  PromptsIn(c) \in SUBSET Task
<1>1. \A i \in 1 .. Len(c) : c[i] \in Entry
  OBVIOUS
<1> QED BY <1>1 DEF PromptsIn, Task, Entry

\* What becomes of a window in which c is entered.
LEMMA EnteredFacts ==
  ASSUME NEW w, NEW t \in Pane, NEW c \in Seq(Entry), Entered(w, t, c)
  PROVE  \E u \in Pane :
           /\ Puts(w, u) /\ u.line = t.line /\ t.fg \notin {"none", "gone"}
           /\ u.fg # "none" /\ (u.fg = "busy" => t.fg = "busy")
           /\ t.fg = "busy" => u = t
           /\ t.fg = "shell" =>
                \/ u = t /\ ~IsLaunch(c)
                \/ /\ IsLaunch(c) /\ OneShot(c[1].by)
                \/ /\ IsLaunch(c) /\ ~OneShot(c[1].by)
                   /\ u.fg = "boot" /\ u.owner = c[1].by /\ u.screen = t.screen
<1>1. PromptsIn(c) \in SUBSET Task
  BY PromptsType
<1>2. CASE t.fg = "shell" /\ IsLaunch(c)
  <2>0. c[1] \in Entry
    BY <1>2 DEF IsLaunch
  <2>1. c[1].by \in Proc \cup {NoOne}
    BY <2>0 DEF Entry
  <2>2. CASE OneShot(c[1].by)
    <3> DEFINE u == [t EXCEPT !.fg = "work", !.owner = c[1].by,
                              !.tasks = @ \cup PromptsIn(c), !.screen = @ \cup {"banner"}]
    <3>1. Puts(w, u)
      BY <1>2, <2>2 DEF Entered
    <3>2. u \in Pane /\ u.fg = "work" /\ u.line = t.line
      BY <1>1, <2>1 DEF Pane, Fgs, Marks
    <3> HIDE DEF u
    <3> QED BY <1>2, <2>2, <3>1, <3>2
  <2>3. CASE ~OneShot(c[1].by)
    <3> DEFINE u == [t EXCEPT !.fg = "boot", !.owner = c[1].by]
    <3>1. Puts(w, u)
      BY <1>2, <2>3 DEF Entered
    <3>2. /\ u \in Pane /\ u.fg = "boot" /\ u.owner = c[1].by /\ u.screen = t.screen
          /\ u.line = t.line
      BY <2>1 DEF Pane, Fgs
    <3> HIDE DEF u
    <3> QED BY <1>2, <2>3, <3>1, <3>2
  <2> QED BY <2>2, <2>3
<1>3. CASE t.fg = "shell" /\ ~IsLaunch(c)
  BY <1>3 DEF Entered
<1>4. CASE t.fg \in {"idle", "work"}
  <2> DEFINE v == [t EXCEPT !.fg = "work", !.tasks = @ \cup PromptsIn(c),
                            !.screen = @ \cup {"work"}]
  <2>1. v \in Pane /\ v.fg = "work" /\ v.line = t.line
    BY <1>1 DEF Pane, Fgs, Marks
  <2>2. Puts(w, t) \/ Puts(w, v)
    BY <1>4 DEF Entered
  <2> HIDE DEF v
  <2> QED BY <1>4, <2>1, <2>2
<1>5. CASE t.fg \in {"update", "trust"}
  <2> DEFINE v == [t EXCEPT !.fg = "idle", !.screen = @ \cup {"ready"}]
  <2>1. v \in Pane /\ v.fg = "idle" /\ v.line = t.line
    BY DEF Pane, Fgs, Marks
  <2>2. Puts(w, v)
    BY <1>5 DEF Entered
  <2> HIDE DEF v
  <2> QED BY <1>5, <2>1, <2>2
<1>6. CASE t.fg \in {"boot", "busy"}
  BY <1>6 DEF Entered
<1> QED BY <1>2, <1>3, <1>4, <1>5, <1>6 DEF Entered

LEMMA SentWindows ==
  ASSUME WindowInv, NEW p \in Proc, at[p].pc \in {"enter", "send"}, UNCHANGED opt,
         NEW c \in Seq(Entry), Sent(p, c),
         "shared" \notin at[p].excuse /\ Len(c) = 1 => c[1] = Text(p)
  PROVE  WindowInv'
<1> DEFINE r == at[p]
           o == opt[p]
           h == Here(p)
           shown == Shown(h.screen, Text(p))
           t == [h EXCEPT !.line = << >>, !.screen = shown]
           k == Noticed(p)
           n == [k EXCEPT !.left = Tail(k.left)]
           g == AfterSend(p, n)
<1>1. Entered(r.win, t, c) /\ Touches(p, g)
  BY DEF Sent
<1>2. /\ r \in Driver /\ r.win \in Windows /\ h \in Pane /\ h.fg # "none" /\ r.result = "none"
      /\ Own(p, o, r, h)
  BY PaneFacts DEF Outside
<1>3. /\ r.left \in Seq(Texts) /\ r.left # << >> /\ h.screen \in SUBSET Marks
      /\ shown \in SUBSET Marks
  BY <1>2, TextFacts DEF TextSteps, Pane
<1>4. << >> \in Seq(Entry) /\ Tail(r.left) \in Seq(Texts)
  BY <1>3
<1>5. t \in Pane /\ t.fg = h.fg /\ t.owner = h.owner /\ t.line = << >> /\ t.screen = shown
  BY <1>2, <1>3, <1>4 DEF Pane
<1>6. /\ k \in Driver /\ k.win = r.win /\ k.left = r.left /\ k.try = r.try /\ k.result = r.result
      /\ r.excuse \subseteq k.excuse
      /\ k.excuse = {} /\ Head(r.left) = "launch" => "ready" \notin h.screen
  BY NoticedFacts DEF Outside
<1>7. /\ n \in Driver /\ n.win = r.win /\ n.left = Tail(r.left) /\ n.result = r.result
      /\ n.excuse = k.excuse
  <2> HIDE DEF k
  <2> QED BY <1>4, <1>6 DEF Driver
<1>8. Head(r.left) = "launch" /\ "ready" \notin h.screen => "ready" \notin shown
  BY DEF Shown, Text
<1> HIDE DEF h, shown, t, k, n
<1>9. /\ g \in Driver
      /\ \/ g.pc = "done"
         \/ /\ g.win = n.win /\ g.left = n.left /\ g.result = n.result /\ g.excuse = n.excuse
            /\ \/ g.pc = "send" /\ Len(r.left) > 1
               \/ g.pc = "ready" /\ Len(r.left) <= 1 /\ Head(r.left) = "launch"
               \/ g.pc \in {"confirm", "complete"}
  BY <1>7, AfterSendFacts DEF TextSteps
<1>10. PICK u \in Pane :
         /\ Puts(r.win, u) /\ u.line = t.line /\ t.fg \notin {"none", "gone"}
         /\ u.fg # "none" /\ (u.fg = "busy" => t.fg = "busy")
         /\ t.fg = "busy" => u = t
         /\ t.fg = "shell" =>
              \/ u = t /\ ~IsLaunch(c)
              \/ /\ IsLaunch(c) /\ OneShot(c[1].by)
              \/ /\ IsLaunch(c) /\ ~OneShot(c[1].by)
                 /\ u.fg = "boot" /\ u.owner = c[1].by /\ u.screen = t.screen
  BY <1>1, <1>5, EnteredFacts
<1>11. k.excuse = {} /\ IsLaunch(c) =>
         c[1].by = p /\ Head(r.left) = "launch" /\ (OneShot(c[1].by) <=> o.runner = "aix")
  BY <1>6 DEF IsLaunch, Text, OneShot
<1>12. Len(r.left) > 1 => Tail(r.left) # << >>
  BY <1>3, LongText
<1> HIDE DEF g, r, o
<1>13. ASSUME g.pc # "done" PROVE Own(p, o, g, u)
  <2>1. r.pc \in TextSteps /\ r.pc \notin Outside
    BY DEF TextSteps, Outside, r
  <2>2. Basic(p, o, g, u)
    BY <1>2, <1>7, <1>9, <1>10, <1>12, <1>13, <2>1, ScriptTail DEF Own, Basic, Outside, TextSteps
  <2>3. Whole(p, o, g, u)
    BY <1>9, <1>13 DEF Whole
  <2>4. Spared(p, o, g, u)
    BY <1>2, <1>5, <1>6, <1>7, <1>9, <1>10, <1>13, <2>1 DEF Own, Spared
  <2>5. Reached(p, o, g, u)
    <3> SUFFICES ASSUME p \in Goal, o.runner # "aix", g.excuse = {}, u.fg # "gone"
                 PROVE  /\ g.pc \in TextSteps =>
                             \/ g.left \in Script /\ u.fg \in {"shell", "busy"}
                             \/ g.left = <<"prompt">> /\ u.fg = "idle" /\ u.owner = p
                        /\ g.pc = "ready" => Waiting(p, u)
      BY DEF Reached
    <3>1. k.excuse = {} /\ r.excuse = {} /\ h.fg \notin {"none", "gone"}
      BY <1>5, <1>6, <1>7, <1>9, <1>10, <1>13
    <3>2. \/ r.left \in Script /\ h.fg \in {"shell", "busy"}
          \/ r.left = <<"prompt">>
      BY <1>2, <2>1, <3>1 DEF Own, Reached
    <3>3. CASE g.pc = "send" /\ Len(r.left) > 1
      <4>1. r.left \in Script /\ h.fg \in {"shell", "busy"}
        BY <1>3, <3>2, <3>3, LongText
      <4>2. Tail(r.left) \in Script /\ Head(r.left) = "setup"
        BY <3>3, <4>1, ScriptTail
      <4>3. u = t
        BY <1>5, <1>10, <1>11, <3>1, <4>1, <4>2
      <4> QED BY <1>5, <1>7, <1>9, <1>13, <3>3, <4>1, <4>2, <4>3
    <3>4. CASE g.pc = "ready" /\ Head(r.left) = "launch"
      <4>1. h.fg \in {"shell", "busy"} /\ "ready" \notin t.screen
        BY <1>5, <1>6, <1>8, <3>1, <3>2, <3>4
      <4>2. Waiting(p, u)
        BY <1>5, <1>10, <1>11, <3>1, <4>1 DEF Waiting
      <4> QED BY <3>4, <4>2 DEF TextSteps
    <3>5. CASE g.pc \in {"confirm", "complete"}
      BY <3>5 DEF TextSteps
    <3> QED BY <1>9, <1>13, <3>3, <3>4, <3>5
  <2> QED BY <2>2, <2>3, <2>4, <2>5 DEF Own
<1>14. Own(p, o, g, u)
  BY <1>13, EndedOwn
<1>15. u.fg = "busy" => h.fg = "busy"
  BY <1>5, <1>10
<1>16. g.win = r.win \/ g.pc = "done"
  BY <1>7, <1>9
<1> QED BY <1>1, <1>2, <1>9, <1>10, <1>14, <1>15, <1>16, TouchesStep DEF r, o, h

LEMMA SendWindows ==
  ASSUME WindowInv, NEW p \in Proc, SendText(p)
  PROVE  WindowInv'
<1>1. CASE Clear(p)
  BY <1>1, ClearWindows
<1>2. CASE Paste(p)
  BY <1>2, PasteWindows
<1>3. CASE Enter(p)
  <2>1. at[p].pc = "enter" /\ Here(p).fg # "gone" /\ UNCHANGED opt /\ Sent(p, Here(p).line)
    BY <1>3 DEF Enter, WindowGone
  <2>2. Here(p) \in Pane /\ Own(p, opt[p], at[p], Here(p))
    BY <2>1, PaneFacts DEF Outside
  <2>3. "shared" \notin at[p].excuse => Here(p).line = <<Text(p)>>
    BY <2>1, <2>2 DEF Own, Basic, Whole, Text
  <2>4. Here(p).line \in Seq(Entry)
    BY <2>2 DEF Pane
  <2> QED BY <2>1, <2>3, <2>4, SentWindows
<1>4. CASE SendAll(p)
  <2>1. /\ at[p].pc = "send" /\ UNCHANGED opt
        /\ \/ Sent(p, Append(Here(p).line, Text(p)))
           \/ Moves(p, Ended(at[p], "failed")) /\ UNCHANGED term
    BY <1>4 DEF SendAll
  <2>2. CASE Sent(p, Append(Here(p).line, Text(p)))
    <3> DEFINE l == Here(p).line
               c == Append(l, Text(p))
    <3>1. l \in Seq(Entry) /\ Text(p) \in Entry
      BY <2>1, PaneFacts, TextFacts DEF Pane, Outside, TextSteps
    <3> HIDE DEF l
    <3>2. c \in Seq(Entry) /\ (Len(c) = 1 => c[1] = Text(p))
      BY <3>1
    <3> QED BY <2>1, <2>2, <3>2, SentWindows DEF l
  <2> QED BY <2>1, <2>2, EndsStep DEF Results
<1>5. CASE Loses(p)
  BY <1>5, EndsStep DEF Loses, Results
<1> QED BY <1>1, <1>2, <1>3, <1>4, <1>5 DEF SendText

-----------------------------------------------------------------------------
(* The waits.                                                              *)

\* apply_skip_prompts in a wait whose claim is about an agent that comes up.
LEMMA AnswersWindows ==
  ASSUME WindowInv, NEW p \in Proc, at[p].pc \in {"ready", "complete"}, ~WindowGone(p), UNCHANGED opt,
         Answers(p)
  PROVE  WindowInv'
<1> DEFINE r == at[p]
           o == opt[p]
           t == Here(p)
           menu == t.fg \in {"update", "trust"}
           to == IF menu THEN "idle" ELSE t.fg
           screen == t.screen \cup IF menu THEN {"ready"} ELSE {}
           Filled(line) == [t EXCEPT !.fg = to, !.screen = screen, !.line = line]
           skips == r.skipped \cup Unanswered(p)
           g == [r EXCEPT !.skipped = skips, !.prev = {}]
<1>0. PICK line \in {t.line, Append(t.line, Key(p))} : Puts(r.win, Filled(line))
  BY DEF Answers
<1> DEFINE u == Filled(line)
<1>1. Puts(r.win, u) /\ Touches(p, g)
  BY <1>0 DEF Answers
<1>2. /\ r \in Driver /\ r.win \in Windows /\ t \in Pane /\ t.fg \notin {"none", "gone"}
      /\ r.result = "none" /\ Own(p, o, r, t)
  BY PaneFacts DEF Outside, WindowGone
<1>3. skips \in SUBSET Marks
  BY <1>2 DEF Driver, Pane, Unanswered
<1> HIDE DEF skips
<1>4. /\ g \in Driver /\ g.pc = r.pc /\ g.win = r.win /\ g.left = r.left /\ g.try = r.try
      /\ g.result = r.result /\ g.excuse = r.excuse
  BY <1>2, <1>3 DEF Driver
<1>5. line \in Seq(Entry)
  <2>1. t.line \in Seq(Entry) /\ Key(p) \in Entry
    BY <1>2 DEF Pane, Key, Entry
  <2>2. Append(t.line, Key(p)) \in Seq(Entry)
    BY <2>1
  <2> QED BY <1>0, <2>1, <2>2
<1>6. screen \in SUBSET Marks /\ to \in Fgs
  BY <1>2 DEF Pane, Marks, Fgs
<1> HIDE DEF t, to, screen, menu, g, r, o
<1>7. u \in Pane /\ u.fg = to /\ u.owner = t.owner /\ u.screen = screen
  BY <1>2, <1>5, <1>6 DEF Pane
<1> HIDE DEF u
<1>8. u.fg # "none" /\ (u.fg = "busy" => t.fg = "busy") /\ u.fg # "gone"
  BY <1>2, <1>7 DEF to
<1>9. Own(p, o, g, t)
  BY <1>2, <1>4, OwnGoes DEF Outside, r
<1>10. Own(p, o, g, u)
  <2>0. g.pc \in {"ready", "complete"}
    BY <1>4 DEF r
  <2>1. Basic(p, o, g, u)
    BY <1>8, <1>9 DEF Own, Basic
  <2>2. Whole(p, o, g, u)
    BY <2>0 DEF Whole
  <2>3. Spared(p, o, g, u)
    BY <1>8, <1>9 DEF Own, Spared
  <2>4. Waiting(p, t) => Waiting(p, u)
    BY <1>7 DEF Waiting, to, screen, menu
  <2>5. Reached(p, o, g, u)
    BY <1>2, <1>9, <2>0, <2>4 DEF Own, Reached, TextSteps
  <2> QED BY <2>1, <2>2, <2>3, <2>5 DEF Own
<1> QED BY <1>1, <1>2, <1>4, <1>7, <1>8, <1>10, TouchesStep DEF r, t, o

\* A driver sees that the agent is ready only where it waits for input.
LEMMA AfterReadyWindows ==
  ASSUME WindowInv, TerminalWorld, NEW p \in Proc, at[p].pc = "ready", ~WindowGone(p),
         ~Blocked(p), SeesReady(p), Moves(p, AfterReady(p)), UNCHANGED <<opt, term>>
  PROVE  WindowInv'
<1> DEFINE r == at[p]
           o == opt[p]
           t == Here(p)
           left == IF OneShot(p) THEN << >> ELSE <<"prompt">>
           s == [r EXCEPT !.left = left]
           step == IF OneShot(p) THEN "confirm" ELSE IF p \in Goal THEN "probe" ELSE "send"
           g == AfterReady(p)
<1>1. g = Waits(s, step)
  BY DEF AfterReady
<1>2. /\ r \in Driver /\ r.win \in Windows /\ t \in Pane /\ t.fg \notin {"none", "gone"}
      /\ r.result = "none" /\ Own(p, o, r, t) /\ t = term[r.win]
  BY PaneFacts DEF Outside, WindowGone
<1>3. left \in Seq(Texts) /\ step \in PSteps
  <2>1. << >> \in Seq(Texts) /\ <<"prompt">> \in Seq(Texts)
    BY DEF Texts
  <2> QED BY <2>1 DEF PSteps
<1> HIDE DEF left
<1>4. /\ s \in Driver /\ s.win = r.win /\ s.left = left /\ s.result = r.result
      /\ s.excuse = r.excuse
  BY <1>2, <1>3 DEF Driver
<1> HIDE DEF s, g
<1>5. /\ g \in Driver /\ g.pc = step /\ g.win = r.win /\ g.left = left
      /\ g.result = "none" /\ g.excuse = r.excuse
  BY <1>1, <1>2, <1>3, <1>4, GoesFacts
<1>6. p \in Goal /\ o.runner # "aix" /\ Waiting(p, t) => t.fg = "idle" /\ t.owner = p
  <2> SUFFICES ASSUME p \in Goal, o.runner # "aix", Waiting(p, t)
               PROVE  t.fg = "idle" /\ t.owner = p
    OBVIOUS
  <2>1. HasPatterns(p) /\ "trust" \notin t.screen
    BY DEF HasPatterns, OneShot, Blocked, BlockedMarks
  <2>2. "ready" \in t.screen \/ t.fg \in {"idle", "trust"}
    BY <2>1 DEF SeesReady, HerdrReady, ScreenReady, ReadyMarks
  <2> QED BY <2>1, <2>2 DEF Waiting
<1>7. Own(p, o, g, t)
  <2>1. /\ o.runner = "aix" => g.pc = "confirm"
        /\ o.runner # "aix" => g.left = <<"prompt">> /\ g.pc \in {"probe", "send"}
    BY <1>5 DEF left, OneShot
  <2>2. g.pc \in {"confirm", "probe", "send"}
    BY <1>5
  <2>3. g.pc # "confirm" => g.left # << >>
    BY <2>1
  <2> HIDE DEF t, r, o, step
  <2>4. Basic(p, o, g, t)
    BY <1>2, <1>5, <2>1, <2>2, <2>3 DEF Basic, TextSteps, Outside
  <2>5. Whole(p, o, g, t)
    BY <2>2 DEF Whole
  <2>6. Spared(p, o, g, t)
    BY <1>2, <1>5, <2>2 DEF Own, Spared, Outside, r
  <2>7. Reached(p, o, g, t)
    BY <1>2, <1>5, <1>6, <2>1, <2>2 DEF Own, Reached, TextSteps, r
  <2> QED BY <2>4, <2>5, <2>6, <2>7 DEF Own
<1>8. Own(p, opt[p], g, term[g.win])
  BY <1>2, <1>5, <1>7
<1> QED BY <1>5, <1>8, MovesStep DEF g

LEMMA ReadyWindows ==
  ASSUME WindowInv, TerminalWorld, NEW p \in Proc, AwaitReady(p)
  PROVE  WindowInv'
<1>1. at[p].pc = "ready" /\ ~WindowGone(p) /\ UNCHANGED opt
  BY DEF AwaitReady
<1>2. ASSUME NEW how \in Results, Moves(p, Ended(at[p], how)), UNCHANGED term PROVE WindowInv'
  BY <1>1, <1>2, EndsStep
<1>3. CASE ~Blocked(p) /\ Answers(p)
  BY <1>1, <1>3, AnswersWindows
<1>4. CASE ~Blocked(p) /\ SeesReady(p) /\ Moves(p, AfterReady(p)) /\ UNCHANGED term
  BY <1>1, <1>4, AfterReadyWindows
<1>5. CASE Moves(p, at[p]) /\ UNCHANGED term
  BY <1>1, <1>5, MovesStep DEF WindowInv
<1>6. CASE Moves(p, [at[p] EXCEPT !.prev = Here(p).screen]) /\ UNCHANGED term
  <2> DEFINE g == [at[p] EXCEPT !.prev = Here(p).screen]
  <2>1. /\ at[p] \in Driver /\ Here(p) = term[at[p].win] /\ Own(p, opt[p], at[p], Here(p))
        /\ Here(p).screen \in SUBSET Marks
    BY <1>1, PaneFacts DEF Outside, Pane
  <2>2. /\ g \in Driver /\ g.pc = at[p].pc /\ g.win = at[p].win /\ g.left = at[p].left
        /\ g.try = at[p].try /\ g.result = at[p].result /\ g.excuse = at[p].excuse
    BY <2>1 DEF Driver
  <2> HIDE DEF g
  <2>3. Own(p, opt[p], g, Here(p))
    BY <1>1, <2>1, <2>2, OwnGoes DEF Outside
  <2> QED BY <1>1, <1>6, <2>1, <2>2, <2>3, MovesStep DEF g
<1>7. "failed" \in Results /\ "timeout" \in Results
  BY DEF Results
<1> QED BY <1>2, <1>3, <1>4, <1>5, <1>6, <1>7 DEF AwaitReady

\* A driver goes on, in the same window, without touching it.
LEMMA GoesStep ==
  ASSUME WindowInv, NEW p \in Proc, at[p].pc \in TextSteps, UNCHANGED <<opt, term>>,
         Moves(p, Goes(at[p], "send")) \/ Moves(p, Waits(at[p], "send"))
  PROVE  WindowInv'
<1>1. at[p].pc \notin Outside
  BY DEF TextSteps, Outside
<1>2. at[p] \in Driver /\ Here(p) = term[at[p].win] /\ Own(p, opt[p], at[p], Here(p))
  BY <1>1, PaneFacts
<1>3. ASSUME NEW g \in {Goes(at[p], "send"), Waits(at[p], "send")}, Moves(p, g)
      PROVE  WindowInv'
  <2>1. /\ g \in Driver /\ g.pc = "send" /\ g.win = at[p].win /\ g.left = at[p].left
        /\ g.result = at[p].result /\ g.excuse = at[p].excuse
    BY <1>2, GoesFacts DEF PSteps
  <2>2. Own(p, opt[p], g, Here(p))
    BY <1>1, <1>2, <2>1, OwnGoes
  <2> QED BY <1>2, <1>3, <2>1, <2>2, MovesStep
<1> QED BY <1>3

\* The line is changed by a driver that then goes on without a claim about it.
LEMMA TypesStep ==
  ASSUME WindowInv, NEW p \in Proc, at[p].pc \in TextSteps, ~WindowGone(p), UNCHANGED opt,
         NEW step \in {"send", "probed"}, NEW s \in Seq(Entry),
         Puts(at[p].win, [Here(p) EXCEPT !.line = s]), Touches(p, Waits(at[p], step))
  PROVE  WindowInv'
<1> DEFINE t == Here(p)
           u == [t EXCEPT !.line = s]
           g == Waits(at[p], step)
<1>1. at[p].pc \notin Outside /\ t.fg # "gone"
  BY DEF TextSteps, Outside, WindowGone
<1>2. /\ at[p] \in Driver /\ at[p].win \in Windows /\ t \in Pane /\ t.fg # "none"
      /\ Own(p, opt[p], at[p], t)
  BY <1>1, PaneFacts
<1>3. /\ g \in Driver /\ g.pc = step /\ g.win = at[p].win /\ g.left = at[p].left
      /\ g.result = at[p].result /\ g.excuse = at[p].excuse
  BY <1>2, GoesFacts DEF PSteps
<1>4. u \in Pane /\ u.fg = t.fg
  BY <1>2 DEF Pane
<1>5. Puts(at[p].win, u) /\ Touches(p, g)
  OBVIOUS
<1> HIDE DEF g
<1>6. Own(p, opt[p], g, t)
  BY <1>1, <1>2, <1>3, OwnGoes
<1>7. Own(p, opt[p], g, u)
  BY <1>2, <1>3, <1>6, OwnLine
<1> HIDE DEF u
<1> QED BY <1>2, <1>3, <1>4, <1>5, <1>7, TouchesStep

LEMMA ProbeWindows ==
  ASSUME WindowInv, NEW p \in Proc, TypeProbe(p) \/ Probed(p)
  PROVE  WindowInv'
<1>0. at[p].pc \in TextSteps /\ at[p].pc \notin Outside /\ ~WindowGone(p) /\ UNCHANGED opt
  BY DEF TypeProbe, Probed, TextSteps, Outside
<1>1. Here(p) \in Pane
  BY <1>0, PaneFacts
<1>2. Here(p).line \in Seq(Entry) /\ Probe(p) \in Entry
  BY <1>1 DEF Pane, Probe, Entry
<1>3. Append(Here(p).line, Probe(p)) \in Seq(Entry) /\ << >> \in Seq(Entry)
  BY <1>2
<1>4. ASSUME Moves(p, Ended(at[p], "failed")), UNCHANGED term PROVE WindowInv'
  BY <1>0, <1>4, EndsStep DEF Results
<1>5. CASE TypeProbe(p)
  <2>1. CASE /\ Puts(at[p].win, [Here(p) EXCEPT !.line = Append(@, Probe(p))])
             /\ Touches(p, Waits(at[p], "probed"))
    BY <1>0, <1>3, <2>1, TypesStep
  <2>2. CASE Moves(p, Goes(at[p], "send")) /\ UNCHANGED term
    BY <1>0, <2>2, GoesStep
  <2> QED BY <1>4, <1>5, <2>1, <2>2 DEF TypeProbe
<1>6. CASE Probed(p)
  <2>1. CASE /\ Puts(at[p].win, [Here(p) EXCEPT !.line = << >>])
             /\ Touches(p, Waits(at[p], "send"))
    BY <1>0, <1>3, <2>1, TypesStep
  <2> QED BY <1>4, <1>6, <2>1 DEF Probed
<1> QED BY <1>5, <1>6

LEMMA RunWindows ==
  ASSUME WindowInv, NEW p \in Proc, RunSignal(p) \/ RunSentinel(p)
  PROVE  WindowInv'
<1>0. at[p].pc = "complete" /\ UNCHANGED opt
  BY DEF RunSignal, RunSentinel
<1>1. (\E seen : Succeeds(p, seen)) \/ TimesOut(p) \/ Snapshot(p)
  BY DEF RunSignal, RunSentinel
<1>2. ASSUME NEW how \in {"ok", "failed", "timeout"}, Moves(p, Ended(at[p], how)),
             UNCHANGED term
      PROVE  WindowInv'
  BY <1>0, <1>2, EndsStep DEF Results
<1>3. CASE \E seen : Succeeds(p, seen)
  BY <1>2, <1>3 DEF Succeeds
<1>4. CASE TimesOut(p)
  BY <1>2, <1>4 DEF TimesOut
<1>5. CASE Snapshot(p)
  <2>1. CASE ~WindowGone(p) /\ Answers(p)
    BY <1>0, <2>1, AnswersWindows
  <2> QED BY <1>2, <1>5, <2>1 DEF Snapshot
<1> QED BY <1>1, <1>3, <1>4, <1>5

LEMMA TimeWindows ==
  ASSUME WindowInv, NEW p \in Proc, Deadline(p) \/ Retry(p)
  PROVE  WindowInv'
<1>1. CASE Deadline(p)
  <2> DEFINE g == [at[p] EXCEPT !.due = TRUE]
  <2>1. at[p].pc \notin Outside /\ UNCHANGED <<opt, term>> /\ Moves(p, g)
    BY <1>1 DEF Deadline, Outside
  <2>2. at[p] \in Driver /\ Here(p) = term[at[p].win] /\ Own(p, opt[p], at[p], Here(p))
    BY <2>1, PaneFacts
  <2>3. /\ g \in Driver /\ g.pc = at[p].pc /\ g.win = at[p].win /\ g.left = at[p].left
        /\ g.try = at[p].try /\ g.result = at[p].result /\ g.excuse = at[p].excuse
    BY <2>2 DEF Driver
  <2> HIDE DEF g
  <2>4. Own(p, opt[p], g, Here(p))
    BY <2>1, <2>2, <2>3, OwnGoes
  <2> QED BY <2>1, <2>2, <2>3, <2>4, MovesStep
<1>2. CASE Retry(p)
  <2> DEFINE g == Start(at[p].try + 1)
  <2>1. UNCHANGED <<opt, term>> /\ Moves(p, g) /\ at[p].try + 1 \in Nat
    BY <1>2 DEF Retry, WindowInv, Driver
  <2>2. g \in Driver /\ g.pc = "prepare" /\ g.result = "none"
    BY <2>1, StartFacts
  <2> HIDE DEF g
  <2>3. Own(p, opt[p], g, term[g.win])
    BY <2>2 DEF Own, Basic, Whole, Spared, Reached, TextSteps, Outside
  <2> QED BY <2>1, <2>2, <2>3, MovesStep
<1> QED BY <1>1, <1>2

LEMMA WindowsInit == TerminalWorld /\ TerminalInit => WindowInv
<1> SUFFICES ASSUME TerminalWorld, TerminalInit PROVE WindowInv
  OBVIOUS
<1>1. opt \in Options
  BY DEF TerminalInit
<1>2. ASSUME NEW p \in Proc
      PROVE  at[p] \in Driver /\ at[p].pc \in Outside /\ (at[p].pc # "done" => at[p].result = "none")
  <2>1. Start(1) \in Driver /\ Start(1).pc = "prepare" /\ Start(1).result = "none"
    BY StartFacts
  <2>2. Ended(Start(1), "none") \in Driver /\ Ended(Start(1), "none").pc = "done"
    BY <2>1, EndedFacts DEF Results
  <2>3. at[p] = Start(1) \/ at[p] = Ended(Start(1), "none")
    BY DEF TerminalInit
  <2> QED BY <2>1, <2>2, <2>3 DEF Outside
<1>3. at \in [Proc -> Driver]
  BY <1>2 DEF TerminalInit
<1>4. PICK f \in [Old -> {"shell", "busy", "idle"}], half, stale \in SUBSET Old :
       /\ \A w \in half : f[w] = "shell"
       /\ \A w \in Old : f[w] = "idle" => w \in stale
       /\ term = [w \in Windows |->
            [fg |-> IF w \in Old THEN f[w] ELSE "none", owner |-> NoOne,
             line |-> IF w \in half THEN <<HalfTyped>> ELSE << >>,
             screen |-> (IF w \in Old THEN {"$"} ELSE {}) \cup
                        (IF w \in stale THEN {"ready"} ELSE {}),
             tasks |-> {}]]
  BY Zenon DEF TerminalInit
<1>5. ASSUME NEW w \in Windows PROVE term[w] \in Pane /\ (w \in Old => term[w].fg # "none")
  <2> DEFINE fg == IF w \in Old THEN f[w] ELSE "none"
             line == IF w \in half THEN <<HalfTyped>> ELSE << >>
             screen == (IF w \in Old THEN {"$"} ELSE {}) \cup (IF w \in stale THEN {"ready"} ELSE {})
  <2>1. term[w] = [fg |-> fg, owner |-> NoOne, line |-> line, screen |-> screen, tasks |-> {}]
    BY <1>4
  <2>2. fg \in Fgs /\ (w \in Old => fg # "none")
    BY DEF Fgs
  <2>3. line \in Seq(Entry)
    <3>1. HalfTyped \in Entry
      BY DEF HalfTyped, Entry
    <3>2. <<HalfTyped>> \in Seq(Entry) /\ << >> \in Seq(Entry)
      BY <3>1
    <3> QED BY <3>2
  <2>4. screen \in SUBSET Marks
    BY DEF Marks
  <2> HIDE DEF fg, line, screen
  <2> QED BY <2>1, <2>2, <2>3, <2>4 DEF Pane
<1>6. term \in [Windows -> Pane] /\ \A w \in Old : term[w].fg # "none"
  BY <1>4, <1>5 DEF Windows
<1>7. \A p \in Proc : Own(p, opt[p], at[p], term[at[p].win])
  BY <1>2 DEF Own, Basic, Whole, Spared, Reached, TextSteps, Outside
<1> QED BY <1>1, <1>3, <1>6, <1>7 DEF WindowInv

LEMMA WindowsStep == TerminalWorld /\ WindowInv /\ [TerminalNext]_terminalVars => WindowInv'
<1> SUFFICES ASSUME TerminalWorld, WindowInv, [TerminalNext]_terminalVars PROVE WindowInv'
  OBVIOUS
<1>1. ASSUME NEW p \in Proc, Step(p) PROVE WindowInv'
  <2>1. CASE Unreachable(p) \/ AwaitConfirm(p)
    BY <2>1, EndsStep DEF Unreachable, AwaitConfirm, Results
  <2>2. CASE ShellReady(p)
    BY <2>2, EndsStep, GoesStep DEF ShellReady, Results, TextSteps
  <2> QED BY <1>1, <2>1, <2>2, PrepareWindows, SendWindows, ReadyWindows, ProbeWindows, RunWindows,
             TimeWindows DEF Step
<1>2. CASE Finished \/ UNCHANGED terminalVars
  BY <1>2 DEF Finished, terminalVars, WindowInv
<1> QED BY <1>1, <1>2, TimeWindows, WorldWindows DEF TerminalNext

-----------------------------------------------------------------------------
(* Who types.                                                              *)

\* A step of a driver moves it, types into its window, or takes a window.
LEMMA StepForms ==
  ASSUME NEW q \in Proc, Step(q) \/ Retry(q)
  PROVE  \/ \E r : Moves(q, r) \/ Touches(q, r)
         \/ \E w, step : Takes(q, w, step)
<1>0. Step(q) \/ Retry(q)
  OBVIOUS
<1>1. CASE FindWindow(q)
  BY <1>1 DEF FindWindow, Opens
<1>2. CASE Unreachable(q) \/ ShellReady(q) \/ AwaitConfirm(q) \/ Deadline(q) \/ Retry(q)
  BY <1>2 DEF Unreachable, ShellReady, AwaitConfirm, Deadline, Retry
<1>3. CASE SendText(q)
  BY <1>3 DEF SendText, Clear, Paste, Enter, SendAll, Loses, Sent
<1>4. CASE AwaitReady(q)
  BY <1>4 DEF AwaitReady, Answers
<1>5. CASE TypeProbe(q) \/ Probed(q)
  BY <1>5 DEF TypeProbe, Probed
<1>6. CASE RunSignal(q) \/ RunSentinel(q)
  BY <1>6 DEF RunSignal, RunSentinel, Succeeds, TimesOut, Snapshot, Answers
<1> QED BY <1>0, <1>1, <1>2, <1>3, <1>4, <1>5, <1>6 DEF Step

\* A driver's place, text, attempt and result change only in its own steps.
Same(p) ==
  /\ at'[p].pc = at[p].pc /\ at'[p].left = at[p].left /\ at'[p].try = at[p].try
  /\ at'[p].result = at[p].result

LEMMA OnlyOwn ==
  ASSUME WindowInv, [TerminalNext]_terminalVars, NEW p \in Proc
  PROVE  Step(p) \/ Retry(p) \/ Same(p)
<1>1. at \in [Proc -> Driver] /\ at[p] \in Driver
  BY DEF WindowInv
<1>2. ASSUME NEW why \in Whys, at'[p] = at[p] \/ at'[p] = Excused(at[p], why) PROVE Same(p)
  BY <1>1, <1>2, ExcusedFacts DEF Same
<1>3. "shared" \in Whys /\ "exited" \in Whys /\ "user" \in Whys
  BY DEF Whys
<1>4. ASSUME NEW q \in Proc, q # p, Step(q) \/ Retry(q) PROVE Same(p)
  <2>1. ASSUME NEW r, Moves(q, r) PROVE Same(p)
    BY <1>1, <1>4, <2>1 DEF Moves, Same
  <2>2. ASSUME NEW r, Touches(q, r) PROVE Same(p)
    <3>1. at'[p] = at[p] \/ at'[p] = Excused(at[p], "shared")
      BY <1>4, <2>2 DEF Touches, Excused
    <3> QED BY <1>2, <1>3, <3>1
  <2>3. ASSUME NEW w, NEW step, Takes(q, w, step) PROVE Same(p)
    <3>1. at'[p] = at[p] \/ at'[p] = Excused(at[p], "shared")
      BY <1>4, <2>3 DEF Takes, Excused
    <3> QED BY <1>2, <1>3, <3>1
  <2> QED BY <1>4, <2>1, <2>2, <2>3, StepForms
<1>5. ASSUME NEW w \in Windows, World(w) PROVE Same(p)
  <2>1. UNCHANGED at \/ Disturbs(w, "exited") \/ Disturbs(w, "user")
    BY <1>5 DEF World, ShellPrints, Boots, Finishes, Exits, Human
  <2>2. \/ at'[p] = at[p] \/ at'[p] = Excused(at[p], "exited")
        \/ at'[p] = Excused(at[p], "user")
    BY <2>1 DEF Disturbs, Excused
  <2> QED BY <1>2, <1>3, <2>2
<1>6. CASE Finished \/ UNCHANGED terminalVars
  BY <1>6 DEF Finished, terminalVars, Same
<1> QED BY <1>4, <1>5, <1>6 DEF TerminalNext

LEMMA TailDiffers ==
  ASSUME NEW s \in Seq(Texts), s # << >>
  PROVE  Tail(s) # s
<1> DEFINE v == Tail(s)
<1>1. v \in Seq(Texts) /\ Len(v) = Len(s) - 1 /\ Len(s) \in Nat
  OBVIOUS
<1> HIDE DEF v
<1>2. v # s
  BY <1>1
<1> QED BY <1>2 DEF v

\* In tmux a text is entered from the step between paste and Enter, and
\* nowhere into a window that is gone.
LEMMA TypesWhere ==
  ASSUME WindowInv, [TerminalNext]_terminalVars, NEW p \in Proc, Types(p)
  PROVE  /\ at[p].pc \in TextSteps /\ ~WindowGone(p)
         /\ InTmux(p) => at[p].pc = "enter"
<1>1. /\ at[p].pc \in {"enter", "send"} /\ at[p].left # << >> /\ at'[p].left = Tail(at[p].left)
      /\ at'[p].result # "failed"
  BY DEF Types
<1>2. at[p] \in Driver /\ at[p].result = "none" /\ at \in [Proc -> Driver]
  BY <1>1 DEF WindowInv, Own, Basic
<1>3. at'[p].left # at[p].left
  BY <1>1, <1>2, TailDiffers DEF Driver
<1>4. Step(p) \/ Retry(p)
  BY <1>3, OnlyOwn DEF Same
<1>5. SendText(p)
  BY <1>1, <1>2, <1>4 DEF Step, Retry, MayRetry, FindWindow, Unreachable, ShellReady, AwaitReady,
     TypeProbe, Probed, AwaitConfirm, RunSignal, RunSentinel, Deadline
<1>6. ~Clear(p)
  <2> SUFFICES ASSUME Clear(p) PROVE FALSE
    OBVIOUS
  <2>1. at'[p] = Goes(at[p], "paste")
    BY DEF Clear, Touches
  <2> QED BY <1>2, <1>3, <2>1, GoesFacts DEF PSteps
<1>7. ~Loses(p)
  <2> SUFFICES ASSUME Loses(p) PROVE FALSE
    OBVIOUS
  <2>1. at'[p] = Ended(at[p], "failed")
    BY <1>2 DEF Loses, Moves
  <2> QED BY <1>1, <1>2, <2>1, EndedFacts DEF Results
<1>8. Enter(p) \/ SendAll(p)
  BY <1>1, <1>5, <1>6, <1>7 DEF SendText, Paste
<1> QED BY <1>1, <1>8 DEF Enter, SendAll, TextSteps

-----------------------------------------------------------------------------
\* For all goals, jobs, windows and options: in tmux a goal never types into a
\* program that was running when it was told to use the window.
THEOREM SparedTheorem ==
  ASSUME TerminalWorld
  PROVE  TerminalSpec => BusyIsSpared
<1>1. TerminalInit => WindowInv
  BY WindowsInit
<1>2. WindowInv /\ [TerminalNext]_terminalVars => WindowInv'
  BY WindowsStep
<1>3. WindowInv /\ [TerminalNext]_terminalVars =>
        [\A p \in Goal : Types(p) /\ InTmux(p) /\ Here(p).fg = "busy" =>
           "user" \in at[p].excuse]_terminalVars
  <2> SUFFICES ASSUME WindowInv, [TerminalNext]_terminalVars, NEW p \in Goal, Types(p), InTmux(p),
                      Here(p).fg = "busy"
               PROVE  "user" \in at[p].excuse
    OBVIOUS
  <2>1. p \in Proc /\ at[p].pc \notin Outside
    BY DEF Types, Outside, Proc
  <2> QED BY <2>1, PaneFacts DEF Own, Spared, InTmux
<1> QED BY <1>1, <1>2, <1>3, PTL DEF TerminalSpec, BusyIsSpared

\* ... what Enter submits there is what was pasted ...
THEOREM WholeTheorem ==
  ASSUME TerminalWorld
  PROVE  TerminalSpec => TextWhole
<1>1. TerminalInit => WindowInv
  BY WindowsInit
<1>2. WindowInv /\ [TerminalNext]_terminalVars => WindowInv'
  BY WindowsStep
<1>3. WindowInv /\ [TerminalNext]_terminalVars =>
        [\A p \in Proc : Types(p) /\ InTmux(p) =>
           Here(p).line = <<Text(p)>> \/ "shared" \in at[p].excuse]_terminalVars
  <2> SUFFICES ASSUME WindowInv, [TerminalNext]_terminalVars, NEW p \in Proc, Types(p), InTmux(p),
                      "shared" \notin at[p].excuse
               PROVE  Here(p).line = <<Text(p)>>
    OBVIOUS
  <2>1. at[p].pc = "enter" /\ Here(p).fg # "gone"
    BY TypesWhere DEF WindowGone
  <2>2. Own(p, opt[p], at[p], Here(p))
    BY <2>1, PaneFacts DEF Outside
  <2> QED BY <2>1, <2>2 DEF Own, Whole, InTmux, Text
<1> QED BY <1>1, <1>2, <1>3, PTL DEF TerminalSpec, TextWhole

\* ... and with every backend the prompt goes to the agent that the goal has
\* launched.
THEOREM PromptTheorem ==
  ASSUME TerminalWorld
  PROVE  TerminalSpec => PromptReachesAgent
<1>1. TerminalInit => WindowInv
  BY WindowsInit
<1>2. WindowInv /\ [TerminalNext]_terminalVars => WindowInv'
  BY WindowsStep
<1>3. WindowInv /\ [TerminalNext]_terminalVars =>
        [\A p \in Goal : Types(p) /\ Head(at[p].left) = "prompt" =>
           \/ Here(p).fg = "idle" /\ Here(p).owner = p
           \/ at[p].excuse # {}]_terminalVars
  <2> SUFFICES ASSUME WindowInv, [TerminalNext]_terminalVars, NEW p \in Goal, Types(p),
                      Head(at[p].left) = "prompt", at[p].excuse = {}
               PROVE  Here(p).fg = "idle" /\ Here(p).owner = p
    OBVIOUS
  <2>1. p \in Proc
    BY DEF Proc
  <2>2. at[p].pc \in TextSteps /\ at[p].pc \notin Outside /\ Here(p).fg # "gone"
    BY <2>1, TypesWhere DEF WindowGone, TextSteps, Outside
  <2>3. Own(p, opt[p], at[p], Here(p)) /\ at[p].left # << >>
    BY <2>1, <2>2, PaneFacts, TextFacts
  <2>4. at[p].left \notin Script
    BY <2>3 DEF Script
  <2> QED BY <2>2, <2>3, <2>4 DEF Own, Basic, Reached
<1> QED BY <1>1, <1>2, <1>3, PTL DEF TerminalSpec, PromptReachesAgent

-----------------------------------------------------------------------------
(* What an earlier attempt left behind.                                    *)

\* A text of attempt n of job b can be about.
Recent(b, n) == b \in Job => n <= at[b].try /\ (at[b].pc = "prepare" => n < at[b].try)

Dated(t) ==
  /\ \A i \in 1 .. Len(t.line) : Recent(t.line[i].by, t.line[i].try)
  /\ \A x \in t.tasks : Recent(x.by, x.try)

\* The old file has been removed and the attempt is not over.
Watches(b) == opt[b].mode = "sentinel" /\ at[b].pc \notin {"prepare", "ready", "done"}

\* Every text, task and signal is of an attempt that has begun; the signal of
\* this attempt, and a sentinel file seen after the old one was removed, are there
\* because the attempt's last command has run.
DoneInv ==
  /\ WindowInv
  /\ \A b \in Job : at[b].try > 0
  /\ \A w \in Windows : Dated(term[w])
  /\ signals \subseteq Task
  /\ \A x \in signals : Recent(x.by, x.try)
  /\ \A x \in signals : x.by \in Job /\ x.try = at[x.by].try => x.by \in fresh
  /\ \A b \in Job : b \in sentinel /\ Watches(b) => b \in fresh

\* An attempt keeps its number and does not go back; a job's first step after its
\* window is there is the wait that removes the old sentinel file.
Aged(p) ==
  /\ at'[p].try = at[p].try /\ at'[p].pc # "prepare" /\ at[p].pc # "done"
  /\ at[p].pc = "prepare" /\ p \notin Goal /\ InTmux(p) => at'[p].pc \in {"ready", "done"}
  /\ at[p].pc = "ready" => at'[p].pc \in {"ready", "done"} \/ FreshRun(p)

LEMMA StepAges ==
  ASSUME WindowInv, NEW p \in Proc, Step(p)
  PROVE  Aged(p)
<1>0. at \in [Proc -> Driver] /\ at[p] \in Driver
  BY DEF WindowInv
<1>1. ASSUME NEW r, Moves(p, r) \/ Touches(p, r) PROVE at'[p] = r
  BY <1>0, <1>1 DEF Moves, Touches
<1>2. ASSUME NEW how \in {"ok", "failed", "timeout"}, Moves(p, Ended(at[p], how)),
             at[p].pc # "done"
      PROVE  Aged(p)
  <2>1. at'[p].pc = "done" /\ at'[p].try = at[p].try
    BY <1>0, <1>1, <1>2, EndedFacts DEF Results
  <2> QED BY <1>2, <2>1 DEF Aged
<1>3. ASSUME NEW r \in Driver, Moves(p, r) \/ Touches(p, r), r.try = at[p].try,
             at[p].pc \notin {"prepare", "ready", "done"}, r.pc # "prepare"
      PROVE  Aged(p)
  BY <1>1, <1>3 DEF Aged
<1>4. ASSUME NEW r \in Driver, Moves(p, r) \/ Touches(p, r), r.try = at[p].try,
             at[p].pc \notin {"prepare", "done"}, r.pc = at[p].pc
      PROVE  Aged(p)
  BY <1>1, <1>4 DEF Aged
<1>5. CASE FindWindow(p)
  <2>1. at[p].pc = "prepare"
    BY <1>5 DEF FindWindow
  <2>2. \/ Moves(p, Ended(at[p], "failed"))
        \/ \E w : Takes(p, w, Begins(p))
        \/ ~InTmux(p) /\ \E w : Takes(p, w, "shell")
    BY <1>5 DEF FindWindow, Opens
  <2>3. ASSUME NEW w, NEW step, Takes(p, w, step)
        PROVE  at'[p].pc = step /\ at'[p].try = at[p].try
    <3> DEFINE left == IF p \in Goal THEN Lines ELSE <<"prompt">>
               alone == {q \in Proc \ {p} : at[q].win = w} = {}
               excuse == (IF alone THEN {} ELSE {"shared"})
                           \cup (IF AgentIn(w) THEN {"agent"} ELSE {})
    <3>1. at'[p] = [at[p] EXCEPT !.pc = step, !.win = w, !.left = left, !.excuse = excuse]
      BY <2>3 DEF Takes
    <3> HIDE DEF left, excuse
    <3> QED BY <1>0, <3>1 DEF Driver
  <2>4. CASE \E w : Takes(p, w, Begins(p))
    BY <2>1, <2>3, <2>4 DEF Aged, Begins
  <2>5. CASE ~InTmux(p) /\ \E w : Takes(p, w, "shell")
    BY <2>1, <2>3, <2>5 DEF Aged
  <2> QED BY <1>2, <2>1, <2>2, <2>4, <2>5
<1>6. CASE Unreachable(p) \/ AwaitConfirm(p)
  BY <1>2, <1>6 DEF Unreachable, AwaitConfirm
<1>7. CASE ShellReady(p)
  <2>1. CASE at[p].pc = "shell" /\ Moves(p, Waits(at[p], "send"))
    BY <1>0, <1>3, <2>1, GoesFacts DEF PSteps
  <2> QED BY <1>2, <1>7, <2>1 DEF ShellReady
<1>8. CASE SendText(p)
  <2>1. CASE Clear(p)
    BY <1>0, <1>3, <2>1, GoesFacts DEF Clear, PSteps
  <2>2. ASSUME at[p].pc \in TextSteps
        PROVE  Noticed(p) \in Driver /\ Noticed(p).try = at[p].try
               /\ Noticed(p).left = at[p].left
    BY <2>2, NoticedFacts DEF TextSteps, Outside
  <2>3. CASE Paste(p)
    BY <1>3, <2>2, <2>3, GoesFacts DEF Paste, PSteps, TextSteps
  <2>4. ASSUME NEW c, Sent(p, c), at[p].pc \in {"enter", "send"} PROVE Aged(p)
    <3> DEFINE k == Noticed(p)
               n == [k EXCEPT !.left = Tail(k.left)]
               g == AfterSend(p, n)
    <3>1. at[p].pc \in TextSteps
      BY <2>4 DEF TextSteps
    <3>2. k \in Driver /\ k.try = at[p].try /\ k.left = at[p].left
      BY <2>2, <3>1
    <3>3. Tail(k.left) \in Seq(Texts)
      BY <3>1, <3>2, TextFacts
    <3>4. Touches(p, g)
      BY <2>4 DEF Sent
    <3> HIDE DEF k
    <3>5. n \in Driver /\ n.try = at[p].try
      BY <3>2, <3>3 DEF Driver
    <3> HIDE DEF n
    <3>6. g \in Driver /\ g.pc # "prepare" /\ g.try = at[p].try
      <4>1. CASE g = Ended(n, "ok")
        BY <3>5, <4>1, EndedFacts DEF Results
      <4>2. CASE \E step \in {"send", "ready", "confirm", "complete"} :
                   g = Goes(n, step) \/ g = Waits(n, step)
        BY <3>5, <4>2, GoesFacts DEF PSteps
      <4> QED BY <4>1, <4>2 DEF AfterSend
    <3> QED BY <1>3, <2>4, <3>4, <3>6
  <2>5. CASE Enter(p) \/ SendAll(p)
    BY <1>2, <2>4, <2>5 DEF Enter, SendAll
  <2>6. CASE Loses(p)
    BY <1>2, <2>6 DEF Loses
  <2> QED BY <1>8, <2>1, <2>3, <2>5, <2>6 DEF SendText
<1>9. ASSUME Answers(p), at[p].pc \in {"ready", "complete"} PROVE Aged(p)
  <2> DEFINE skips == at[p].skipped \cup Unanswered(p)
             g == [at[p] EXCEPT !.skipped = skips, !.prev = {}]
  <2>1. Touches(p, g)
    BY <1>9 DEF Answers
  <2>2. Here(p) \in Pane
    BY <1>9, PaneFacts DEF Outside
  <2>3. skips \in SUBSET Marks
    BY <1>0, <2>2 DEF Driver, Pane, Unanswered
  <2> HIDE DEF skips
  <2>4. g \in Driver /\ g.try = at[p].try /\ g.pc = at[p].pc
    BY <1>0, <2>3 DEF Driver
  <2> HIDE DEF g
  <2> QED BY <1>4, <1>9, <2>1, <2>4
<1>10. CASE AwaitReady(p)
  <2>1. at[p].pc = "ready"
    BY <1>10 DEF AwaitReady
  <2>2. CASE Moves(p, AfterReady(p)) /\ FreshRun(p)
    <3> DEFINE left == IF OneShot(p) THEN << >> ELSE <<"prompt">>
               s == [at[p] EXCEPT !.left = left]
               step == IF OneShot(p) THEN "confirm" ELSE IF p \in Goal THEN "probe" ELSE "send"
    <3>1. left \in Seq(Texts)
      <4>1. << >> \in Seq(Texts) /\ <<"prompt">> \in Seq(Texts)
        BY DEF Texts
      <4> QED BY <4>1
    <3> HIDE DEF left
    <3>2. s \in Driver /\ s.try = at[p].try
      BY <1>0, <3>1 DEF Driver
    <3>3. at'[p] = Waits(s, step)
      BY <1>1, <2>2 DEF AfterReady, left
    <3> HIDE DEF s
    <3>4. at'[p].try = at[p].try /\ at'[p].pc # "prepare"
      BY <3>2, <3>3, GoesFacts DEF PSteps
    <3> QED BY <2>1, <2>2, <3>4 DEF Aged
  <2>3. CASE Moves(p, at[p])
    BY <1>0, <1>4, <2>1, <2>3
  <2>4. CASE Moves(p, [at[p] EXCEPT !.prev = Here(p).screen])
    <3>1. Here(p) \in Pane
      BY <2>1, PaneFacts DEF Outside
    <3>2. Here(p).screen \in SUBSET Marks
      BY <3>1 DEF Pane
    <3> DEFINE g == [at[p] EXCEPT !.prev = Here(p).screen]
    <3>3. g \in Driver /\ g.try = at[p].try /\ g.pc = at[p].pc
      BY <1>0, <3>2 DEF Driver
    <3>4. Moves(p, g)
      BY <2>4
    <3> HIDE DEF g
    <3> QED BY <1>4, <2>1, <3>3, <3>4
  <2> QED BY <1>2, <1>9, <1>10, <2>1, <2>2, <2>3, <2>4 DEF AwaitReady
<1>11. CASE TypeProbe(p) \/ Probed(p)
  <2>1. at[p].pc \in {"probe", "probed"}
    BY <1>11 DEF TypeProbe, Probed
  <2>2. ASSUME NEW step \in {"send", "probed"}, NEW g \in {Goes(at[p], step), Waits(at[p], step)},
               Moves(p, g) \/ Touches(p, g)
        PROVE  Aged(p)
    BY <1>0, <1>3, <2>1, <2>2, GoesFacts DEF PSteps
  <2>3. CASE \/ Touches(p, Waits(at[p], "probed")) \/ Moves(p, Goes(at[p], "send"))
             \/ Touches(p, Waits(at[p], "send"))
    BY <2>2, <2>3
  <2> QED BY <1>2, <1>11, <2>1, <2>3 DEF TypeProbe, Probed
<1>12. CASE RunSignal(p) \/ RunSentinel(p)
  <2>1. at[p].pc = "complete"
    BY <1>12 DEF RunSignal, RunSentinel
  <2>2. Answers(p) \/ \E how \in {"ok", "failed", "timeout"} : Moves(p, Ended(at[p], how))
    BY <1>12 DEF RunSignal, RunSentinel, Succeeds, TimesOut, Snapshot
  <2> QED BY <1>2, <1>9, <2>1, <2>2
<1>13. CASE Deadline(p)
  <2> DEFINE g == [at[p] EXCEPT !.due = TRUE]
  <2>1. g \in Driver /\ g.try = at[p].try /\ g.pc = at[p].pc
    BY <1>0 DEF Driver
  <2>2. Moves(p, g) /\ at[p].pc \notin {"prepare", "done"}
    BY <1>13 DEF Deadline
  <2> HIDE DEF g
  <2> QED BY <1>4, <2>1, <2>2
<1> QED BY <1>5, <1>6, <1>7, <1>8, <1>10, <1>11, <1>12, <1>13 DEF Step

LEMMA RecentStays ==
  ASSUME WindowInv, [TerminalNext]_terminalVars, NEW b, NEW n \in Nat, Recent(b, n)
  PROVE  Recent(b, n)'
<1> SUFFICES ASSUME b \in Job PROVE n <= at'[b].try /\ (at'[b].pc = "prepare" => n < at'[b].try)
  BY DEF Recent
<1>1. b \in Proc /\ at \in [Proc -> Driver]
  BY DEF Proc, WindowInv
<1>2. at[b].try \in Nat
  BY <1>1 DEF Driver
<1>3. CASE Same(b)
  BY <1>3 DEF Same, Recent
<1>4. CASE Step(b)
  BY <1>1, <1>4, StepAges DEF Aged, Recent
<1>5. CASE Retry(b)
  <2>1. at'[b] = Start(at[b].try + 1)
    BY <1>1, <1>5 DEF Retry, Moves
  <2>2. at'[b].try = at[b].try + 1
    BY <1>2, <2>1, StartFacts
  <2> QED BY <1>2, <2>2 DEF Recent
<1> QED BY <1>1, <1>3, <1>4, <1>5, OnlyOwn

LEMMA AppendDated ==
  ASSUME NEW s \in Seq(Entry), NEW e \in Entry, Recent(e.by, e.try),
         \A i \in 1 .. Len(s) : Recent(s[i].by, s[i].try)
  PROVE  \A i \in 1 .. Len(Append(s, e)) : Recent(Append(s, e)[i].by, Append(s, e)[i].try)
<1> SUFFICES ASSUME NEW i \in 1 .. Len(Append(s, e))
             PROVE  Recent(Append(s, e)[i].by, Append(s, e)[i].try)
  OBVIOUS
<1>1. (i \in 1 .. Len(s) /\ Append(s, e)[i] = s[i]) \/ Append(s, e)[i] = e
  OBVIOUS
<1> QED BY <1>1

\* A prompt on a dated line is dated.
LEMMA PromptsDated ==
  ASSUME NEW c \in Seq(Entry), \A i \in 1 .. Len(c) : Recent(c[i].by, c[i].try)
  PROVE  PromptsIn(c) \in SUBSET Task /\ \A x \in PromptsIn(c) : Recent(x.by, x.try)
<1>1. PromptsIn(c) \in SUBSET Task
  BY PromptsType
<1>2. \A x \in PromptsIn(c) : \E i \in 1 .. Len(c) : x = [by |-> c[i].by, try |-> c[i].try]
  BY DEF PromptsIn
<1> QED BY <1>1, <1>2

\* What a command line leaves: tasks or marks of the texts on it.
Told(X) == X \in SUBSET Task /\ Completes(X) /\ \A x \in X : Recent(x.by, x.try)

LEMMA EnteredDated ==
  ASSUME NEW w, NEW t \in Pane, NEW c \in Seq(Entry), Entered(w, t, c), Dated(t),
         \A i \in 1 .. Len(c) : Recent(c[i].by, c[i].try)
  PROVE  /\ \E u : Puts(w, u) /\ Dated(u)
         /\ UNCHANGED marks \/ \E X : Told(X)
<1> DEFINE P == PromptsIn(c)
<1>1. P \in SUBSET Task /\ \A x \in P : Recent(x.by, x.try)
  BY PromptsDated
<1>2. UNCHANGED marks \/ Completes(P)
  BY DEF Entered
<1> HIDE DEF P
<1>3. UNCHANGED marks \/ \E X : Told(X)
  BY <1>1, <1>2 DEF Told
<1>4. \E u : /\ Puts(w, u) /\ u.line = t.line /\ u.tasks \subseteq t.tasks \cup P
  <2>1. ASSUME NEW f, NEW o, NEW s
        PROVE  LET u == [t EXCEPT !.fg = f, !.owner = o, !.tasks = t.tasks \cup P, !.screen = s]
               IN  u.line = t.line /\ u.tasks \subseteq t.tasks \cup P
    BY DEF Pane
  <2>2. ASSUME NEW f, NEW o
        PROVE  LET u == [t EXCEPT !.fg = f, !.owner = o]
               IN  u.line = t.line /\ u.tasks \subseteq t.tasks \cup P
    BY DEF Pane
  <2>3. ASSUME NEW f, NEW s
        PROVE  LET u == [t EXCEPT !.fg = f, !.tasks = t.tasks \cup P, !.screen = s]
               IN  u.line = t.line /\ u.tasks \subseteq t.tasks \cup P
    BY DEF Pane
  <2>4. ASSUME NEW f, NEW s
        PROVE  LET u == [t EXCEPT !.fg = f, !.screen = s]
               IN  u.line = t.line /\ u.tasks \subseteq t.tasks \cup P
    BY DEF Pane
  <2>5. t.line = t.line /\ t.tasks \subseteq t.tasks \cup P
    OBVIOUS
  <2> QED BY <2>1, <2>2, <2>3, <2>4, <2>5 DEF Entered, P
<1>5. \E u : Puts(w, u) /\ Dated(u)
  <2>1. PICK u : Puts(w, u) /\ u.line = t.line /\ u.tasks \subseteq t.tasks \cup P
    BY <1>4
  <2>2. Dated(u)
    BY <1>1, <2>1 DEF Dated
  <2> QED BY <2>1, <2>2
<1> QED BY <1>3, <1>5

\* No step leaves an undated text, and none but a last command, the beginning of
\* an attempt and the removal of the old file changes a mark.
MarksMove ==
  \/ UNCHANGED marks
  \/ \E X : Told(X)
  \/ \E p \in Proc : FindWindow(p) /\ UNCHANGED <<signals, sentinel>> /\ fresh' \in {fresh, fresh \ {p}}
  \/ UNCHANGED <<signals, fresh>> /\ sentinel' \subseteq sentinel

LEMMA MarksStep ==
  ASSUME DoneInv, [TerminalNext]_terminalVars
  PROVE  (\A w \in Windows : Dated(term'[w])) /\ MarksMove
<1>0. /\ WindowInv /\ term \in [Windows -> Pane] /\ (\A w \in Windows : Dated(term[w]))
      /\ \A b \in Job : at[b].try > 0
  BY DEF DoneInv, WindowInv
<1> DEFINE Good == (\A w \in Windows : Dated(term'[w])) /\ MarksMove
<1>1. ASSUME NEW w \in Windows, NEW u, Puts(w, u), Dated(u), MarksMove PROVE Good
  BY <1>0, <1>1 DEF Puts
<1>2. ASSUME UNCHANGED term, MarksMove PROVE Good
  BY <1>0, <1>2
<1>3. ASSUME NEW t, Dated(t), NEW u, u.line = t.line, u.tasks \subseteq t.tasks PROVE Dated(u)
  BY <1>3 DEF Dated
<1>4. ASSUME NEW t \in Pane, Dated(t), NEW s, \A i \in 1 .. Len(s) : Recent(s[i].by, s[i].try)
      PROVE  Dated([t EXCEPT !.line = s])
  <2> DEFINE u == [t EXCEPT !.line = s]
  <2>1. u.line = s /\ u.tasks = t.tasks
    BY DEF Pane
  <2> HIDE DEF u
  <2>2. Dated(u)
    BY <1>4, <2>1 DEF Dated
  <2> QED BY <2>2 DEF u
<1>5. ASSUME NEW p \in Proc PROVE Recent(p, 0) /\ (at[p].pc # "prepare" => Recent(p, at[p].try))
  <2>1. at[p].try \in Nat
    BY <1>0 DEF WindowInv, Driver
  <2> QED BY <1>0, <2>1 DEF Recent
<1> HIDE DEF Good
<1>6. ASSUME NEW p \in Proc, Step(p) \/ Retry(p) PROVE Good
  <2> DEFINE t == Here(p)
  <2>0. ASSUME at[p].pc \notin Outside
        PROVE  /\ at[p].win \in Windows /\ t = term[at[p].win] /\ t \in Pane /\ Dated(t)
               /\ t.line \in Seq(Entry)
               /\ \A i \in 1 .. Len(t.line) : Recent(t.line[i].by, t.line[i].try)
    BY <1>0, <2>0, PaneFacts DEF Pane, Dated
  <2>1. CASE FindWindow(p)
    <3>1. MarksMove
      BY <2>1 DEF FindWindow, Opens, Takes, MarksMove
    <3>2. CASE UNCHANGED term
      BY <1>2, <3>1, <3>2
    <3>3. CASE \E step : Opens(p, step)
      <4> DEFINE free == {v \in New : term[v].fg = "none"}
                 w == CHOOSE v \in free : TRUE
                 u == [term[w] EXCEPT !.fg = "shell"]
      <4>1. free # {} /\ Puts(w, u)
        BY <3>3 DEF Opens
      <4>2. w \in New
        BY <4>1
      <4> HIDE DEF free, w
      <4>3. w \in Windows /\ term[w] \in Pane
        BY <1>0, <4>2 DEF Windows
      <4>4. u.line = term[w].line /\ u.tasks = term[w].tasks
        BY <4>3 DEF Pane
      <4> HIDE DEF u
      <4>5. Dated(u)
        BY <1>0, <1>3, <4>3, <4>4
      <4> QED BY <1>1, <3>1, <4>1, <4>3, <4>5
    <3> QED BY <2>1, <3>2, <3>3 DEF FindWindow
  <2>2. CASE Unreachable(p) \/ ShellReady(p) \/ AwaitConfirm(p) \/ Deadline(p) \/ Retry(p)
    BY <1>2, <2>2 DEF Unreachable, ShellReady, AwaitConfirm, Deadline, Retry, MarksMove
  <2>3. ASSUME NEW s, Puts(at[p].win, [t EXCEPT !.line = s]), at[p].pc \notin Outside,
               \A i \in 1 .. Len(s) : Recent(s[i].by, s[i].try), UNCHANGED marks
        PROVE  Good
    BY <1>1, <1>4, <2>0, <2>3 DEF MarksMove
  <2>4. ASSUME NEW e \in Entry, Recent(e.by, e.try), at[p].pc \notin Outside
        PROVE  /\ Append(t.line, e) \in Seq(Entry)
               /\ \A i \in 1 .. Len(Append(t.line, e)) :
                    Recent(Append(t.line, e)[i].by, Append(t.line, e)[i].try)
    <3> DEFINE l == t.line
    <3>1. l \in Seq(Entry) /\ \A i \in 1 .. Len(l) : Recent(l[i].by, l[i].try)
      BY <2>0, <2>4
    <3> HIDE DEF l
    <3>2. /\ Append(l, e) \in Seq(Entry)
          /\ \A i \in 1 .. Len(Append(l, e)) : Recent(Append(l, e)[i].by, Append(l, e)[i].try)
      BY <2>4, <3>1, AppendDated
    <3> QED BY <3>2 DEF l
  <2>5. CASE Clear(p) \/ (Probed(p) /\ SeesProbe(p))
    <3>1. Puts(at[p].win, [t EXCEPT !.line = << >>]) /\ UNCHANGED marks /\ at[p].pc \notin Outside
      BY <2>5 DEF Clear, Probed, Outside
    <3>2. \A i \in 1 .. Len(<< >>) : Recent(<< >>[i].by, << >>[i].try)
      OBVIOUS
    <3> QED BY <2>3, <3>1, <3>2
  <2>6. ASSUME at[p].pc \in {"paste", "enter", "send"}
        PROVE  Text(p) \in Entry /\ Recent(Text(p).by, Text(p).try)
    BY <1>0, <1>5, <2>6, TextFacts DEF TextSteps
  <2>7. CASE Paste(p)
    <3> DEFINE shown == Shown(t.screen, Text(p))
               l == Append(t.line, Text(p))
               v == [t EXCEPT !.line = l]
               u == [t EXCEPT !.line = l, !.screen = shown]
    <3>1. Puts(at[p].win, u) /\ UNCHANGED marks /\ at[p].pc = "paste"
      BY <2>7 DEF Paste
    <3>2. /\ at[p].win \in Windows /\ t \in Pane /\ Dated(t)
          /\ \A i \in 1 .. Len(l) : Recent(l[i].by, l[i].try)
      BY <2>0, <2>4, <2>6, <3>1 DEF Outside
    <3> HIDE DEF l, shown
    <3>3. Dated(v)
      BY <1>4, <3>2
    <3>4. u.line = v.line /\ u.tasks = v.tasks
      BY <3>2 DEF Pane
    <3> HIDE DEF u, v
    <3>5. Dated(u)
      BY <1>3, <3>3, <3>4
    <3> QED BY <1>1, <3>1, <3>2, <3>5 DEF MarksMove
  <2>8. ASSUME NEW c \in Seq(Entry), Sent(p, c), at[p].pc \in {"enter", "send"},
               \A i \in 1 .. Len(c) : Recent(c[i].by, c[i].try)
        PROVE  Good
    <3> DEFINE shown == Shown(t.screen, Text(p))
               u == [t EXCEPT !.line = << >>, !.screen = shown]
    <3>1. at[p].win \in Windows /\ t \in Pane /\ Dated(t)
      BY <2>0, <2>8 DEF Outside
    <3>2. Entered(at[p].win, u, c)
      BY <2>8 DEF Sent
    <3>3. shown \in SUBSET Marks /\ << >> \in Seq(Entry)
      <4>1. t.screen \in SUBSET Marks /\ at[p].pc \in TextSteps
        BY <2>8, <3>1 DEF TextSteps, Pane
      <4>2. shown \in SUBSET Marks
        BY <1>0, <4>1, TextFacts
      <4> QED BY <4>2
    <3> HIDE DEF shown
    <3>4. u \in Pane /\ u.line = << >> /\ u.tasks = t.tasks
      BY <3>1, <3>3 DEF Pane
    <3> HIDE DEF u
    <3>5. Dated(u)
      BY <3>1, <3>4 DEF Dated
    <3>6. /\ \E v : Puts(at[p].win, v) /\ Dated(v)
          /\ (UNCHANGED marks) \/ \E X : Told(X)
      BY <2>8, <3>2, <3>4, <3>5, EnteredDated
    <3>7. MarksMove
      BY <3>6 DEF MarksMove
    <3> QED BY <1>1, <3>1, <3>6, <3>7
  <2>9. CASE Enter(p)
    BY <2>0, <2>8, <2>9 DEF Enter, Outside
  <2>10. CASE SendAll(p)
    <3>1. at[p].pc = "send"
      BY <2>10 DEF SendAll
    <3>2. CASE Sent(p, Append(t.line, Text(p)))
      BY <2>4, <2>6, <2>8, <3>1, <3>2 DEF Outside
    <3> QED BY <1>2, <2>10, <3>2 DEF SendAll, MarksMove
  <2>11. CASE Loses(p)
    BY <1>2, <2>11 DEF Loses, MarksMove
  <2>12. ASSUME Answers(p), at[p].pc \notin Outside, MarksMove PROVE Good
    <3>0. PICK l \in {t.line, Append(t.line, Key(p))} :
            \E f, s : Puts(at[p].win, [t EXCEPT !.fg = f, !.screen = s, !.line = l])
      BY <2>12 DEF Answers
    <3>1. PICK f, s : Puts(at[p].win, [t EXCEPT !.fg = f, !.screen = s, !.line = l])
      BY <3>0
    <3> DEFINE v == [t EXCEPT !.line = l]
               u == [t EXCEPT !.fg = f, !.screen = s, !.line = l]
    <3>2. Key(p) \in Entry /\ Recent(Key(p).by, Key(p).try)
      BY <1>5 DEF Key, Entry
    <3>3. \A i \in 1 .. Len(l) : Recent(l[i].by, l[i].try)
      BY <2>0, <2>4, <2>12, <3>0, <3>2
    <3>4. at[p].win \in Windows /\ t \in Pane /\ Dated(t)
      BY <2>0, <2>12
    <3>5. Dated(v)
      BY <1>4, <3>3, <3>4
    <3>6. u.line = v.line /\ u.tasks = v.tasks
      BY <3>4 DEF Pane
    <3> HIDE DEF v
    <3>7. Dated(u)
      BY <1>3, <3>5, <3>6
    <3> QED BY <1>1, <2>12, <3>1, <3>4, <3>7
  <2>13. CASE AwaitReady(p)
    <3>1. MarksMove
      BY <2>13 DEF AwaitReady, FreshRun, MarksMove, marks
    <3>2. at[p].pc \notin Outside /\ (UNCHANGED term \/ Answers(p))
      BY <2>13 DEF AwaitReady, Outside
    <3> QED BY <1>2, <2>12, <3>1, <3>2
  <2>14. CASE TypeProbe(p)
    <3>1. Probe(p) \in Entry /\ Recent(Probe(p).by, Probe(p).try)
      BY <1>5 DEF Probe, Entry
    <3>2. at[p].pc \notin Outside /\ UNCHANGED marks
      BY <2>14 DEF TypeProbe, Outside
    <3>3. CASE Puts(at[p].win, [t EXCEPT !.line = Append(t.line, Probe(p))])
      BY <2>3, <2>4, <3>1, <3>2, <3>3
    <3> QED BY <1>2, <2>14, <3>2, <3>3 DEF TypeProbe, MarksMove
  <2>15. CASE Probed(p) /\ ~SeesProbe(p)
    BY <1>2, <2>15 DEF Probed, MarksMove
  <2>16. CASE RunSignal(p) \/ RunSentinel(p)
    <3>1. MarksMove /\ at[p].pc \notin Outside
      BY <2>16 DEF RunSignal, RunSentinel, MarksMove, Outside
    <3>2. UNCHANGED term \/ Answers(p)
      BY <2>16 DEF RunSignal, RunSentinel, Succeeds, TimesOut, Snapshot
    <3> QED BY <1>2, <2>12, <3>1, <3>2
  <2> QED BY <1>6, <2>1, <2>2, <2>5, <2>7, <2>9, <2>10, <2>11, <2>13, <2>14, <2>15, <2>16
          DEF Step, SendText
<1>7. ASSUME NEW w \in Windows, World(w) PROVE Good
  <2> DEFINE t == term[w]
  <2>0. t \in Pane /\ Dated(t)
    BY <1>0
  <2>1. ASSUME NEW u, Puts(w, u), u.line = t.line, u.tasks \subseteq t.tasks, MarksMove PROVE Good
    BY <1>1, <1>3, <2>0, <2>1
  <2>2. CASE ShellPrints(w)
    <3> DEFINE u == [t EXCEPT !.screen = {"$"}]
    <3>1. u.line = t.line /\ u.tasks \subseteq t.tasks
      BY <2>0 DEF Pane
    <3>2. Puts(w, u) /\ MarksMove
      BY <2>2 DEF ShellPrints, MarksMove
    <3> HIDE DEF u
    <3> QED BY <2>1, <3>1, <3>2
  <2>3. CASE Boots(w)
    <3>1. PICK f, s : Puts(w, [t EXCEPT !.fg = f, !.screen = s])
      BY <2>3 DEF Boots
    <3>2. MarksMove
      BY <2>3 DEF Boots, MarksMove
    <3> DEFINE u == [t EXCEPT !.fg = f, !.screen = s]
    <3>3. u.line = t.line /\ u.tasks \subseteq t.tasks
      BY <2>0 DEF Pane
    <3> QED BY <2>1, <3>1, <3>2, <3>3
  <2>4. CASE Finishes(w)
    <3>0. PICK x \in t.tasks : \E f : Puts(w, [t EXCEPT !.tasks = @ \ {x}, !.fg = f]) /\ Completes({x})
      BY <2>4 DEF Finishes
    <3>1. PICK f : Puts(w, [t EXCEPT !.tasks = @ \ {x}, !.fg = f]) /\ Completes({x})
      BY <3>0
    <3>2. x \in Task /\ Recent(x.by, x.try)
      BY <2>0, <3>1 DEF Pane, Dated
    <3>3. MarksMove
      BY <3>1, <3>2 DEF MarksMove, Told
    <3> DEFINE u == [t EXCEPT !.tasks = @ \ {x}, !.fg = f]
    <3>4. u.line = t.line /\ u.tasks \subseteq t.tasks
      BY <2>0 DEF Pane
    <3> QED BY <2>1, <3>1, <3>3, <3>4
  <2>5. CASE Exits(w)
    <3>1. PICK s : Puts(w, [t EXCEPT !.fg = "shell", !.owner = NoOne, !.tasks = {}, !.screen = s])
      BY <2>5 DEF Exits
    <3> DEFINE u == [t EXCEPT !.fg = "shell", !.owner = NoOne, !.tasks = {}, !.screen = s]
    <3>2. u.line = t.line /\ u.tasks \subseteq t.tasks
      BY <2>0 DEF Pane
    <3>3. MarksMove
      BY <2>5 DEF Exits, MarksMove
    <3> QED BY <2>1, <3>1, <3>2, <3>3
  <2>6. CASE Human(w)
    <3>1. MarksMove
      BY <2>6 DEF Human, MarksMove
    <3>2. ASSUME NEW f, NEW s, Puts(w, [t EXCEPT !.fg = f, !.screen = s]) PROVE Good
      <4> DEFINE u == [t EXCEPT !.fg = f, !.screen = s]
      <4>1. u.line = t.line /\ u.tasks \subseteq t.tasks
        BY <2>0 DEF Pane
      <4> QED BY <2>1, <3>1, <3>2, <4>1
    <3>3. ASSUME NEW f, Puts(w, [t EXCEPT !.fg = f]) PROVE Good
      <4> DEFINE u == [t EXCEPT !.fg = f]
      <4>1. u.line = t.line /\ u.tasks \subseteq t.tasks
        BY <2>0 DEF Pane
      <4> QED BY <2>1, <3>1, <3>3, <4>1
    <3>4. CASE Puts(w, [fg |-> "gone", owner |-> NoOne, line |-> << >>, screen |-> {}, tasks |-> {}])
      <4> DEFINE u == [fg |-> "gone", owner |-> NoOne, line |-> << >>, screen |-> {}, tasks |-> {}]
      <4>1. Dated(u)
        BY DEF Dated
      <4> HIDE DEF u
      <4> QED BY <1>1, <3>1, <3>4, <4>1 DEF u
    <3> QED BY <2>6, <3>2, <3>3, <3>4 DEF Human
  <2> QED BY <1>7, <2>2, <2>3, <2>4, <2>5, <2>6 DEF World
<1>8. ASSUME Finished \/ UNCHANGED terminalVars PROVE Good
  BY <1>2, <1>8 DEF Finished, terminalVars, marks, MarksMove
<1>9. Good
  BY <1>6, <1>7, <1>8 DEF TerminalNext
<1> QED BY <1>9 DEF Good

LEMMA DoneInit == TerminalWorld /\ TerminalInit => DoneInv
<1> SUFFICES ASSUME TerminalWorld, TerminalInit PROVE DoneInv
  OBVIOUS
<1>1. WindowInv
  BY WindowsInit
<1>2. ASSUME NEW p \in Proc PROVE at[p].try = 1
  <2>1. Start(1) \in Driver /\ Start(1).try = 1
    BY StartFacts
  <2>2. Ended(Start(1), "none").try = 1
    BY <2>1, EndedFacts DEF Results
  <2>3. at[p] = Start(1) \/ at[p] = Ended(Start(1), "none")
    BY DEF TerminalInit
  <2> QED BY <2>1, <2>2, <2>3
<1>3. \A b \in Job : at[b].try = 1
  BY <1>2 DEF Proc
<1>4. ASSUME NEW w \in Windows PROVE Dated(term[w])
  <2>1. \E l \in {<<HalfTyped>>, << >>} : term[w].line = l /\ term[w].tasks = {}
    BY DEF TerminalInit
  <2>2. \A i \in 1 .. Len(<<HalfTyped>>) : <<HalfTyped>>[i] = HalfTyped
    OBVIOUS
  <2>3. Recent(HalfTyped.by, HalfTyped.try)
    BY <1>3 DEF Recent, HalfTyped
  <2>4. \A i \in 1 .. Len(<< >>) : FALSE
    OBVIOUS
  <2> QED BY <2>1, <2>2, <2>3, <2>4 DEF Dated
<1>5. signals = {} /\ sentinel = {}
  BY DEF TerminalInit
<1> QED BY <1>1, <1>3, <1>4, <1>5 DEF DoneInv

\* The options are those the processes were started with.
LEMMA OptionsStay ==
  ASSUME [TerminalNext]_terminalVars PROVE opt' = opt
<1>1. ASSUME NEW p, Step(p) \/ Retry(p) PROVE opt' = opt
  <2>1. CASE SendText(p)
    BY <2>1 DEF SendText, Clear, Paste, Enter, SendAll, Loses
  <2> QED BY <1>1, <2>1 DEF Step, FindWindow, Unreachable, ShellReady, AwaitReady, TypeProbe,
             Probed, AwaitConfirm, RunSignal, RunSentinel, Deadline, Retry
<1> QED BY <1>1 DEF TerminalNext, World, Finished, terminalVars

LEMMA DoneStep == TerminalWorld /\ DoneInv /\ [TerminalNext]_terminalVars => DoneInv'
<1> SUFFICES ASSUME TerminalWorld, DoneInv, [TerminalNext]_terminalVars PROVE DoneInv'
  OBVIOUS
<1>1. WindowInv /\ WindowInv'
  BY WindowsStep DEF DoneInv
<1>2. (\A w \in Windows : Dated(term'[w])) /\ MarksMove
  BY MarksStep
<1>3. ASSUME NEW b \in Job
      PROVE  /\ at[b].try \in Nat \ {0}
             /\ \/ Retry(b) /\ at'[b].try = at[b].try + 1 /\ at'[b].pc = "prepare"
                \/ Same(b)
                \/ Step(b) /\ Aged(b)
  <2>1. b \in Proc /\ at \in [Proc -> Driver] /\ at[b] \in Driver
    BY <1>1 DEF Proc, WindowInv
  <2>2. at[b].try \in Nat \ {0}
    BY <2>1 DEF Driver, DoneInv
  <2>3. CASE Retry(b)
    <3>1. at'[b] = Start(at[b].try + 1)
      BY <2>1, <2>3 DEF Retry, Moves
    <3>2. at'[b].try = at[b].try + 1 /\ at'[b].pc = "prepare"
      BY <2>2, <3>1, StartFacts
    <3> QED BY <2>2, <2>3, <3>2
  <2> QED BY <1>1, <2>1, <2>2, <2>3, OnlyOwn, StepAges
<1>4. \A b \in Job : at'[b].try > 0
  BY <1>3 DEF Same, Aged
<1> DEFINE Later(b, n) == b \in Job => n <= at'[b].try /\ (at'[b].pc = "prepare" => n < at'[b].try)
<1>5. ASSUME NEW b, NEW n \in Nat, Recent(b, n) PROVE Later(b, n)
  <2>1. Recent(b, n)'
    BY <1>1, <1>5, RecentStays
  <2> QED BY <2>1 DEF Recent
<1> HIDE DEF Later
<1>6. ASSUME NEW w \in Windows PROVE Dated(term[w])'
  <2> DEFINE u == term'[w]
  <2>1. u \in Pane /\ Dated(u)
    BY <1>1, <1>2 DEF WindowInv
  <2>2. u.line \in Seq(Entry) /\ u.tasks \subseteq Task
    BY <2>1 DEF Pane
  <2>3. \A i \in 1 .. Len(u.line) : u.line[i].try \in Nat
    <3> DEFINE l == u.line
    <3>1. l \in Seq(Entry)
      BY <2>2
    <3> HIDE DEF l
    <3>2. \A i \in 1 .. Len(l) : l[i] \in Entry
      BY <3>1
    <3> QED BY <3>2 DEF Entry, l
  <2>4. \A x \in u.tasks : x.try \in Nat
    BY <2>2 DEF Task
  <2>5. /\ \A i \in 1 .. Len(u.line) : Later(u.line[i].by, u.line[i].try)
        /\ \A x \in u.tasks : Later(x.by, x.try)
    BY <1>5, <2>1, <2>3, <2>4 DEF Dated
  <2> QED BY <2>5 DEF Dated, Recent, Later
<1>7. ASSUME NEW x \in signals'
      PROVE  /\ x \in Task /\ Later(x.by, x.try)
             /\ x.by \in Job /\ x.try = at'[x.by].try => x.by \in fresh'
  <2>1. CASE x \notin signals
    <3>1. PICK X : Told(X)
      BY <1>2, <1>7, <2>1 DEF MarksMove, marks
    <3>2. x \in X /\ x.by \in Job
      BY <1>7, <2>1, <3>1 DEF Told, Completes
    <3>3. x \in Task /\ x.try \in Nat /\ Recent(x.by, x.try)
      BY <3>1, <3>2 DEF Told, Task
    <3>4. x.by \in fresh'
      BY <3>1, <3>2 DEF Told, Completes
    <3> QED BY <1>5, <3>3, <3>4
  <2>2. CASE x \in signals
    <3>1. x \in Task /\ x.try \in Nat /\ Recent(x.by, x.try)
      BY <2>2 DEF DoneInv, Task
    <3>2. ASSUME x.by \in Job, x.try = at'[x.by].try PROVE x.by \in fresh'
      <4>1. x.try = at[x.by].try /\ at[x.by].pc # "prepare"
        BY <1>3, <3>1, <3>2 DEF Recent, Same, Aged
      <4>2. x.by \in fresh
        BY <2>2, <3>2, <4>1 DEF DoneInv
      <4>3. CASE \E p \in Proc : FindWindow(p) /\ fresh' \in {fresh, fresh \ {p}}
        BY <4>1, <4>2, <4>3 DEF FindWindow
      <4>4. CASE \E X : Told(X)
        BY <4>2, <4>4 DEF Told, Completes
      <4> QED BY <1>2, <4>2, <4>3, <4>4 DEF MarksMove, marks
    <3> QED BY <1>5, <3>1, <3>2
  <2> QED BY <2>1, <2>2
<1>8. ASSUME NEW b \in Job, b \in sentinel', Watches(b)' PROVE b \in fresh'
  <2>0. b \in Proc /\ opt' = opt /\ opt[b].mode = "sentinel" /\ InTmux(b) /\ b \notin Goal
    <3>1. opt' = opt /\ opt \in Options
      BY <1>1, OptionsStay DEF WindowInv
    <3> QED BY <1>8, <3>1 DEF TerminalWorld, InTmux, Proc, Watches
  <2>1. CASE b \notin sentinel
    <3>1. PICK X : Told(X)
      BY <1>2, <1>8, <2>1 DEF MarksMove, marks
    <3> QED BY <1>8, <2>1, <3>1 DEF Told, Completes, SentinelOf
  <2>2. CASE b \in sentinel /\ Watches(b)
    <3>1. b \in fresh /\ at[b].pc # "prepare"
      BY <2>2 DEF DoneInv, Watches
    <3>2. CASE \E p \in Proc : FindWindow(p) /\ fresh' \in {fresh, fresh \ {p}}
      BY <3>1, <3>2 DEF FindWindow
    <3>3. CASE \E X : Told(X)
      BY <3>1, <3>3 DEF Told, Completes
    <3> QED BY <1>2, <3>1, <3>2, <3>3 DEF MarksMove, marks
  <2>3. CASE b \in sentinel /\ ~Watches(b)
    <3>1. at[b].pc \in {"prepare", "ready", "done"} /\ at'[b].pc \notin {"prepare", "ready", "done"}
      BY <1>8, <2>0, <2>3 DEF Watches
    <3>2. Aged(b)
      BY <1>3, <3>1 DEF Same
    <3>3. FreshRun(b)
      BY <2>0, <3>1, <3>2 DEF Aged
    <3> QED BY <1>8, <2>0, <3>3 DEF FreshRun, SentinelOf
  <2> QED BY <2>1, <2>2, <2>3
<1>9. /\ signals' \subseteq Task /\ \A x \in signals' : Later(x.by, x.try)
      /\ \A x \in signals' : x.by \in Job /\ x.try = at'[x.by].try => x.by \in fresh'
  BY <1>7
<1> QED BY <1>1, <1>4, <1>6, <1>8, <1>9 DEF DoneInv, Recent, Later

\* A job that run_signal or run_sentinel reports as done has had its last command
\* run since the attempt began: the signal has the attempt in its name, and the
\* file that an earlier attempt left was removed before this one's wait, however
\* often the scheduler retries and whatever is typed into the window.
THEOREM CompletionTheorem ==
  ASSUME TerminalWorld
  PROVE  TerminalSpec => CompletionIsOwn
<1>1. TerminalInit => DoneInv
  BY DoneInit
<1>2. DoneInv /\ [TerminalNext]_terminalVars => DoneInv'
  BY DoneStep
<1>3. DoneInv /\ [TerminalNext]_terminalVars =>
        [\A p \in Job : at[p].pc = "complete" /\ at'[p].result = "ok" => p \in fresh]_terminalVars
  <2> SUFFICES ASSUME DoneInv, [TerminalNext]_terminalVars, NEW p \in Job, at[p].pc = "complete",
                      at'[p].result = "ok"
               PROVE  p \in fresh
    OBVIOUS
  <2>1. /\ WindowInv /\ p \in Proc /\ at \in [Proc -> Driver] /\ at[p] \in Driver
        /\ at[p].result = "none" /\ at[p].try \in Nat
    BY PaneFacts DEF DoneInv, WindowInv, Proc, Outside, Driver
  <2>2. Step(p)
    BY <2>1, OnlyOwn DEF Same, Retry, MayRetry
  <2>3. RunSignal(p) \/ RunSentinel(p) \/ Deadline(p)
    <3>1. ~SendText(p)
      BY DEF SendText, Clear, Paste, Enter, SendAll, Loses
    <3> QED BY <2>2, <3>1 DEF Step, FindWindow, Unreachable, ShellReady, AwaitReady, TypeProbe,
               Probed, AwaitConfirm
  <2>4. ASSUME NEW how \in {"failed", "timeout"}, Moves(p, Ended(at[p], how)) PROVE FALSE
    <3>1. at'[p].result = how
      BY <2>1, <2>4, EndedFacts DEF Moves, Results
    <3> QED BY <2>4, <3>1
  <2>5. ~Deadline(p)
    <3>1. ASSUME Moves(p, [at[p] EXCEPT !.due = TRUE]) PROVE at'[p].result = "none"
      BY <2>1, <3>1 DEF Moves, Driver
    <3> QED BY <3>1 DEF Deadline
  <2>6. ~Answers(p)
    <3> DEFINE skips == at[p].skipped \cup Unanswered(p)
               r == [at[p] EXCEPT !.skipped = skips, !.prev = {}]
    <3>1. r.result = "none"
      BY <2>1 DEF Driver
    <3>2. ASSUME Touches(p, r) PROVE at'[p] = r
      BY <2>1, <3>2 DEF Touches
    <3>3. ASSUME Answers(p) PROVE Touches(p, r)
      BY <3>3 DEF Answers
    <3> HIDE DEF r
    <3> QED BY <3>1, <3>2, <3>3
  <2>7. ~TimesOut(p) /\ ~Snapshot(p)
    BY <2>4, <2>6 DEF TimesOut, Snapshot
  <2>8. CASE RunSignal(p)
    <3>1. SignalOf(p) \in signals
      BY <2>7, <2>8 DEF RunSignal, Succeeds
    <3>2. SignalOf(p).by = p /\ SignalOf(p).try = at[p].try
      BY DEF SignalOf
    <3> QED BY <3>1, <3>2 DEF DoneInv
  <2>9. CASE RunSentinel(p)
    <3>1. p \in sentinel /\ Watches(p)
      BY <2>7, <2>9 DEF RunSentinel, Succeeds, SentinelOf, Watches
    <3> QED BY <3>1 DEF DoneInv
  <2> QED BY <2>3, <2>5, <2>8, <2>9
<1> QED BY <1>1, <1>2, <1>3, PTL DEF TerminalSpec, CompletionIsOwn
=============================================================================
