--------------------------- MODULE EventLogProofs ---------------------------
(***************************************************************************)
(* The event log for every set of processes and every bound: the types,    *)
(* mutual exclusion of emitters across stale-lock reclaims, ids that only  *)
(* grow along the file, and the refinement of EventStream.                 *)
(***************************************************************************)
EXTENDS EventLog, TLAPS

\* The step names are steps.
LEMMA StepNames ==
  /\ \A s \in {"create", "own", "read1", "probe1", "guard", "read2", "probe2",
               "link", "probe3", "ident", "unlink", "deadline"} : s \in Steps
  /\ \A s \in {"dead", "idle", "count", "truncate", "counter", "append", "drop"} :
       s \in Steps
  BY DEF Steps, EmitSteps, LockSteps, WriteSteps

\* The lock file an emit creates is an inode.
LEMMA MineIsInode == ASSUME TypeOK, NEW p \in Proc PROVE Mine(p) \in Inode
  BY DEF TypeOK, Mine, Inode

\* Appending an element of S to a sequence over S.
LEMMA AppendTyped == \A S : \A s \in Seq(S) : \A e \in S : Append(s, e) \in Seq(S)
  OBVIOUS

\* What Init and every step of emit and of its environment leave well typed.
LEMMA InitTypeOK == Init => TypeOK
<1> SUFFICES ASSUME Init PROVE TypeOK
  OBVIOUS
<1>1. pc \in [Proc -> Steps] /\ made \in [Proc -> 0 .. MaxEmits]
  BY BoundsAssumption, StepNames DEF Init
<1>2. seen \in [Proc -> Inode \cup {NoFile}] /\ expired \in [Proc -> BOOLEAN]
  BY DEF Init
<1>3. cnt \in [Proc -> Nat] /\ log \in Seq(Event)
  BY DEF Init
<1>4. crashes \in 0 .. MaxCrashes
  BY BoundsAssumption DEF Init
<1>5. /\ lock \in Inode \cup {NoFile} /\ named \subseteq Inode /\ aged \subseteq Inode
      /\ guard \subseteq Proc /\ counter \in Nat \cup {Absent, Corrupt}
      /\ torn \in BOOLEAN /\ acked \subseteq Inode
  BY DEF Init
<1> QED BY <1>1, <1>2, <1>3, <1>4, <1>5, Zenon DEF TypeOK

LEMMA NextTypeOK == TypeOK /\ [Next]_vars => TypeOK'
<1> SUFFICES ASSUME TypeOK, [Next]_vars PROVE TypeOK'
  OBVIOUS
<1> USE StepNames DEF TypeOK, Goto, lockVars, logVars
<1>1. ASSUME NEW p \in Proc, Begin(p) PROVE TypeOK'
  BY <1>1, BoundsAssumption DEF Begin
<1>2. ASSUME NEW p \in Proc, Acquire(p) PROVE TypeOK'
  <2>1. CASE Create(p)
    <3>1. Mine(p) \in Inode
      BY MineIsInode
    <3>2. PICK step \in {"own", "read1", "deadline"} : pc' = [pc EXCEPT ![p] = step]
      BY <2>1 DEF Create
    <3>3. pc' \in [Proc -> Steps]
      BY <3>2
    <3>4. lock' \in Inode \cup {NoFile}
      BY <2>1, <3>1 DEF Create
    <3> QED BY <2>1, <3>3, <3>4 DEF Create
  <2>2. CASE WriteOwner(p)
    BY <2>2, MineIsInode DEF WriteOwner
  <2>3. CASE ReadOwner(p, "read1", "probe1") \/ ReadOwner(p, "read2", "probe2")
    BY <2>3 DEF ReadOwner
  <2>4. CASE \/ Probe(p, "probe1", "guard", "deadline")
             \/ Probe(p, "probe2", "link", "deadline")
             \/ Probe(p, "probe3", "ident", "deadline")
    BY <2>4 DEF Probe
  <2>5. CASE TryGuard(p)
    BY <2>5 DEF TryGuard
  <2>6. CASE Link(p)
    BY <2>6 DEF Link
  <2>7. CASE Identify(p) \/ Unlink(p) \/ Deadline(p)
    BY <2>7 DEF Identify, Unlink, Deadline
  <2> QED BY <1>2, <2>1, <2>2, <2>3, <2>4, <2>5, <2>6, <2>7 DEF Acquire
<1>3. ASSUME NEW p \in Proc, Write(p) PROVE TypeOK'
  <2>1. CASE Count(p)
    <3>1. ReadCounter \in Nat
      BY DEF ReadCounter, Absent, Corrupt
    <3> QED BY <2>1, <3>1 DEF Count
  <2>2. CASE Truncate(p) \/ WriteCounter(p)
    <3>1. counter' \in Nat \cup {Absent, Corrupt}
      BY <2>2 DEF Truncate, WriteCounter
    <3> QED BY <2>2, <3>1 DEF Truncate, WriteCounter
  <2>3. CASE AppendLine(p)
    <3>1. /\ Line(Mine(p), cnt[p] + 1, TRUE) \in Event
          /\ Line(Mine(p), cnt[p] + 1, FALSE) \in Event
      <4>1. Mine(p) \in Inode /\ cnt[p] + 1 \in Nat
        BY MineIsInode
      <4> QED BY <4>1, Zenon DEF Line, Event
    <3>2. log' \in Seq(Event)
      <4>1. \/ log' = log
            \/ log' = Append(log, Line(Mine(p), cnt[p] + 1, TRUE))
            \/ log' = Append(log, Line(Mine(p), cnt[p] + 1, FALSE))
        BY <2>3, Zenon DEF AppendLine, Appended
      <4>2. log \in Seq(Event)
        OBVIOUS
      <4> QED BY <4>1, <4>2, <3>1, AppendTyped, Zenon
    <3> QED BY <2>3, <3>2, MineIsInode DEF AppendLine
  <2>4. CASE Drop(p)
    BY <2>4 DEF Drop
  <2> QED BY <1>3, <2>1, <2>2, <2>3, <2>4 DEF Write
<1>4. ASSUME NEW p \in Proc, Exit(p) \/ Spawn(p) \/ Expire(p) PROVE TypeOK'
  BY <1>4 DEF Exit, Spawn, Expire
<1>5. ASSUME NEW p \in Proc, Crash(p) PROVE TypeOK'
  BY <1>5, BoundsAssumption DEF Crash
<1>6. CASE Age
  BY <1>6 DEF Age
<1>7. CASE UNCHANGED vars
  BY <1>7 DEF vars
<1> QED BY <1>1, <1>2, <1>3, <1>4, <1>5, <1>6, <1>7 DEF Next, Emit

\* Every variable of the event log keeps its type.
THEOREM TypeCorrect == Spec => []TypeOK
  BY InitTypeOK, NextTypeOK, PTL DEF Spec

-----------------------------------------------------------------------------
\* Only Begin starts an emit, and it starts a new one.
LEMMA NextMoves ==
  ASSUME TypeOK, [Next]_vars, NEW q \in Proc
  PROVE  \/ made'[q] = made[q] /\ (pc'[q] \in EmitSteps => pc[q] \in EmitSteps)
         \/ made'[q] = made[q] + 1 /\ pc[q] = "idle"
<1> USE DEF TypeOK, Goto, EmitSteps, LockSteps, WriteSteps
<1>1. ASSUME NEW p \in Proc, Begin(p) \/ Exit(p) \/ Spawn(p) \/ Crash(p) \/ Expire(p)
      PROVE  \/ made'[q] = made[q] /\ (pc'[q] \in EmitSteps => pc[q] \in EmitSteps)
             \/ made'[q] = made[q] + 1 /\ pc[q] = "idle"
  BY <1>1 DEF Begin, Exit, Spawn, Crash, Expire
<1>2. ASSUME NEW p \in Proc, Acquire(p)
      PROVE  made'[q] = made[q] /\ (pc'[q] \in EmitSteps => pc[q] \in EmitSteps)
  BY <1>2 DEF Acquire, Create, WriteOwner, ReadOwner, Probe, TryGuard, Link,
              Identify, Unlink, Deadline
<1>3. ASSUME NEW p \in Proc, Write(p)
      PROVE  made'[q] = made[q] /\ (pc'[q] \in EmitSteps => pc[q] \in EmitSteps)
  BY <1>3 DEF Write, Count, Truncate, WriteCounter, AppendLine, Drop
<1>4. CASE Age \/ UNCHANGED vars
  BY <1>4 DEF Age, vars
<1> QED BY <1>1, <1>2, <1>3, <1>4 DEF Next, Emit

\* An emit that has ended stays ended, whatever later gets its pid.
LEMMA OverStable ==
  ASSUME TypeOK, [Next]_vars, NEW i \in Inode, Over(i)
  PROVE  Over(i)'
<1>1. i[1] \in Proc /\ i[2] \in 0 .. MaxEmits
  BY DEF Inode
<1>2. made[i[1]] \in Nat
  BY <1>1, BoundsAssumption DEF TypeOK
<1>3. "idle" \notin EmitSteps
  BY DEF EmitSteps, LockSteps, WriteSteps
<1> QED BY <1>1, <1>2, <1>3, NextMoves, BoundsAssumption DEF Over, Live

\* A stale answer is only ever given for the lock of an emit that has ended.
LEMMA StaleIsOver ==
  ASSUME BinaryReplaced = FALSE, TypeOK, AgedIsOver, NEW i \in Inode, i[2] <= made[i[1]],
         TRUE \in Staleness(i)
  PROVE  Over(i)
<1>1. "dead" \notin EmitSteps
  BY DEF EmitSteps, LockSteps, WriteSteps
<1>2. i # NoFile
  BY EnvironmentAssumption
<1>3. i \in aged \/ pc[i[1]] = "dead"
  BY <1>2 DEF Staleness
<1> QED BY <1>1, <1>3 DEF Over, Live, AgedIsOver

LEMMA InitLockInv == Init => LockInv
  BY InitTypeOK DEF Init, LockInv, OwnsLock, AgedIsOver, NoFutureInode,
     OneReclaimer, ReclaimsOver, HoldingSteps, GuardedSteps, WriteSteps

\* The inductive step of mutual exclusion, for emitters that do not stall.
LEMMA NextLockInv ==
  ASSUME HolderMayStall = FALSE, BinaryReplaced = FALSE, LockInv, [Next]_vars
  PROVE  LockInv'
<1>0. TypeOK /\ TypeOK'
  BY NextTypeOK DEF LockInv
<1>a. \A i \in Inode : Over(i) => Over(i)'
  BY <1>0, OverStable
<1>b. \A q \in Proc : /\ made[q] \in Nat /\ made'[q] \in Nat
                      /\ made[q] <= made'[q]
                      /\ made[q] = made'[q] \/ pc[q] = "idle"
  BY <1>0, NextMoves, BoundsAssumption DEF TypeOK
<1>1. AgedIsOver'
  <2>1. CASE Age
    <3>1. lock \in Inode /\ lock # NoFile /\ ~Live(lock)
      BY <2>1, EnvironmentAssumption DEF Age
    <3>2. Over(lock)
      BY <3>1 DEF Over, LockInv, NoFutureInode
    <3> QED BY <2>1, <3>1, <3>2, <1>a, <1>0 DEF Age, AgedIsOver, LockInv, TypeOK
  <2>2. CASE UNCHANGED aged
    BY <2>2, <1>a, <1>0 DEF AgedIsOver, LockInv, TypeOK
  <2> QED BY <2>1, <2>2 DEF Next, vars, lockVars, Begin, Emit, Acquire, Write,
        Exit, Spawn, Crash, Expire, Create, WriteOwner, ReadOwner, Probe,
        TryGuard, Link, Identify, Unlink, Deadline, Count, Truncate,
        WriteCounter, AppendLine, Drop
<1>2. NoFutureInode'
  <2>1. lock' = lock \/ lock' = NoFile \/ \E p \in Proc : lock' = Mine(p)
    BY DEF Next, vars, lockVars, Emit, Acquire, Write, Begin, Exit, Spawn, Crash, Expire, Age, Create, WriteOwner,
          ReadOwner, Probe, TryGuard, Link, Identify, Unlink, Deadline, Count,
          Truncate, WriteCounter, AppendLine, Drop
  <2>2. \A q \in Proc : seen'[q] = seen[q] \/ seen'[q] = lock
    BY <1>0 DEF TypeOK, Next, vars, lockVars, Emit, Acquire, Write, Begin, Exit, Spawn, Crash, Expire, Age, Create, WriteOwner,
          ReadOwner, Probe, TryGuard, Link, Identify, Unlink, Deadline, Count,
          Truncate, WriteCounter, AppendLine, Drop
  <2>3. \A i \in Inode : i[2] <= made[i[1]] => i[2] <= made'[i[1]]
    BY <1>b DEF Inode
  <2>4. lock' # NoFile => lock'[2] <= made'[lock'[1]]
    BY <2>1, <2>3, <1>0, <1>b DEF Mine, LockInv, NoFutureInode, TypeOK
  <2>5. \A q \in Proc : seen'[q] # NoFile => seen'[q][2] <= made'[seen'[q][1]]
    BY <2>2, <2>3, <1>0 DEF LockInv, NoFutureInode, TypeOK
  <2> QED BY <2>4, <2>5 DEF NoFutureInode
<1>3. OneReclaimer'
  <2> USE <1>0 DEF TypeOK, LockInv, OneReclaimer, GuardedSteps, Goto
  <2>0. ASSUME NEW p \in Proc, NEW step \in Steps \ GuardedSteps, Goto(p, step),
               guard' = guard \/ guard' = guard \ {p}
        PROVE  OneReclaimer'
    <3>1. pc'[p] \notin GuardedSteps /\ \A q \in Proc \ {p} : pc'[q] = pc[q]
      BY <2>0
    <3> QED BY <2>0, <3>1
  <2>1. ASSUME NEW p \in Proc, Begin(p) \/ Exit(p) \/ Spawn(p) \/ Crash(p) \/ Expire(p)
        PROVE  OneReclaimer'
    <3>1. CASE Expire(p)
      BY <3>1 DEF Expire, lockVars
    <3>2. CASE Begin(p) \/ Exit(p) \/ Spawn(p) \/ Crash(p)
      <4>1. /\ \E step \in {"create", "dead", "idle"} : pc' = [pc EXCEPT ![p] = step]
            /\ guard' = guard \/ guard' = guard \ {p}
        BY <3>2 DEF Begin, Exit, Spawn, Crash, lockVars
      <4>2. \A step \in {"create", "dead", "idle"} : step \in Steps \ GuardedSteps
        BY StepNames
      <4> QED BY <2>0, <4>1, <4>2
    <3> QED BY <2>1, <3>1, <3>2
  <2>2. ASSUME NEW p \in Proc, Acquire(p) PROVE OneReclaimer'
    <3>1. CASE Create(p) \/ WriteOwner(p) \/ Deadline(p) \/ Unlink(p)
      <4>1. /\ \E step \in {"own", "read1", "deadline", "count", "idle", "create"} :
                 pc' = [pc EXCEPT ![p] = step]
            /\ guard' = guard \/ guard' = guard \ {p}
        BY <3>1 DEF Create, WriteOwner, Deadline, Unlink, lockVars
      <4>2. \A step \in {"own", "read1", "deadline", "count", "idle", "create"} :
              step \in Steps \ GuardedSteps
        BY StepNames
      <4> QED BY <2>0, <4>1, <4>2
    <3>2. CASE ReadOwner(p, "read1", "probe1") \/ ReadOwner(p, "read2", "probe2")
      BY <3>2 DEF ReadOwner
    <3>3. CASE Probe(p, "probe1", "guard", "deadline")
      BY <3>3 DEF Probe
    <3>4. CASE \/ Probe(p, "probe2", "link", "deadline")
               \/ Probe(p, "probe3", "ident", "deadline")
      BY <3>4 DEF Probe
    <3>5. CASE TryGuard(p)
      <4>1. CASE guard = {} /\ guard' = {p} /\ Goto(p, "read2")
        <5>1. \A q \in Proc : pc[q] \notin GuardedSteps
          BY <4>1
        <5>2. \A q \in Proc \ {p} : pc'[q] = pc[q]
          BY <4>1
        <5> QED BY <4>1, <5>1, <5>2
      <4>2. CASE guard' = guard /\ Goto(p, "deadline")
        BY <4>2, <2>0, StepNames
      <4> QED BY <3>5, <4>1, <4>2 DEF TryGuard
    <3>6. CASE Link(p) \/ Identify(p)
      BY <3>6 DEF Link, Identify
    <3> QED BY <2>2, <3>1, <3>2, <3>3, <3>4, <3>5, <3>6 DEF Acquire
  <2>3. ASSUME NEW p \in Proc, Write(p) PROVE OneReclaimer'
    <3>1. /\ \E step \in {"idle", "truncate", "counter", "append", "drop"} :
               pc' = [pc EXCEPT ![p] = step]
          /\ guard' = guard
      BY <2>3 DEF Write, Count, Truncate, WriteCounter, AppendLine, Drop, lockVars
    <3>2. \A step \in {"idle", "truncate", "counter", "append", "drop"} :
            step \in Steps \ GuardedSteps
      BY StepNames
    <3> QED BY <2>0, <3>1, <3>2
  <2>4. CASE Age \/ UNCHANGED vars
    BY <2>4 DEF Age, vars, lockVars
  <2> QED BY <2>1, <2>2, <2>3, <2>4 DEF Next, Emit
<1>c. ASSUME NEW q \in Proc, pc[q] \in HoldingSteps
      PROVE  lock = Mine(q) /\ lock # NoFile /\ Live(lock)
  <2>1. lock = Mine(q) /\ Mine(q) \in Inode
    BY <1>c, <1>0, MineIsInode DEF LockInv, OwnsLock
  <2>2. pc[q] \in EmitSteps
    BY <1>c DEF HoldingSteps, EmitSteps, LockSteps
  <2> QED BY <2>1, <2>2, EnvironmentAssumption DEF Live, Mine
<1>4. ReclaimsOver'
  <2> SUFFICES ASSUME NEW q \in Proc
               PROVE /\ pc'[q] \in {"probe3", "ident", "unlink"} => seen'[q] # NoFile
                     /\ pc'[q] \in {"ident", "unlink"} => Over(seen[q])'
                     /\ pc'[q] = "unlink" => lock' = seen'[q]
    BY DEF ReclaimsOver
  <2> USE <1>0 DEF TypeOK, Goto
  <2>1. /\ pc[q] \in {"probe3", "ident", "unlink"} => seen[q] # NoFile
        /\ pc[q] \in {"ident", "unlink"} => Over(seen[q])
        /\ pc[q] = "unlink" => lock = seen[q]
    BY DEF LockInv, ReclaimsOver
  <2>2. seen[q] # NoFile => seen[q] \in Inode
    OBVIOUS
  <2>3. CASE pc'[q] = pc[q] /\ seen'[q] = seen[q] /\ (lock' = lock \/ lock = NoFile)
    BY <2>1, <2>2, <2>3, <1>a
  <2>4. ASSUME NEW p \in Proc, Create(p) \/ WriteOwner(p) \/ Drop(p) \/ Unlink(p), p # q,
               lock' # lock, lock # NoFile
        PROVE  pc'[q] = pc[q] /\ seen'[q] = seen[q] /\ pc[q] # "unlink"
    <3>1. CASE Unlink(p)
      BY <3>1, <2>4 DEF Unlink, LockInv, OneReclaimer, GuardedSteps
    <3>2. CASE WriteOwner(p) \/ Drop(p)
      <4>1. Live(lock)
        BY <3>2, <1>c DEF WriteOwner, Drop, HoldingSteps, WriteSteps
      <4> QED BY <4>1, <3>2, <2>1, <2>4 DEF WriteOwner, Drop, Over
    <3> QED BY <2>4, <3>1, <3>2 DEF Create
  <2>5. CASE Probe(q, "probe3", "ident", "deadline")
    <3>1. CASE TRUE \in Staleness(seen[q])
      <4>1. Over(seen[q])
        BY <2>5, <3>1, <2>1, <2>2, StaleIsOver DEF Probe, LockInv, NoFutureInode
      <4> QED BY <4>1, <2>5, <2>1, <2>2, <1>a DEF Probe
    <3>2. CASE TRUE \notin Staleness(seen[q])
      BY <3>2, <2>5 DEF Probe
    <3> QED BY <3>1, <3>2
  <2>6. CASE Link(q) \/ Identify(q)
    BY <2>6, <2>1, <2>2, <1>a DEF Link, Identify
  <2>7. ASSUME NEW p \in Proc, Emit(p), p # q
        PROVE  pc'[q] = pc[q] /\ seen'[q] = seen[q]
    BY <2>7 DEF Emit, Acquire, Write, lockVars, Create, WriteOwner, ReadOwner,
          Probe, TryGuard, Link, Identify, Unlink, Deadline, Count, Truncate,
          WriteCounter, AppendLine, Drop
  <2>8. ASSUME NEW p \in Proc, Emit(p), p # q
        PROVE  \/ lock' = lock
               \/ Create(p) \/ WriteOwner(p) \/ Drop(p) \/ Unlink(p)
    BY <2>8 DEF Emit, Acquire, Write, lockVars, ReadOwner, Probe, TryGuard, Link,
          Identify, Deadline, Count, Truncate, WriteCounter, AppendLine
  <2>9. ASSUME NEW p \in Proc, Emit(p), p # q
        PROVE  /\ pc'[q] \in {"probe3", "ident", "unlink"} => seen'[q] # NoFile
               /\ pc'[q] \in {"ident", "unlink"} => Over(seen[q])'
               /\ pc'[q] = "unlink" => lock' = seen'[q]
    <3>1. CASE lock' = lock \/ lock = NoFile
      BY <3>1, <2>3, <2>7, <2>9
    <3>2. CASE lock' # lock /\ lock # NoFile
      BY <3>2, <2>4, <2>8, <2>9, <2>1, <2>2, <1>a
    <3> QED BY <3>1, <3>2
  <2>10. CASE Emit(q)
    <3>1. CASE \/ Create(q) \/ WriteOwner(q) \/ TryGuard(q) \/ Unlink(q) \/ Deadline(q)
               \/ ReadOwner(q, "read1", "probe1") \/ ReadOwner(q, "read2", "probe2")
               \/ Probe(q, "probe1", "guard", "deadline")
               \/ Probe(q, "probe2", "link", "deadline")
      BY <3>1 DEF Create, WriteOwner, TryGuard, Unlink, Deadline, ReadOwner, Probe
    <3>2. CASE Write(q)
      BY <3>2 DEF Write, Count, Truncate, WriteCounter, AppendLine, Drop
    <3> QED BY <2>10, <2>5, <2>6, <3>1, <3>2 DEF Emit, Acquire
  <2>11. ASSUME NEW p \in Proc, Begin(p) \/ Exit(p) \/ Spawn(p) \/ Crash(p) \/ Expire(p)
         PROVE  /\ pc'[q] \in {"dead", "idle", "create"} \/ pc'[q] = pc[q]
                /\ seen'[q] = seen[q] /\ lock' = lock
    BY <2>11 DEF Begin, Exit, Spawn, Crash, Expire, lockVars
  <2>12. CASE Age \/ UNCHANGED vars
    BY <2>12, <2>3 DEF Age, vars, lockVars
  <2> QED BY <2>3, <2>9, <2>10, <2>11, <2>12 DEF Next
<1>5. OwnsLock'
  <2> SUFFICES ASSUME NEW q \in Proc, pc'[q] \in HoldingSteps PROVE lock' = Mine(q)'
    BY DEF OwnsLock
  <2> USE <1>0 DEF TypeOK, Goto, HoldingSteps, WriteSteps
  <2>1. CASE pc[q] \in HoldingSteps /\ lock' = lock
    <3>1. made'[q] = made[q]
      BY <2>1, <1>b
    <3> QED BY <2>1, <3>1, <1>c DEF Mine
  <2>2. ASSUME NEW p \in Proc, Create(p)
        PROVE  lock' = Mine(q)'
    <3>1. CASE p = q
      BY <2>2, <3>1 DEF Create, Mine
    <3>2. CASE p # q
      BY <2>2, <3>2, <2>1, <1>c DEF Create
    <3> QED BY <3>1, <3>2
  <2>3. ASSUME NEW p \in Proc, WriteOwner(p) \/ Drop(p)
        PROVE  lock' = Mine(q)'
    <3>1. CASE p = q
      BY <2>3, <3>1, <2>1 DEF WriteOwner, Drop
    <3>2. CASE p # q
      <4>1. pc[p] \in HoldingSteps /\ pc[q] \in HoldingSteps
        BY <2>3, <3>2 DEF WriteOwner, Drop
      <4> QED BY <4>1, <3>2, <1>c DEF Mine
    <3> QED BY <3>1, <3>2
  <2>4. ASSUME NEW p \in Proc, Unlink(p)
        PROVE  lock' = Mine(q)'
    <3>1. pc[q] \in HoldingSteps
      BY <2>4 DEF Unlink
    <3>2. lock = seen[p] /\ Over(seen[p])
      BY <2>4 DEF Unlink, LockInv, ReclaimsOver
    <3> QED BY <3>1, <3>2, <1>c DEF Over
  <2>5. ASSUME NEW p \in Proc,
               \/ ReadOwner(p, "read1", "probe1") \/ ReadOwner(p, "read2", "probe2")
               \/ Probe(p, "probe1", "guard", "deadline")
               \/ Probe(p, "probe2", "link", "deadline")
               \/ Probe(p, "probe3", "ident", "deadline")
               \/ TryGuard(p) \/ Link(p) \/ Identify(p) \/ Deadline(p)
        PROVE  lock' = Mine(q)'
    BY <2>5, <2>1 DEF ReadOwner, Probe, TryGuard, Link, Identify, Deadline, lockVars
  <2>6. ASSUME NEW p \in Proc,
               Count(p) \/ Truncate(p) \/ WriteCounter(p) \/ AppendLine(p)
        PROVE  lock' = Mine(q)'
    BY <2>6, <2>1 DEF Count, Truncate, WriteCounter, AppendLine, lockVars
  <2>7. ASSUME NEW p \in Proc, Begin(p) \/ Exit(p) \/ Spawn(p) \/ Crash(p) \/ Expire(p)
        PROVE  lock' = Mine(q)'
    BY <2>7, <2>1 DEF Begin, Exit, Spawn, Crash, Expire, lockVars
  <2>8. CASE Age \/ UNCHANGED vars
    BY <2>8, <2>1 DEF Age, vars, lockVars
  <2> QED BY <2>2, <2>3, <2>4, <2>5, <2>6, <2>7, <2>8 DEF Next, Emit, Acquire, Write
<1> QED BY <1>0, <1>1, <1>2, <1>3, <1>4, <1>5 DEF LockInv

\* Two emitters never write at the same time, for any number of commands,
\* kills, pid reuses, failing calls and reclaims of stale locks, provided a
\* live emitter does not hold the lock past LOCK_STALE_AFTER and the name of
\* its executable stays what it recorded.
THEOREM MutexTheorem ==
  ASSUME HolderMayStall = FALSE, BinaryReplaced = FALSE
  PROVE  Spec => []MutualExclusion
<1>1. LockInv => MutualExclusion
  BY DEF LockInv, OwnsLock, MutualExclusion, Mine
<1>2. LockInv /\ [Next]_vars => LockInv'
  BY NextLockInv
<1> QED BY InitLockInv, <1>1, <1>2, PTL DEF Spec
-----------------------------------------------------------------------------
\* Every id in the file is a number.
LEMMA IdsAreNumbers ==
  ASSUME TypeOK PROVE \A i \in 1 .. Len(log) : log[i].id \in Nat
<1>1. \A i \in 1 .. Len(log) : log[i] \in Event
  BY DEF TypeOK
<1>2. \A e \in Event : e.id \in Nat
  BY DEF Event
<1> QED BY <1>1, <1>2

LEMMA InitIdInv == Init => IdInv
  BY InitLockInv DEF Init, IdInv, CounterInv, MonotoneIds, IdsUpTo, Absent, Corrupt

\* Only one emitter is at a writing step.
LEMMA OneWriter ==
  ASSUME LockInv, NEW p \in Proc, NEW q \in Proc,
         pc[p] \in HoldingSteps, pc[q] \in HoldingSteps
  PROVE  p = q
  BY DEF LockInv, OwnsLock, Mine

\* Appending an id above all others keeps the ids growing.
LEMMA AppendGrows ==
  ASSUME NEW s \in Seq(Event), NEW e \in Event, NEW n \in Nat, e.id = n + 1,
         \A i \in 1 .. Len(s) : s[i].id <= n,
         \A i, j \in 1 .. Len(s) : i < j => s[i].id < s[j].id
  PROVE  LET t == Append(s, e) IN
         /\ \A i \in 1 .. Len(t) : t[i].id <= n + 1
         /\ \A i, j \in 1 .. Len(t) : i < j => t[i].id < t[j].id
<1> DEFINE t == Append(s, e)
<1>1. Len(t) = Len(s) + 1 /\ t[Len(s) + 1] = e /\ Len(s) \in Nat
  OBVIOUS
<1>2. \A i \in 1 .. Len(s) : t[i] = s[i] /\ s[i] \in Event
  OBVIOUS
<1>3. \A f \in Event : f.id \in Nat
  BY DEF Event
<1> HIDE DEF t
<1>4. \A i \in 1 .. Len(s) : t[i].id \in Nat /\ t[i].id <= n
  BY <1>2, <1>3
<1>5. \A i \in 1 .. Len(t) : i \in 1 .. Len(s) \/ i = Len(s) + 1
  BY <1>1
<1>6. \A i \in 1 .. Len(t) : t[i].id <= n + 1
  BY <1>1, <1>4, <1>5
<1>7. \A i, j \in 1 .. Len(t) : i < j => t[i].id < t[j].id
  <2> SUFFICES ASSUME NEW i \in 1 .. Len(t), NEW j \in 1 .. Len(t), i < j
               PROVE  t[i].id < t[j].id
    OBVIOUS
  <2>1. i \in 1 .. Len(s)
    BY <1>1, <1>5
  <2>2. CASE j \in 1 .. Len(s)
    BY <2>1, <2>2, <1>2
  <2>3. CASE j = Len(s) + 1
    BY <2>1, <2>3, <1>1, <1>4
  <2> QED BY <2>2, <2>3, <1>5
<1> QED BY <1>6, <1>7 DEF t

\* The counter is never behind the file, at every step of the write protocol.
LEMMA NextIdInv ==
  ASSUME HolderMayStall = FALSE, BinaryReplaced = FALSE,
         "counter" \notin CrashAt, "counter" \notin Faults,
         IdInv, [Next]_vars
  PROVE  IdInv'
<1>0. LockInv /\ LockInv' /\ TypeOK /\ TypeOK'
  BY NextLockInv DEF IdInv, LockInv
<1>a. CounterInv /\ MonotoneIds
  BY DEF IdInv
<1>b. Absent \notin Nat /\ Corrupt \notin Nat /\ Absent # Corrupt
  BY DEF Absent, Corrupt
<1>1. ASSUME NEW p \in Proc, Acquire(p) \/ Begin(p) \/ Exit(p) \/ Spawn(p)
                              \/ Expire(p) \/ Crash(p) \/ Drop(p)
      PROVE  CounterInv' /\ MonotoneIds'
  <2>1. UNCHANGED <<counter, log, cnt>>
    BY <1>1 DEF Acquire, Begin, Exit, Spawn, Expire, Crash, Drop, logVars,
          Create, WriteOwner, ReadOwner, Probe, TryGuard, Link, Identify,
          Unlink, Deadline
  <2>2. \A q \in Proc : pc'[q] = pc[q] \/ (/\ pc[q] # "counter"
                          /\ pc'[q] \notin {"truncate", "counter", "append"})
    <3> USE <1>0 DEF TypeOK, Goto
    <3>1. CASE Begin(p) \/ Exit(p) \/ Spawn(p) \/ Expire(p) \/ Drop(p)
      BY <3>1 DEF Begin, Exit, Spawn, Expire, Drop
    <3>2. CASE Crash(p)
      BY <3>2 DEF Crash
    <3>3. CASE Acquire(p)
      BY <3>3 DEF Acquire, Create, WriteOwner, ReadOwner, Probe, TryGuard, Link,
                  Identify, Unlink, Deadline
    <3> QED BY <1>1, <3>1, <3>2, <3>3
  <2> QED BY <2>1, <2>2, <1>a DEF CounterInv, MonotoneIds, IdsUpTo
<1>2. CASE Age \/ UNCHANGED vars
  <2>1. counter' = counter /\ log' = log /\ cnt' = cnt /\ pc' = pc
    BY <1>2 DEF Age, vars, logVars
  <2>2. MonotoneIds'
    BY <2>1, <1>a DEF MonotoneIds
  <2>3. CounterInv'
    BY <2>1, <1>a, Zenon DEF CounterInv, IdsUpTo
  <2> QED BY <1>0, <2>2, <2>3 DEF IdInv
<1>c. ASSUME NEW p \in Proc, NEW q \in Proc, q # p, pc[p] \in WriteSteps
      PROVE  pc[q] \notin {"truncate", "counter", "append"}
  BY <1>0, <1>c, OneWriter DEF HoldingSteps, WriteSteps
<1>3. ASSUME NEW p \in Proc, Count(p) PROVE CounterInv' /\ MonotoneIds'
  <2> USE <1>0 DEF TypeOK, Goto
  <2>1. counter # Corrupt
    BY <1>3, <1>a, <1>c DEF Count, CounterInv, WriteSteps
  <2>2. IdsUpTo(ReadCounter)
    BY <2>1, <1>a, <1>b DEF CounterInv, ReadCounter, IdsUpTo, Absent
  <2>3. MonotoneIds' /\ log' = log /\ counter' = counter
    BY <1>3, <1>a, <2>1 DEF Count, MonotoneIds
  <2>4. \A q \in Proc : q # p => pc'[q] = pc[q] /\ pc[q] \notin {"truncate", "counter", "append"}
    BY <1>3, <1>c DEF Count, WriteSteps
  <2>5. pc'[p] \in {"drop", "truncate"} /\ cnt'[p] = ReadCounter
    BY <1>3 DEF Count
  <2> QED BY <2>1, <2>2, <2>3, <2>4, <2>5, <1>a DEF CounterInv, IdsUpTo
<1>4. ASSUME NEW p \in Proc, Truncate(p) PROVE CounterInv' /\ MonotoneIds'
  <2> USE <1>0 DEF TypeOK, Goto
  <2>1. \A q \in Proc : q # p => pc'[q] = pc[q] /\ pc[q] \notin {"truncate", "counter", "append"}
    BY <1>4, <1>c DEF Truncate, WriteSteps
  <2>2. IdsUpTo(cnt[p]) /\ pc'[p] = "counter" /\ cnt' = cnt /\ log' = log
        /\ counter' = Corrupt
    BY <1>4, <1>a DEF Truncate, CounterInv
  <2> QED BY <2>1, <2>2, <1>a, <1>b DEF CounterInv, MonotoneIds, IdsUpTo
<1>5. ASSUME NEW p \in Proc, WriteCounter(p) PROVE CounterInv' /\ MonotoneIds'
  <2> USE <1>0 DEF TypeOK, Goto
  <2>1. \A q \in Proc : q # p => pc'[q] = pc[q] /\ pc[q] \notin {"truncate", "counter", "append"}
    BY <1>5, <1>c DEF WriteCounter, WriteSteps
  <2>2. IdsUpTo(cnt[p]) /\ pc'[p] = "append" /\ cnt' = cnt /\ log' = log
        /\ counter' = cnt[p] + 1 /\ cnt[p] \in Nat
    BY <1>5, <1>a DEF WriteCounter, CounterInv
  <2>3. IdsUpTo(cnt[p] + 1)
    BY <2>2, IdsAreNumbers DEF IdsUpTo
  <2>4. MonotoneIds' /\ IdsUpTo(counter)' /\ IdsUpTo(cnt[p])'
    BY <2>2, <2>3, <1>a DEF MonotoneIds, IdsUpTo
  <2>5. counter' \in Nat
    BY <2>2
  <2> QED BY <2>1, <2>2, <2>4, <2>5, <1>b DEF CounterInv
<1>6. ASSUME NEW p \in Proc, AppendLine(p) PROVE CounterInv' /\ MonotoneIds'
  <2> USE <1>0 DEF TypeOK, Goto
  <2>1. \A q \in Proc : pc'[q] \notin {"truncate", "counter", "append"}
    BY <1>6, <1>c DEF AppendLine, WriteSteps
  <2>2. IdsUpTo(cnt[p]) /\ counter' = cnt[p] + 1 /\ cnt[p] \in Nat
    BY <1>6, <1>a DEF AppendLine, CounterInv
  <2>3. /\ Line(Mine(p), cnt[p] + 1, TRUE) \in Event
        /\ Line(Mine(p), cnt[p] + 1, FALSE) \in Event
    <3>1. Mine(p) \in Inode /\ cnt[p] + 1 \in Nat
      BY <2>2, MineIsInode
    <3> QED BY <3>1, Zenon DEF Line, Event
  <2>4. \/ log' = log
        \/ log' = Append(log, Line(Mine(p), cnt[p] + 1, TRUE))
        \/ log' = Append(log, Line(Mine(p), cnt[p] + 1, FALSE))
    BY <1>6, Zenon DEF AppendLine, Appended
  <2>5. CASE log' = log
    <3>2. IdsUpTo(cnt[p] + 1)
      BY <2>2, IdsAreNumbers DEF IdsUpTo
    <3> QED BY <2>1, <2>2, <3>2, <2>5, <1>a, <1>b DEF CounterInv, MonotoneIds, IdsUpTo
  <2>6. ASSUME NEW e \in Event, e.id = cnt[p] + 1, log' = Append(log, e)
        PROVE  CounterInv' /\ MonotoneIds'
    <3>1. /\ \A i \in 1 .. Len(log') : log'[i].id <= cnt[p] + 1
          /\ \A i, j \in 1 .. Len(log') : i < j => log'[i].id < log'[j].id
      BY <2>2, <2>6, <1>a, AppendGrows DEF IdsUpTo, MonotoneIds
    <3> QED BY <3>1, <2>1, <2>2, <1>b DEF CounterInv, MonotoneIds, IdsUpTo
  <2>7. \A w : Line(Mine(p), cnt[p] + 1, w).id = cnt[p] + 1
    BY DEF Line
  <2> QED BY <2>3, <2>4, <2>5, <2>6, <2>7
<1> QED BY <1>0, <1>1, <1>2, <1>3, <1>4, <1>5, <1>6 DEF IdInv, Next, Emit, Write

\* A kill may burn an event id and never makes one repeat, for any number of
\* commands and kills, as long as neither a kill nor a failing write falls
\* between the truncation of the counter file and its new contents.
THEOREM IdTheorem ==
  ASSUME HolderMayStall = FALSE, BinaryReplaced = FALSE,
         "counter" \notin CrashAt, "counter" \notin Faults
  PROVE  Spec => []MonotoneIds
<1>1. IdInv /\ [Next]_vars => IdInv'
  BY NextIdInv
<1>2. IdInv => MonotoneIds
  BY DEF IdInv
<1> QED BY InitIdInv, <1>1, <1>2, PTL DEF Spec
-----------------------------------------------------------------------------
(* The refinement of EventStream: an emit is asked for in Begin, takes     *)
(* effect in AppendLine, and has failed when it ends without that.         *)

Request == Proc \X (1 .. MaxEmits)
StatusOf(i) ==
  IF i \in acked THEN "ok"
  ELSE IF Live(i) THEN "pending"
  ELSE IF i[2] <= made[i[1]] THEN "failed" ELSE "none"

\* No line is torn; an emit that returned Ok has begun, and all it still has to
\* do is drop the lock.
AckInv ==
  /\ torn = FALSE
  /\ \A i \in acked : i[2] <= made[i[1]] /\ (Live(i) => pc[i[1]] = "drop")
  /\ \A p \in Proc : pc[p] \in EmitSteps => made[p] >= 1

LEMMA StatusFunction ==
  /\ EmitStatus = [i \in Request |-> StatusOf(i)]
  /\ EmitStatus' = [i \in Request |-> StatusOf(i)']
<1>1. EmitStatus = [i \in Request |-> StatusOf(i)]
  BY DEF EmitStatus, StatusOf, Request
<1>2. EmitStatus' = [i \in Request |-> StatusOf(i)']
  BY DEF EmitStatus, StatusOf, Request
<1> QED BY <1>1, <1>2

\* A step that starts and ends no emit and acknowledges none.
LEMMA SameStatus ==
  ASSUME UNCHANGED <<made, acked>>,
         \A q \in Proc : pc'[q] \in EmitSteps <=> pc[q] \in EmitSteps
  PROVE  UNCHANGED EmitStatus
<1>1. \A i \in Request : StatusOf(i)' = StatusOf(i)
  BY DEF Request, StatusOf, Live
<1> QED BY <1>1, StatusFunction

LEMMA OneStatus ==
  ASSUME NEW r \in Request, NEW v, StatusOf(r)' = v,
         \A i \in Request \ {r} : StatusOf(i)' = StatusOf(i)
  PROVE  EmitStatus' = [EmitStatus EXCEPT ![r] = v]
BY StatusFunction

\* How each step of a command moves its emit.
LEMMA EmitMoves ==
  ASSUME TypeOK, NEW p \in Proc, Begin(p) \/ Emit(p) \/ Exit(p) \/ Spawn(p) \/ Crash(p) \/ Expire(p)
  PROVE  /\ \A q \in Proc \ {p} : pc'[q] = pc[q]
         /\ \/ Begin(p)
            \/ AppendLine(p)
            \/ /\ UNCHANGED <<made, acked, log, torn>>
               /\ pc'[p] \in EmitSteps => pc[p] \in EmitSteps
               /\ pc[p] = "drop" => pc'[p] \in {"idle", "dead"}
<1> USE DEF TypeOK, Goto, logVars, lockVars
<1>1. CASE Begin(p) \/ Exit(p) \/ Spawn(p) \/ Crash(p) \/ Expire(p)
  <2> USE DEF EmitSteps, LockSteps, WriteSteps
  <2> QED BY <1>1 DEF Begin, Exit, Spawn, Crash, Expire
<1>2. CASE Acquire(p)
  <2>1. UNCHANGED <<made, acked, log, torn>> /\ pc[p] \in LockSteps
        /\ \A q \in Proc \ {p} : pc'[q] = pc[q]
    BY <1>2 DEF Acquire, Create, WriteOwner, ReadOwner, Probe, TryGuard, Link,
                Identify, Unlink, Deadline, LockSteps
  <2> QED BY <2>1 DEF EmitSteps, LockSteps
<1>3. CASE Write(p)
  BY <1>3 DEF Write, Count, Truncate, WriteCounter, Drop, AppendLine, EmitSteps, WriteSteps
<1> QED BY <1>1, <1>2, <1>3 DEF Emit

LEMMA NextAckInv ==
  ASSUME "torn" \notin Faults, TypeOK, AckInv, [Next]_vars
  PROVE  AckInv'
<1>1. CASE Age \/ UNCHANGED vars
  BY <1>1 DEF Age, vars, logVars, AckInv, Live
<1>2. ASSUME NEW p \in Proc, Begin(p) \/ Emit(p) \/ Exit(p) \/ Spawn(p) \/ Crash(p) \/ Expire(p)
      PROVE  AckInv'
  <2>1. \A q \in Proc \ {p} : pc'[q] = pc[q]
    BY <1>2, EmitMoves
  <2>2. \A i \in acked : i[1] \in Proc /\ i[2] \in Nat
    BY BoundsAssumption DEF TypeOK, Inode
  <2>3. \A q \in Proc : made[q] \in Nat
    BY BoundsAssumption DEF TypeOK
  <2>4. CASE Begin(p)
    <3>1. /\ made' = [made EXCEPT ![p] = @ + 1] /\ pc'[p] = "create" /\ acked' = acked /\ torn' = torn
          /\ pc[p] = "idle" /\ made'[p] = made[p] + 1
      BY <2>4 DEF Begin, TypeOK, Goto, logVars
    <3>2. \A q \in Proc \ {p} : made'[q] = made[q]
      BY <3>1 DEF TypeOK
    <3>3. ASSUME NEW i \in acked
          PROVE  i[2] <= made'[i[1]] /\ (Live(i)' => pc'[i[1]] = "drop")
      <4>1. i[2] <= made[i[1]] /\ (Live(i) => pc[i[1]] = "drop")
        BY DEF AckInv
      <4>2. CASE i[1] = p
        BY <2>2, <2>3, <3>1, <4>1, <4>2 DEF Live
      <4>3. CASE i[1] # p
        BY <2>1, <2>2, <3>2, <4>1, <4>3 DEF Live
      <4> QED BY <4>2, <4>3
    <3>4. \A q \in Proc : pc'[q] \in EmitSteps => made'[q] >= 1
      BY <2>1, <2>3, <3>1, <3>2 DEF AckInv
    <3> QED BY <3>1, <3>3, <3>4 DEF AckInv
  <2>5. CASE AppendLine(p)
    <3>1. pc[p] = "append" /\ pc'[p] = "drop" /\ made' = made /\ torn' = FALSE
          /\ acked' \subseteq acked \cup {Mine(p)}
      BY <2>5 DEF AppendLine, TypeOK, Goto, AckInv
    <3>2. pc[p] \in EmitSteps
      BY <3>1 DEF EmitSteps, WriteSteps
    <3>3. ASSUME NEW i \in acked'
          PROVE  i[2] <= made[i[1]] /\ (Live(i)' => pc'[i[1]] = "drop")
      <4>1. CASE i = Mine(p)
        BY <2>3, <3>1, <4>1 DEF Mine
      <4>2. CASE i \in acked
        <5>1. i[2] <= made[i[1]] /\ (Live(i) => pc[i[1]] = "drop")
          BY <4>2 DEF AckInv
        <5> QED BY <2>1, <2>2, <3>1, <4>2, <5>1 DEF Live
      <4> QED BY <3>1, <4>1, <4>2
    <3> QED BY <2>1, <3>1, <3>2, <3>3 DEF AckInv
  <2>6. CASE /\ UNCHANGED <<made, acked, log, torn>>
             /\ pc'[p] \in EmitSteps => pc[p] \in EmitSteps
             /\ pc[p] = "drop" => pc'[p] \in {"idle", "dead"}
    <3>1. "idle" \notin EmitSteps /\ "dead" \notin EmitSteps
      BY DEF EmitSteps, LockSteps, WriteSteps
    <3>2. ASSUME NEW i \in acked
          PROVE  i[2] <= made[i[1]] /\ (Live(i)' => pc'[i[1]] = "drop")
      <4>1. i[2] <= made[i[1]] /\ (Live(i) => pc[i[1]] = "drop")
        BY DEF AckInv
      <4> QED BY <2>1, <2>2, <2>6, <3>1, <4>1 DEF Live
    <3> QED BY <2>1, <2>6, <3>2 DEF AckInv
  <2> QED BY <1>2, <2>4, <2>5, <2>6, EmitMoves
<1> QED BY <1>1, <1>2 DEF Next

LEMMA StreamStep ==
  ASSUME HolderMayStall = FALSE, BinaryReplaced = FALSE,
         "counter" \notin CrashAt, "counter" \notin Faults,
         "torn" \notin Faults, IdInv, AckInv, [Next]_vars
  PROVE  [Stream!Next]_(Stream!svars)
<1>1. TypeOK /\ CounterInv
  BY DEF IdInv, LockInv
<1>2. \A q \in Proc : made[q] \in 0 .. MaxEmits
  BY <1>1 DEF TypeOK
<1>3. ASSUME log' = log, EmitStatus' = EmitStatus PROVE [Stream!Next]_(Stream!svars)
  BY <1>3 DEF Stream!svars
<1>4. CASE Age \/ UNCHANGED vars
  <2>1. pc' = pc /\ UNCHANGED <<made, acked, log>>
    BY <1>4 DEF Age, vars, logVars
  <2> QED BY <1>3, <2>1, SameStatus
<1>5. ASSUME NEW p \in Proc, Begin(p) \/ Emit(p) \/ Exit(p) \/ Spawn(p) \/ Crash(p) \/ Expire(p)
      PROVE  [Stream!Next]_(Stream!svars)
  <2>1. \A q \in Proc \ {p} : pc'[q] = pc[q]
    BY <1>1, <1>5, EmitMoves
  <2>2. "idle" \notin EmitSteps /\ "create" \in EmitSteps /\ "append" \in EmitSteps
          /\ "drop" \in EmitSteps
    BY DEF EmitSteps, LockSteps, WriteSteps
  <2>3. CASE Begin(p)
    <3>1. /\ pc[p] = "idle" /\ pc'[p] = "create" /\ made[p] < MaxEmits
          /\ made'[p] = made[p] + 1 /\ log' = log /\ acked' = acked
          /\ \A q \in Proc \ {p} : made'[q] = made[q]
      BY <1>1, <2>3 DEF Begin, TypeOK, Goto, logVars
    <3>2. PICK r \in Request : r = <<p, made[p] + 1>> /\ r[1] = p /\ r[2] = made[p] + 1
      <4>1. made[p] + 1 \in 1 .. MaxEmits
        BY <1>2, <3>1, BoundsAssumption
      <4>2. <<p, made[p] + 1>> \in Request
        BY <4>1 DEF Request
      <4> QED BY <4>2
    <3>3. r \notin acked
      BY <1>2, <3>2, BoundsAssumption DEF AckInv
    <3>4. StatusOf(r) = "none"
      BY <1>2, <2>2, <3>1, <3>2, <3>3, BoundsAssumption DEF StatusOf, Live
    <3>5. StatusOf(r)' = "pending"
      BY <2>2, <3>1, <3>2, <3>3 DEF StatusOf, Live
    <3>6. ASSUME NEW i \in Request \ {r} PROVE StatusOf(i)' = StatusOf(i)
      <4>1. i[1] \in Proc /\ i[2] \in Nat /\ i = <<i[1], i[2]>>
        BY DEF Request
      <4>2. CASE i[1] = p
        <5>1. i[2] # made[p] + 1
          BY <3>2, <4>1, <4>2
        <5>2. ~Live(i) /\ ~Live(i)'
          BY <2>2, <3>1, <4>2, <5>1 DEF Live
        <5>3. made[p] \in Nat /\ (i[2] <= made[p] + 1 <=> i[2] <= made[p])
          BY <1>2, <4>1, <5>1, BoundsAssumption
        <5> QED BY <3>1, <4>2, <5>2, <5>3 DEF StatusOf
      <4>3. CASE i[1] # p
        BY <2>1, <3>1, <4>1, <4>3 DEF StatusOf, Live
      <4> QED BY <4>2, <4>3
    <3>7. EmitStatus' = [EmitStatus EXCEPT ![r] = "pending"]
      BY <3>2, <3>5, <3>6, OneStatus
    <3>8. EmitStatus[r] = "none"
      BY <3>2, <3>4, StatusFunction
    <3>9. Stream!Ask(r)
      BY <3>1, <3>7, <3>8 DEF Stream!Ask
    <3> QED BY <3>2, <3>9 DEF Stream!Next, Request
  <2>4. CASE AppendLine(p)
    <3> DEFINE e == Line(Mine(p), cnt[p] + 1, TRUE)
    <3>1. /\ pc[p] = "append" /\ pc'[p] = "drop" /\ made' = made
          /\ \/ log' = Append(log, e) /\ acked' = acked \cup {Mine(p)}
             \/ log' = log /\ acked' = acked
      BY <1>1, <2>4 DEF AppendLine, TypeOK, Goto, AckInv, Appended
    <3>2. PICK r \in Request : r = Mine(p) /\ r[1] = p /\ r[2] = made[p] /\ Live(r)
      BY <1>2, <2>2, <3>1, BoundsAssumption DEF Request, AckInv, Mine, Live
    <3>3. r \notin acked
      BY <3>1, <3>2 DEF AckInv
    <3>4. cnt[p] \in Nat /\ IdsUpTo(cnt[p])
      BY <1>1, <3>1 DEF CounterInv, TypeOK
    <3>5. e \in Event /\ e.by = r /\ e.id = cnt[p] + 1
      <4>1. Mine(p) \in Inode /\ cnt[p] + 1 \in Nat
        BY <1>1, <3>4, MineIsInode
      <4>2. e \in Event
        BY <4>1, Zenon DEF Line, Event
      <4> QED BY <3>2, <4>2 DEF Line
    <3>6. log \in Seq(Event) /\ \A i \in 1 .. Len(log) : log[i].id \in Nat
      BY <1>1, IdsAreNumbers DEF TypeOK
    <3> HIDE DEF e
    <3>7. CASE log' = log /\ acked' = acked
      <4>1. EmitStatus' = EmitStatus
        BY <2>1, <2>2, <3>1, <3>7, SameStatus
      <4> QED BY <1>3, <3>7, <4>1
    <3>8. CASE log' = Append(log, e) /\ acked' = acked \cup {r}
      <4>1. StatusOf(r) = "pending" /\ StatusOf(r)' = "ok"
        BY <3>2, <3>3, <3>8 DEF StatusOf
      <4>2. ASSUME NEW i \in Request \ {r} PROVE StatusOf(i)' = StatusOf(i)
        <5>1. i[1] \in Proc
          BY DEF Request
        <5>2. Live(i)' <=> Live(i)
          BY <2>1, <2>2, <3>1, <5>1 DEF Live
        <5> QED BY <3>1, <3>8, <5>2 DEF StatusOf
      <4>3. EmitStatus' = [EmitStatus EXCEPT ![r] = "ok"]
        BY <3>2, <4>1, <4>2, OneStatus
      <4>4. EmitStatus[r] = "pending"
        BY <3>2, <4>1, StatusFunction
      <4>5. Len(log') = Len(log) + 1 /\ log'[Len(log')] = e
        BY <3>5, <3>6, <3>8
      <4>6. \A i \in 1 .. Len(log) : log[i].id < e.id
        BY <3>4, <3>5, <3>6 DEF IdsUpTo
      <4>7. Stream!Commit(r)
        BY <3>4, <3>5, <3>8, <4>3, <4>4, <4>5, <4>6 DEF Stream!Commit
      <4> QED BY <3>2, <4>7 DEF Stream!Next, Request
    <3> QED BY <3>1, <3>2, <3>7, <3>8
  <2>5. CASE /\ UNCHANGED <<made, acked, log, torn>>
             /\ pc'[p] \in EmitSteps => pc[p] \in EmitSteps
             /\ pc[p] = "drop" => pc'[p] \in {"idle", "dead"}
    <3>1. CASE pc'[p] \in EmitSteps <=> pc[p] \in EmitSteps
      <4>1. EmitStatus' = EmitStatus
        BY <2>1, <2>5, <3>1, SameStatus
      <4> QED BY <1>3, <2>5, <4>1
    <3>2. CASE pc[p] \in EmitSteps /\ pc'[p] \notin EmitSteps
      <4>1. PICK r \in Request :
              r = Mine(p) /\ r[1] = p /\ r[2] = made[p] /\ Live(r) /\ ~Live(r)'
        <5>1. made[p] \in 1 .. MaxEmits
          BY <1>2, <3>2, BoundsAssumption DEF AckInv
        <5>2. PICK r \in Request : r = Mine(p) /\ r[1] = p /\ r[2] = made[p]
          <6>1. Mine(p) \in Request /\ Mine(p)[1] = p /\ Mine(p)[2] = made[p]
            BY <5>1 DEF Request, Mine
          <6> QED BY <6>1
        <5> QED BY <3>2, <5>2 DEF Live
      <4>2. ASSUME NEW i \in Request \ {r} PROVE Live(i)' <=> Live(i)
        <5>1. i[1] \in Proc /\ i = <<i[1], i[2]>>
          BY DEF Request
        <5>2. i[1] = p => i[2] # made[p]
          BY <4>1, <5>1 DEF Mine
        <5> QED BY <2>1, <2>5, <5>1, <5>2 DEF Live
      <4>3. \A i \in Request \ {r} : StatusOf(i)' = StatusOf(i)
        BY <2>5, <4>2 DEF StatusOf
      <4>4. CASE r \in acked
        <5>1. StatusOf(r)' = StatusOf(r)
          BY <2>5, <4>4 DEF StatusOf
        <5>2. \A i \in Request : StatusOf(i)' = StatusOf(i)
          BY <4>3, <5>1
        <5>3. EmitStatus' = EmitStatus
          BY <5>2, StatusFunction
        <5> QED BY <1>3, <2>5, <5>3
      <4>5. CASE r \notin acked
        <5>1. StatusOf(r) = "pending"
          BY <4>1, <4>5 DEF StatusOf
        <5>2. made[p] \in Nat
          BY <1>2, BoundsAssumption
        <5>3. StatusOf(r)' = "failed"
          BY <2>5, <4>1, <4>5, <5>2 DEF StatusOf
        <5>4. EmitStatus' = [EmitStatus EXCEPT ![r] = "failed"]
          BY <4>1, <4>3, <5>3, OneStatus
        <5>5. EmitStatus[r] = "pending"
          BY <4>1, <5>1, StatusFunction
        <5>6. Stream!Fail(r)
          BY <2>5, <5>4, <5>5 DEF Stream!Fail
        <5> QED BY <4>1, <5>6 DEF Stream!Next, Request
      <4> QED BY <4>4, <4>5
    <3> QED BY <2>5, <3>1, <3>2
  <2> QED BY <1>1, <1>5, <2>3, <2>4, <2>5, EmitMoves
<1> QED BY <1>4, <1>5 DEF Next

\* events.jsonl is the stream that EventStream promises, for any number of
\* commands and kills: an emit takes effect at one instant or not at all, and
\* it returns Ok exactly if it did.  Besides what IdTheorem needs, no write may
\* stop in the middle of a line.
THEOREM StreamTheorem ==
  ASSUME HolderMayStall = FALSE, BinaryReplaced = FALSE,
         "counter" \notin CrashAt, "counter" \notin Faults,
         "torn" \notin Faults
  PROVE  Spec => ImplementsStream
<1>1. Init => Stream!Init
  <2> SUFFICES ASSUME Init PROVE Stream!Init
    OBVIOUS
  <2>1. \A i \in Request : StatusOf(i) = "none"
    <3>1. "idle" \notin EmitSteps
      BY DEF EmitSteps, LockSteps, WriteSteps
    <3>2. ASSUME NEW i \in Request PROVE i[1] \in Proc /\ i[2] \in Nat /\ i[2] > 0
      BY BoundsAssumption DEF Request
    <3> QED BY <3>1, <3>2 DEF Init, StatusOf, Live
  <2> QED BY <2>1, StatusFunction DEF Init, Stream!Init, Request
<1>2. Init => AckInv
  <2>1. "idle" \notin EmitSteps
    BY DEF EmitSteps, LockSteps, WriteSteps
  <2> QED BY <2>1 DEF Init, AckInv
<1>3. IdInv /\ AckInv /\ [Next]_vars => IdInv' /\ AckInv'
  BY NextIdInv, NextAckInv DEF IdInv, LockInv
<1>4. IdInv /\ AckInv /\ [Next]_vars => [Stream!Next]_(Stream!svars)
  BY StreamStep
<1> QED BY InitIdInv, <1>1, <1>2, <1>3, <1>4, PTL DEF Spec, ImplementsStream, Stream!Spec

=============================================================================
