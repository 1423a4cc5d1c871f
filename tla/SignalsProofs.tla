---------------------------- MODULE SignalsProofs ----------------------------
(***************************************************************************)
(* The safety of Signals, for any dispatches, uninstallers and waiters: the *)
(* user's hooks and lto's own in the two homes, the registered endpoints,   *)
(* and who completes a run.                                                 *)
(***************************************************************************)
EXTENDS Signals, FiniteSetTheorems, TLAPS

AgentSteps   == {"off", "goal", "script", "read", "write", "gemini read", "gemini write",
                 "gemini script", "send", "work", "reported", "ended", "dead"}
RemoverSteps == {"off", "codex read", "codex write", "codex script", "gemini read",
                 "gemini write", "gemini script", "done", "dead"}
WaiterSteps  == {"off", "look", "enroll", "enroll read", "enroll write", "leave",
                 "leave read", "leave write", "poll", "poll bare", "done", "dead"}
AllSteps == AgentSteps \cup RemoverSteps \cup WaiterSteps
Entries == Lto \cup {UserEntry}
             \cup UNION {UNION {first[h].entries : h \in Homes} : first \in FirstHooks}
Files == {"ok", "broken"} \cup UNION {{first[h].file : h \in Homes} : first \in FirstHooks}
Goals == {GoalOf[a] : a \in Agent}
Entry == [by : Agent \cup {"hand"}, source : {"self report", "stop hook", "process exit"},
          type : {"completed", "turn"}]

PcInv ==
  /\ pc \in [Proc -> AllSteps]
  /\ \A a \in Agent : pc[a] \in AgentSteps
  /\ \A p \in Remover : pc[p] \in RemoverSteps
  /\ \A w \in Waiter : pc[w] \in WaiterSteps

LEMMA StartSteps ==
  ASSUME NEW p \in Proc
  PROVE  /\ p \in Agent => Start(p) \in AgentSteps
         /\ p \in Remover => Start(p) \in RemoverSteps
         /\ p \in Waiter => Start(p) \in WaiterSteps
         /\ Start(p) \in AllSteps
<1>1. p \in Agent \/ p \in Remover \/ p \in Waiter
  BY DEF Proc
<1>2. CASE p \in Agent
  BY <1>2, SignalsProcesses DEF Start, AgentSteps, AllSteps
<1>3. CASE p \in Remover
  BY <1>3, SignalsProcesses DEF Start, RemoverSteps, AllSteps
<1>4. CASE p \in Waiter
  BY <1>4, SignalsProcesses DEF Start, WaiterSteps, AllSteps
<1> QED BY <1>1, <1>2, <1>3, <1>4

\* A step moves one process, and within its own steps.
Moves(p, t) == pc' = [pc EXCEPT ![p] = t]

LEMMA PcMove ==
  ASSUME PcInv, NEW p \in Proc, NEW t, Moves(p, t),
         p \in Agent => t \in AgentSteps,
         p \in Remover => t \in RemoverSteps,
         p \in Waiter => t \in WaiterSteps
  PROVE  PcInv'
<1>1. t \in AllSteps
  BY DEF Proc, AllSteps
<1>2. pc' \in [Proc -> AllSteps] /\ \A q \in Proc : pc'[q] = IF q = p THEN t ELSE pc[q]
  BY <1>1 DEF PcInv, Moves
<1>3. Agent \subseteq Proc /\ Remover \subseteq Proc /\ Waiter \subseteq Proc
  BY DEF Proc
<1> QED BY <1>2, <1>3 DEF PcInv

LEMMA PcStep ==
  ASSUME PcInv, [Next]_vars
  PROVE  PcInv'
<1>1. Agent \subseteq Proc /\ Remover \subseteq Proc /\ Waiter \subseteq Proc
  BY DEF Proc
<1>2. CASE UNCHANGED pc
  BY <1>2 DEF PcInv
<1> USE SignalsProcesses
<1>3. ASSUME NEW a \in Agent,
             \/ Materialize(a) \/ InstallScript(a) \/ InstallRead(a) \/ InstallWrite(a)
             \/ ReadGoal(a) \/ SelfReport(a) \/ StopHook(a) \/ ProcessExit(a)
      PROVE  PcInv'
  <2>1. UNCHANGED pc \/ \E t \in AgentSteps : Moves(a, t)
    BY <1>3 DEF Materialize, InstallScript, InstallRead, InstallWrite, ReadGoal, SelfReport,
                StopHook, ProcessExit, Goto, Moves, AgentSteps
  <2> QED BY <1>1, <1>2, <2>1, PcMove
<1>4. ASSUME NEW p \in Remover, RemoveRead(p) \/ RemoveWrite(p) \/ RemoveScript(p)
      PROVE  PcInv'
  <2>1. \E t \in RemoverSteps : Moves(p, t)
    BY <1>4 DEF RemoveRead, RemoveWrite, RemoveScript, Goto, Moves, RemoverSteps
  <2> QED BY <1>1, <2>1, PcMove
<1>5. ASSUME NEW p \in Agent \cup Remover, AgyRead(p) \/ AgyWrite(p) \/ AgyScript(p)
      PROVE  PcInv'
  <2>1. (p \in Agent => After(p) \in AgentSteps) /\ (p \in Remover => After(p) \in RemoverSteps)
    BY DEF After, AgentSteps, RemoverSteps
  <2>2. \E t \in {After(p), "gemini write", "gemini script"} : Moves(p, t)
    BY <1>5 DEF AgyRead, AgyWrite, AgyScript, Goto, Moves
  <2>3. \A t \in {After(p), "gemini write", "gemini script"} :
          (p \in Agent => t \in AgentSteps) /\ (p \in Remover => t \in RemoverSteps)
    BY <2>1 DEF AgentSteps, RemoverSteps
  <2> QED BY <1>1, <2>2, <2>3, PcMove
<1>6. ASSUME NEW w \in Waiter,
             \/ Look(w) \/ Enter(w) \/ ReadEndpoints(w) \/ WriteEndpoints(w)
             \/ EnrollFails(w) \/ Poll(w)
      PROVE  PcInv'
  <2>1. UNCHANGED pc \/ \E t \in WaiterSteps : Moves(w, t)
    BY <1>6 DEF Look, Enter, Lock, ReadEndpoints, WriteEndpoints, EnrollFails, Poll, Goto,
                Moves, WaiterSteps
  <2> QED BY <1>1, <1>2, <2>1, PcMove
<1>7. ASSUME NEW p \in Proc, Kill(p) PROVE PcInv'
  <2>1. Moves(p, "dead")
    BY <1>7 DEF Kill, Goto, Moves
  <2> QED BY <2>1, PcMove DEF AgentSteps, RemoverSteps, WaiterSteps
<1>8. CASE \/ \E h \in Homes, file \in {"ok", "broken"} : UserEdit(h, file)
           \/ \E r \in Runs : WakeRun(r) \/ CloseRun(r)
           \/ HandTurn
  BY <1>2, <1>8 DEF UserEdit, WakeRun, CloseRun, HandTurn
<1>9. CASE UNCHANGED vars
  BY <1>2, <1>9 DEF vars
<1> QED BY <1>3, <1>4, <1>5, <1>6, <1>7, <1>8, <1>9 DEF Next

LEMMA PcInit ==
  ASSUME Init
  PROVE  PcInv /\ \A p \in Proc : pc[p] \in {"off", Start(p)}
<1>1. PICK cast \in Casts : pc = [p \in Proc |-> IF p \in cast THEN Start(p) ELSE "off"]
  BY DEF Init
<1>2. \A p \in Proc : pc[p] \in {"off", Start(p)}
  BY <1>1
<1>3. "off" \in AgentSteps /\ "off" \in RemoverSteps /\ "off" \in WaiterSteps /\ "off" \in AllSteps
  BY DEF AgentSteps, RemoverSteps, WaiterSteps, AllSteps
<1>4. \A p \in Proc : pc[p] \in AllSteps
  BY <1>2, <1>3, StartSteps
<1>5. Agent \subseteq Proc /\ Remover \subseteq Proc /\ Waiter \subseteq Proc
  BY DEF Proc
<1>6. pc \in [Proc -> AllSteps]
  BY <1>1, <1>4
<1> QED BY <1>2, <1>3, <1>5, <1>6, StartSteps DEF PcInv

-----------------------------------------------------------------------------
(* The endpoints of the waiters.                                           *)

Inside   == {"enroll read", "enroll write", "leave read", "leave write"}
Enlisted == {"poll", "leave", "leave read", "leave write"}
Unlisted == {"off", "look", "enroll", "enroll read", "enroll write", "poll bare", "done"}

\* A waiter inside with_endpoints_locked holds the lock of its run alone, and
\* what it has read of the file stays true until it writes.
Waits(w) ==
  /\ pc[w] \in Inside => seat[WaitsFor[w]] = {w}
  /\ pc[w] \in {"enroll write", "leave write"} => esnap[w] = endpoints[WaitsFor[w]]
  /\ pc[w] \in Enlisted => w \in endpoints[WaitsFor[w]]
  /\ pc[w] \in Unlisted => w \notin endpoints[WaitsFor[w]]

WaitInv ==
  /\ endpoints \in [Runs -> SUBSET Waiter]
  /\ seat \in [Runs -> SUBSET Waiter]
  /\ esnap \in [Waiter -> SUBSET Waiter]
  /\ \A w \in Waiter : Waits(w)

LEMMA WaitInit == Init => WaitInv
<1> SUFFICES ASSUME Init PROVE WaitInv
  OBVIOUS
<1>1. endpoints \in [Runs -> SUBSET Waiter] /\ seat \in [Runs -> SUBSET Waiter]
        /\ esnap \in [Waiter -> SUBSET Waiter]
  BY DEF Init
<1>2. ASSUME NEW w \in Waiter PROVE pc[w] \in {"off", "look"}
  BY <1>2, PcInit, SignalsProcesses DEF Proc, Start
<1>3. ASSUME NEW w \in Waiter PROVE Waits(w)
  <2>1. endpoints[WaitsFor[w]] = {}
    BY SignalsProcesses DEF Init
  <2> QED BY <1>2, <2>1 DEF Waits, Inside, Enlisted
<1> QED BY <1>1, <1>3 DEF WaitInv

\* A step that leaves the waiters and their files alone.
LEMMA WaitAside ==
  ASSUME WaitInv, UNCHANGED <<endpoints, seat, esnap>>, \A w \in Waiter : pc'[w] = pc[w]
  PROVE  WaitInv'
BY DEF WaitInv, Waits

LEMMA WaitStep ==
  ASSUME PcInv, WaitInv, [Next]_vars
  PROVE  WaitInv'
<1>1. Agent \subseteq Proc /\ Remover \subseteq Proc /\ Waiter \subseteq Proc
  BY DEF Proc
<1>2. pc \in [Proc -> AllSteps]
  BY DEF PcInv
<1> USE DEF Goto
<1>3. CASE UNCHANGED vars
  BY <1>3, WaitAside DEF vars, waitVars
<1>4. ASSUME NEW a \in Agent,
             \/ Materialize(a) \/ InstallScript(a) \/ InstallRead(a) \/ InstallWrite(a)
             \/ ReadGoal(a) \/ SelfReport(a) \/ StopHook(a) \/ ProcessExit(a)
      PROVE  WaitInv'
  <2>1. UNCHANGED <<endpoints, seat, esnap>>
    BY <1>4 DEF Materialize, InstallScript, InstallRead, InstallWrite, ReadGoal, SelfReport,
                StopHook, ProcessExit, waitVars
  <2>2. UNCHANGED pc \/ \E t : pc' = [pc EXCEPT ![a] = t]
    BY <1>4 DEF Materialize, InstallScript, InstallRead, InstallWrite, ReadGoal, SelfReport,
                StopHook, ProcessExit
  <2>3. \A w \in Waiter : w # a
    BY SignalsProcesses
  <2>4. \A w \in Waiter : pc'[w] = pc[w]
    BY <1>1, <1>2, <2>2, <2>3
  <2> QED BY <2>1, <2>4, WaitAside
<1>5. ASSUME NEW p \in Agent \cup Remover,
             \/ RemoveRead(p) \/ RemoveWrite(p) \/ RemoveScript(p)
             \/ AgyRead(p) \/ AgyWrite(p) \/ AgyScript(p)
      PROVE  WaitInv'
  <2>1. UNCHANGED <<endpoints, seat, esnap>>
    BY <1>5 DEF RemoveRead, RemoveWrite, RemoveScript, AgyRead, AgyWrite, AgyScript, waitVars
  <2>2. \E t : pc' = [pc EXCEPT ![p] = t]
    BY <1>5 DEF RemoveRead, RemoveWrite, RemoveScript, AgyRead, AgyWrite, AgyScript
  <2>3. \A w \in Waiter : w # p
    BY SignalsProcesses
  <2>4. \A w \in Waiter : pc'[w] = pc[w]
    BY <1>1, <1>2, <2>2, <2>3
  <2> QED BY <2>1, <2>4, WaitAside
<1>6. CASE \/ \E h \in Homes, file \in {"ok", "broken"} : UserEdit(h, file)
           \/ \E r \in Runs : WakeRun(r) \/ CloseRun(r)
           \/ HandTurn
  BY <1>6, WaitAside DEF UserEdit, WakeRun, CloseRun, HandTurn, waitVars
<1>7. ASSUME NEW p \in Proc, Kill(p) PROVE WaitInv'
  <2>1. /\ UNCHANGED <<endpoints, esnap>> /\ seat' = [r \in Runs |-> seat[r] \ {p}]
        /\ pc' = [pc EXCEPT ![p] = "dead"]
    BY <1>7 DEF Kill, waitVars
  <2>2. seat' \in [Runs -> SUBSET Waiter]
    BY <2>1 DEF WaitInv
  <2>3. ASSUME NEW w \in Waiter PROVE Waits(w)'
    <3>1. Waits(w) /\ WaitsFor[w] \in Runs
      BY SignalsProcesses DEF WaitInv
    <3>2. CASE w = p
      BY <1>1, <1>2, <2>1, <3>2 DEF Waits, Inside, Enlisted, Unlisted
    <3>3. CASE w # p
      BY <1>1, <1>2, <2>1, <3>1, <3>3 DEF Waits
    <3> QED BY <3>2, <3>3
  <2> QED BY <2>1, <2>2, <2>3 DEF WaitInv
<1>8. ASSUME NEW w \in Waiter,
             \/ Look(w) \/ Enter(w) \/ ReadEndpoints(w) \/ WriteEndpoints(w)
             \/ EnrollFails(w) \/ Poll(w)
      PROVE  WaitInv'
  <2> DEFINE r == WaitsFor[w]
  <2>1. r \in Runs /\ Waits(w) /\ w \in Proc
    BY <1>1, SignalsProcesses DEF WaitInv
  <2>2. ASSUME NEW t, pc' = [pc EXCEPT ![w] = t] \/ UNCHANGED pc, NEW v \in Waiter \ {w}
        PROVE  pc'[v] = pc[v]
    BY <1>1, <1>2, <2>2
  <2>3. CASE Look(w) \/ EnrollFails(w) \/ Poll(w)
    <3>1. UNCHANGED <<endpoints, seat, esnap>>
      BY <2>3 DEF Look, EnrollFails, Poll, waitVars
    <3>2. \E t : pc' = [pc EXCEPT ![w] = t] \/ UNCHANGED pc
      BY <2>3 DEF Look, EnrollFails, Poll
    <3>3. \A v \in Waiter \ {w} : Waits(v)'
      BY <2>2, <3>1, <3>2 DEF Waits, WaitInv
    <3>4. \/ pc[w] = "look" /\ pc'[w] \in {"done", "enroll"}
          \/ pc[w] = "enroll" /\ pc'[w] = "poll bare"
          \/ pc[w] = "poll" /\ pc'[w] \in {"leave", "poll"}
          \/ pc[w] = "poll bare" /\ pc'[w] \in {"done", "poll bare"}
      BY <1>2, <2>1, <2>3 DEF Look, EnrollFails, Poll
    <3>5. Waits(w)'
      BY <2>1, <3>1, <3>4 DEF Waits, Inside, Enlisted, Unlisted
    <3> QED BY <3>1, <3>3, <3>5 DEF WaitInv
  <2>4. CASE Enter(w)
    <3>1. /\ UNCHANGED <<endpoints, esnap>> /\ seat[r] = {} /\ seat' = [seat EXCEPT ![r] = {w}]
          /\ \/ pc[w] = "enroll" /\ pc' = [pc EXCEPT ![w] = "enroll read"]
             \/ pc[w] = "leave" /\ pc' = [pc EXCEPT ![w] = "leave read"]
      BY <2>4 DEF Enter, Lock
    <3>2. seat' \in [Runs -> SUBSET Waiter] /\ seat'[r] = {w}
      BY <2>1, <3>1 DEF WaitInv
    <3>3. ASSUME NEW v \in Waiter \ {w} PROVE Waits(v)'
      <4>1. Waits(v) /\ pc'[v] = pc[v] /\ WaitsFor[v] \in Runs
        BY <2>2, <3>1, SignalsProcesses DEF WaitInv
      <4>2. pc[v] \in Inside => WaitsFor[v] # r
        BY <3>1, <4>1 DEF Waits
      <4>3. WaitsFor[v] # r => seat'[WaitsFor[v]] = seat[WaitsFor[v]]
        BY <3>1, <4>1 DEF WaitInv
      <4> QED BY <3>1, <4>1, <4>2, <4>3 DEF Waits
    <3>4. pc'[w] \in {"enroll read", "leave read"} /\ (pc'[w] = "leave read" => pc[w] = "leave")
            /\ (pc'[w] = "enroll read" => pc[w] = "enroll")
      BY <1>2, <2>1, <3>1
    <3>5. Waits(w)'
      BY <2>1, <3>1, <3>2, <3>4 DEF Waits, Enlisted, Unlisted, Inside
    <3> QED BY <3>1, <3>2, <3>3, <3>5 DEF WaitInv
  <2>5. CASE ReadEndpoints(w)
    <3>1. /\ UNCHANGED <<endpoints, seat>> /\ esnap' = [esnap EXCEPT ![w] = endpoints[r]]
          /\ pc[w] \in {"enroll read", "leave read"}
          /\ pc' = [pc EXCEPT ![w] = IF pc[w] = "enroll read" THEN "enroll write" ELSE "leave write"]
      BY <2>5 DEF ReadEndpoints
    <3>2. esnap' \in [Waiter -> SUBSET Waiter] /\ esnap'[w] = endpoints[r]
      BY <2>1, <3>1 DEF WaitInv
    <3>3. ASSUME NEW v \in Waiter \ {w} PROVE Waits(v)'
      <4>1. Waits(v) /\ pc'[v] = pc[v] /\ esnap'[v] = esnap[v]
        BY <2>2, <3>1 DEF WaitInv
      <4> QED BY <3>1, <4>1 DEF Waits
    <3>4. \/ pc[w] = "enroll read" /\ pc'[w] = "enroll write"
          \/ pc[w] = "leave read" /\ pc'[w] = "leave write"
      BY <1>2, <2>1, <3>1
    <3>5. Waits(w)'
      BY <2>1, <3>1, <3>2, <3>4 DEF Waits, Enlisted, Unlisted, Inside
    <3> QED BY <3>1, <3>2, <3>3, <3>5 DEF WaitInv
  <2>6. CASE WriteEndpoints(w)
    <3> DEFINE e == IF pc[w] = "enroll write" THEN esnap[w] \cup {w} ELSE esnap[w] \ {w}
    <3>1. /\ endpoints' = [endpoints EXCEPT ![r] = e]
          /\ seat' = [seat EXCEPT ![r] = @ \ {w}]
          /\ UNCHANGED esnap
          /\ pc[w] \in {"enroll write", "leave write"}
          /\ pc' = [pc EXCEPT ![w] = IF pc[w] = "enroll write" THEN "poll" ELSE "done"]
      BY <2>6 DEF WriteEndpoints
    <3>2. esnap[w] = endpoints[r] /\ seat[r] = {w}
      BY <2>1, <3>1 DEF Waits, Inside
    <3>3. e \in SUBSET Waiter
      BY <2>1 DEF WaitInv
    <3>4. endpoints' \in [Runs -> SUBSET Waiter] /\ endpoints'[r] = e
      <4> HIDE DEF e
      <4> QED BY <2>1, <3>1, <3>3 DEF WaitInv
    <3>5. seat' \in [Runs -> SUBSET Waiter]
      BY <2>1, <3>1 DEF WaitInv
    <3>6. ASSUME NEW v \in Waiter \ {w} PROVE Waits(v)'
      <4>1. Waits(v) /\ pc'[v] = pc[v] /\ WaitsFor[v] \in Runs
        BY <2>2, <3>1, SignalsProcesses DEF WaitInv
      <4>2. CASE WaitsFor[v] = r
        <5>1. pc[v] \notin Inside
          BY <3>2, <4>1, <4>2 DEF Waits
        <5>2. v \in endpoints'[r] <=> v \in endpoints[r]
          BY <3>2, <3>4
        <5> QED BY <4>1, <4>2, <5>1, <5>2 DEF Waits, Inside
      <4>3. CASE WaitsFor[v] # r
        <5>1. endpoints'[WaitsFor[v]] = endpoints[WaitsFor[v]] /\ seat'[WaitsFor[v]] = seat[WaitsFor[v]]
          BY <3>1, <4>1, <4>3 DEF WaitInv
        <5> QED BY <3>1, <4>1, <5>1 DEF Waits
      <4> QED BY <4>2, <4>3
    <3>7. \/ pc[w] = "enroll write" /\ pc'[w] = "poll" /\ w \in endpoints'[r]
          \/ pc[w] = "leave write" /\ pc'[w] = "done" /\ w \notin endpoints'[r]
      BY <1>2, <2>1, <3>1, <3>4
    <3>8. Waits(w)'
      BY <3>7 DEF Waits, Enlisted, Unlisted, Inside
    <3> QED BY <3>1, <3>4, <3>5, <3>6, <3>8 DEF WaitInv
  <2> QED BY <1>8, <2>3, <2>4, <2>5, <2>6
<1> QED BY <1>3, <1>4, <1>5, <1>6, <1>7, <1>8 DEF Next

\* A waiter that polls with a port is in notify-endpoints.json and one that went
\* home is not, for any number of waiters, runs and kills.
THEOREM EndpointsTheorem == Spec => []EndpointsAgree
<1>1. Init => PcInv
  BY PcInit
<1>2. PcInv /\ WaitInv /\ [Next]_vars => PcInv' /\ WaitInv'
  BY PcStep, WaitStep
<1>3. WaitInv => EndpointsAgree
  BY DEF WaitInv, Waits, Enlisted, Unlisted, EndpointsAgree
<1> QED BY WaitInit, <1>1, <1>2, <1>3, PTL DEF Spec

-----------------------------------------------------------------------------
(* The hooks in the homes.                                                 *)

Hooker == Agent \cup Remover

\* What a process that is busy with home h counts on, as long as nobody else
\* touches the home: its copy, the script it needs or the entry it removed.
Copies(q, h) ==
  IF h = "codex" THEN pc[q] \in {"write", "codex write"} ELSE pc[q] = "gemini write"
Installs(q, h) == h = "codex" /\ pc[q] \in {"read", "write"}
Removed(q, h) ==
  IF h = "codex" THEN pc[q] = "codex script" ELSE pc[q] = "gemini script"

Claim(q, h) ==
  /\ Copies(q, h) => copy[q] = hooks[h].entries
  /\ Installs(q, h) => h \in script
  /\ Removed(q, h) => hooks[h].entries \cap Lto = {}

Home(h) ==
  /\ mine[h] \subseteq hooks[h].entries
  /\ hooks[h].entries \cap Lto # {} => h \in script
  /\ \A q \in Hooker : Claim(q, h)

HookInv ==
  /\ hooks \in [Homes -> [file : Files, entries : SUBSET Entries]]
  /\ copy \in [Hooker -> SUBSET Entries]
  /\ mine \in [Homes -> SUBSET Entries]
  /\ \A h \in Homes : mine[h] \cap Lto = {} /\ (Missing(h) => hooks[h].entries = {})
  /\ \A h \in Homes \ overlapped : Home(h)

LEMMA HookInit == Init => HookInv
<1> SUFFICES ASSUME Init PROVE HookInv
  OBVIOUS
<1>1. hooks \in FirstHooks
  BY DEF Init
<1>2. \A h \in Homes : hooks[h].entries \subseteq Entries /\ hooks[h].file \in Files
  BY <1>1 DEF Entries, Files
<1>3. /\ hooks = [h \in Homes |-> [file |-> hooks[h].file, entries |-> hooks[h].entries]]
      /\ \A h \in Homes : hooks[h].file \in {"no home", "absent"} => hooks[h].entries = {}
  BY <1>1, SignalsHomes
<1>4. \A h \in Homes : [file |-> hooks[h].file, entries |-> hooks[h].entries]
                         \in [file : Files, entries : SUBSET Entries]
  BY <1>2
<1>5. hooks \in [Homes -> [file : Files, entries : SUBSET Entries]]
  BY <1>3, <1>4
<1>6. copy \in [Hooker -> SUBSET Entries] /\ mine \in [Homes -> SUBSET Entries]
  BY <1>2 DEF Init, Hooker
<1>7. \A h \in Homes : mine[h] = hooks[h].entries \ Lto /\ (hooks[h].entries \cap Lto # {} => h \in script)
  BY DEF Init
<1>8. ASSUME NEW q \in Hooker PROVE pc[q] \in {"off", "goal", "codex read"}
  BY <1>8, PcInit, SignalsProcesses DEF Proc, Start, Hooker
<1>9. \A h \in Homes : \A q \in Hooker : Claim(q, h)
  BY <1>8 DEF Claim, Copies, Installs, Removed
<1> QED BY <1>3, <1>5, <1>6, <1>7, <1>9 DEF HookInv, Home, Missing

\* A step of p that leaves home h as it is.
LEMMA HomeAside ==
  ASSUME PcInv, HookInv, NEW h \in Homes, NEW p,
         \A q \in Hooker \ {p} : pc'[q] = pc[q] /\ copy'[q] = copy[q],
         p \in Hooker => Claim(p, h)',
         hooks'[h] = hooks[h], mine'[h] = mine[h], h \in script' <=> h \in script,
         h \notin overlapped' => h \notin overlapped
  PROVE  h \notin overlapped' => Home(h)'
<1> SUFFICES ASSUME h \notin overlapped' PROVE Home(h)'
  OBVIOUS
<1>1. Home(h)
  BY DEF HookInv
<1>2. ASSUME NEW q \in Hooker \ {p} PROVE Claim(q, h)'
  BY <1>1 DEF Home, Claim, Copies, Installs, Removed
<1>3. \A q \in Hooker : Claim(q, h)'
  BY <1>2
<1> QED BY <1>1, <1>3 DEF Home

\* A step of p that changes home h: unless the home is now overlapped, nobody
\* else was busy there.
LEMMA HomeChange ==
  ASSUME PcInv, HookInv, NEW h \in Homes, NEW p \in Hooker, Overlap(p, h),
         \A q \in Hooker \ {p} : pc'[q] = pc[q],
         h \notin overlapped' => Claim(p, h)',
         h \notin overlapped' =>
           mine'[h] \subseteq hooks'[h].entries /\ (hooks'[h].entries \cap Lto # {} => h \in script')
  PROVE  h \notin overlapped' => Home(h)'
<1> SUFFICES ASSUME h \notin overlapped' PROVE Home(h)'
  OBVIOUS
<1>1. \A q \in Proc \ {p} : ~Busy(q, h)
  BY DEF Overlap
<1>2. Hooker \subseteq Proc /\ h \in {"codex", "gemini"}
  BY DEF Hooker, Proc, Homes
<1>3. ASSUME NEW q \in Hooker \ {p} PROVE Claim(q, h)'
  <2>1. ~Busy(q, h) /\ pc'[q] = pc[q]
    BY <1>1, <1>2
  <2> QED BY <1>2, <2>1 DEF Busy, Claim, Copies, Installs, Removed
<1>4. \A q \in Hooker : Claim(q, h)'
  BY <1>3
<1> QED BY <1>4 DEF Home

\* The parts of HookInv that do not depend on who else is busy.
LEMMA HookParts ==
  ASSUME hooks' \in [Homes -> [file : Files, entries : SUBSET Entries]],
         copy' \in [Hooker -> SUBSET Entries],
         mine' \in [Homes -> SUBSET Entries],
         \A h \in Homes : mine'[h] \cap Lto = {} /\ (Missing(h)' => hooks'[h].entries = {}),
         "codex" \notin overlapped' => Home("codex")',
         "gemini" \notin overlapped' => Home("gemini")'
  PROVE  HookInv'
BY DEF HookInv, Homes

\* A step that touches neither the homes nor a process busy with them.
LEMMA HookAside ==
  ASSUME PcInv, HookInv, UNCHANGED <<hooks, script, copy, mine, overlapped>>,
         \A q \in Hooker : \/ pc'[q] = pc[q]
                           \/ pc'[q] \in {"script", "gemini read", "send", "work", "reported",
                                          "ended", "dead", "done"}
  PROVE  HookInv'
<1>1. ASSUME NEW h \in Homes, h \notin overlapped' PROVE Home(h)'
  <2>1. Home(h)
    BY <1>1 DEF HookInv
  <2>2. ASSUME NEW q \in Hooker PROVE Claim(q, h)'
    <3>1. Claim(q, h)
      BY <2>1 DEF Home
    <3>2. CASE pc'[q] = pc[q]
      BY <3>1, <3>2 DEF Claim, Copies, Installs, Removed
    <3>3. CASE pc'[q] \in {"script", "gemini read", "send", "work", "reported",
                           "ended", "dead", "done"}
      BY <3>3 DEF Claim, Copies, Installs, Removed
    <3> QED BY <3>2, <3>3
  <2> QED BY <2>1, <2>2 DEF Home
<1> QED BY <1>1 DEF HookInv, Missing

\* A turn of p at home h, o being the other home.
LEMMA HookTurn ==
  ASSUME PcInv, HookInv, NEW h \in Homes, NEW o \in Homes, o # h, NEW p \in Hooker,
         \A q \in Hooker \ {p} : pc'[q] = pc[q] /\ copy'[q] = copy[q],
         hooks' \in [Homes -> [file : Files, entries : SUBSET Entries]],
         copy' \in [Hooker -> SUBSET Entries],
         UNCHANGED mine, hooks'[o] = hooks[o], o \in script' <=> o \in script,
         overlapped \subseteq overlapped',
         Claim(p, o)',
         Missing(h)' => hooks'[h].entries = {},
         Overlap(p, h) \/ (hooks'[h] = hooks[h] /\ (h \in script' <=> h \in script)),
         h \notin overlapped' =>
           /\ Claim(p, h)'
           /\ mine'[h] \subseteq hooks'[h].entries
           /\ hooks'[h].entries \cap Lto # {} => h \in script'
  PROVE  HookInv'
<1>1. o \notin overlapped' => Home(o)'
  BY HomeAside
<1>2. h \notin overlapped' => Home(h)'
  <2>1. CASE Overlap(p, h)
    BY <2>1, HomeChange
  <2>2. CASE hooks'[h] = hooks[h] /\ (h \in script' <=> h \in script)
    <3>1. CASE h \in overlapped'
      BY <3>1
    <3>2. CASE h \notin overlapped'
      <4>1. Claim(p, h)' /\ mine'[h] = mine[h] /\ h \notin overlapped
        BY <3>2
      <4> QED BY <2>2, <4>1, HomeAside
    <3> QED BY <3>1, <3>2
  <2> QED BY <2>1, <2>2
<1>3. \A x \in Homes : x = h \/ x = o
  BY DEF Homes
<1>4. mine' \in [Homes -> SUBSET Entries] /\ \A x \in Homes : mine'[x] \cap Lto = {}
  BY DEF HookInv
<1>5. \A x \in Homes : Missing(x)' => hooks'[x].entries = {}
  BY <1>3 DEF HookInv, Missing
<1>6. "codex" \in Homes /\ "gemini" \in Homes
  BY DEF Homes
<1> QED BY <1>1, <1>2, <1>3, <1>4, <1>5, <1>6, HookParts

\* What the steps at a home have in common.
LEMMA HookMove ==
  ASSUME PcInv, HookInv, NEW p \in Hooker, NEW t, pc' = [pc EXCEPT ![p] = t],
         NEW c \in SUBSET Entries, copy' = copy \/ copy' = [copy EXCEPT ![p] = c]
  PROVE  /\ pc'[p] = t
         /\ \A q \in Hooker \ {p} : pc'[q] = pc[q] /\ copy'[q] = copy[q]
         /\ copy' \in [Hooker -> SUBSET Entries]
         /\ copy' # copy => copy'[p] = c
<1>1. Hooker \subseteq Proc
  BY DEF Hooker, Proc
<1> QED BY <1>1 DEF PcInv, HookInv

\* An uninstaller reads the settings of home h.
LEMMA HookRead ==
  ASSUME PcInv, HookInv, NEW h \in Homes, NEW p \in Hooker, NEW t,
         pc' = [pc EXCEPT ![p] = t], copy' = [copy EXCEPT ![p] = hooks[h].entries],
         UNCHANGED <<hooks, script, mine, overlapped>>,
         \/ t \in {"send", "done"}
         \/ t = IF h = "codex" THEN "codex write" ELSE "gemini write"
         \/ t = "gemini script" /\ h = "gemini" /\ hooks[h].entries \cap Lto = {}
  PROVE  HookInv'
<1>1. PICK o \in Homes : o # h /\ {o, h} = {"codex", "gemini"}
  BY DEF Homes
<1>2. /\ hooks \in [Homes -> [file : Files, entries : SUBSET Entries]]
      /\ hooks[h].entries \in SUBSET Entries
      /\ Missing(h) => hooks[h].entries = {}
  BY DEF HookInv
<1>3. /\ pc'[p] = t /\ copy' \in [Hooker -> SUBSET Entries]
      /\ \A q \in Hooker \ {p} : pc'[q] = pc[q] /\ copy'[q] = copy[q]
  <2> DEFINE c == hooks[h].entries
  <2>1. c \in SUBSET Entries /\ copy' = [copy EXCEPT ![p] = c]
    BY <1>2
  <2> HIDE DEF c
  <2> QED BY <2>1, HookMove
<1>4. copy'[p] = hooks[h].entries
  BY DEF HookInv
<1>5. Claim(p, o)'
  BY <1>1, <1>3 DEF Claim, Copies, Installs, Removed
<1>6. Claim(p, h)'
  BY <1>1, <1>3, <1>4 DEF Claim, Copies, Installs, Removed
<1>7. h \notin overlapped' => Home(h)
  BY DEF HookInv
<1>8. Missing(h)' => hooks'[h].entries = {}
  BY <1>2 DEF Missing
<1> QED BY <1>1, <1>2, <1>3, <1>5, <1>6, <1>7, <1>8, HookTurn DEF Home

\* It renames a copy without lto's entries into place.
LEMMA HookErase ==
  ASSUME PcInv, HookInv, NEW h \in Homes, NEW p \in Hooker, NEW t, Copies(p, h),
         pc' = [pc EXCEPT ![p] = t], t = IF h = "codex" THEN "codex script" ELSE "gemini script",
         hooks' = [hooks EXCEPT ![h] = [file |-> "ok", entries |-> copy[p] \ Lto]],
         UNCHANGED <<script, copy, mine>>, Overlap(p, h)
  PROVE  HookInv'
<1>1. PICK o \in Homes : o # h /\ {o, h} = {"codex", "gemini"}
  BY DEF Homes
<1>2. hooks \in [Homes -> [file : Files, entries : SUBSET Entries]] /\ copy[p] \in SUBSET Entries
  BY DEF HookInv
<1>3. /\ pc'[p] = t
      /\ copy' \in [Hooker -> SUBSET Entries]
      /\ \A q \in Hooker \ {p} : pc'[q] = pc[q] /\ copy'[q] = copy[q]
  BY <1>2, HookMove
<1>4. [file |-> "ok", entries |-> copy[p] \ Lto] \in [file : Files, entries : SUBSET Entries]
  BY <1>2 DEF Files
<1>5. /\ hooks' \in [Homes -> [file : Files, entries : SUBSET Entries]]
      /\ hooks'[o] = hooks[o] /\ hooks'[h].file = "ok"
      /\ hooks'[h].entries = copy[p] \ Lto
  BY <1>1, <1>2, <1>4
<1>6. Claim(p, o)'
  <2>1. ~Copies(p, o)' /\ ~Installs(p, o)' /\ ~Removed(p, o)'
    <3>1. CASE h = "codex" /\ o = "gemini"
      <4>1. pc'[p] = "codex script"
        BY <1>3, <3>1
      <4> QED BY <3>1, <4>1 DEF Copies, Installs, Removed
    <3>2. CASE h = "gemini" /\ o = "codex"
      <4>1. pc'[p] = "gemini script"
        BY <1>3, <3>2
      <4> QED BY <3>2, <4>1 DEF Copies, Installs, Removed
    <3> QED BY <1>1, <3>1, <3>2
  <2> QED BY <2>1 DEF Claim
<1>7. Claim(p, h)'
  <2>1. ~Copies(p, h)' /\ ~Installs(p, h)'
    <3>1. CASE h = "codex"
      <4>1. pc'[p] = "codex script"
        BY <1>3, <3>1
      <4> QED BY <3>1, <4>1 DEF Copies, Installs
    <3>2. CASE h = "gemini"
      <4>1. pc'[p] = "gemini script"
        BY <1>3, <3>2
      <4> QED BY <3>2, <4>1 DEF Copies, Installs
    <3> QED BY <1>1, <3>1, <3>2
  <2> QED BY <1>5, <2>1 DEF Claim
<1>8. overlapped \subseteq overlapped' /\ ~Missing(h)'
  BY <1>5 DEF Overlap, Missing
<1>9. ASSUME h \notin overlapped' PROVE mine'[h] \subseteq hooks'[h].entries
  <2>1. Home(h) /\ Claim(p, h)
    BY <1>8, <1>9 DEF HookInv, Home
  <2>2. copy[p] = hooks[h].entries /\ mine[h] \subseteq hooks[h].entries
    BY <2>1 DEF Home, Claim
  <2>3. mine[h] \cap Lto = {}
    BY DEF HookInv
  <2> QED BY <1>5, <2>2, <2>3
<1>10. hooks'[h].entries \cap Lto = {}
  BY <1>5
<1> QED BY <1>1, <1>3, <1>5, <1>6, <1>7, <1>8, <1>9, <1>10, HookTurn

\* It removes the script, once no entry of lto is left.
LEMMA HookUnscript ==
  ASSUME PcInv, HookInv, NEW h \in Homes, NEW p \in Hooker,
         NEW t \in {"gemini read", "send", "done"}, pc' = [pc EXCEPT ![p] = t],
         copy' = copy \/ copy' = [copy EXCEPT ![p] = hooks[h].entries],
         UNCHANGED <<hooks, mine>>, script' = script \ {h}, Overlap(p, h),
         Missing(h) \/ Removed(p, h)
  PROVE  HookInv'
<1>1. PICK o \in Homes : o # h
  BY DEF Homes
<1>2. /\ hooks \in [Homes -> [file : Files, entries : SUBSET Entries]]
      /\ hooks[h].entries \in SUBSET Entries
      /\ Missing(h) => hooks[h].entries = {}
  BY DEF HookInv
<1>3. /\ pc'[p] = t /\ copy' \in [Hooker -> SUBSET Entries]
      /\ \A q \in Hooker \ {p} : pc'[q] = pc[q] /\ copy'[q] = copy[q]
  <2>1. CASE copy' = copy
    BY <1>2, <2>1, HookMove
  <2>2. CASE copy' = [copy EXCEPT ![p] = hooks[h].entries]
    <3> DEFINE c == hooks[h].entries
    <3>1. c \in SUBSET Entries /\ copy' = [copy EXCEPT ![p] = c]
      BY <1>2, <2>2
    <3> HIDE DEF c
    <3> QED BY <3>1, HookMove
  <2> QED BY <2>1, <2>2
<1>4. Claim(p, o)' /\ Claim(p, h)'
  <2>1. pc'[p] \notin {"read", "write", "codex write", "codex script", "gemini write", "gemini script"}
    BY <1>3
  <2> QED BY <2>1 DEF Claim, Copies, Installs, Removed
<1>5. overlapped \subseteq overlapped' /\ (Missing(h)' => hooks'[h].entries = {})
  BY <1>2 DEF Overlap, Missing
<1>6. ASSUME h \notin overlapped'
      PROVE  mine'[h] \subseteq hooks'[h].entries /\ hooks'[h].entries \cap Lto = {}
  <2>1. Home(h) /\ Claim(p, h)
    BY <1>5, <1>6 DEF HookInv, Home
  <2> QED BY <1>2, <2>1 DEF Home, Claim
<1> QED BY <1>1, <1>2, <1>3, <1>4, <1>5, <1>6, HookTurn

LEMMA HookStep ==
  ASSUME PcInv, HookInv, [Next]_vars
  PROVE  HookInv'
<1> USE DEF Goto
<1>1. Hooker \subseteq Proc /\ "codex" \in Homes /\ "gemini" \in Homes /\ "codex" # "gemini"
  BY DEF Hooker, Proc, Homes
<1>2. \A h \in Homes : hooks[h].entries \in SUBSET Entries
  BY DEF HookInv
<1>3. hooks \in [Homes -> [file : Files, entries : SUBSET Entries]] /\ pc \in [Proc -> AllSteps]
        /\ \A h \in Homes : Missing(h) => hooks[h].entries = {}
  BY DEF HookInv, PcInv
<1>4. \A h \in Homes \ overlapped : Home(h)
  BY DEF HookInv
<1>5. CASE UNCHANGED vars
  BY <1>5, HookAside DEF vars, hookVars
<1>6. ASSUME NEW a \in Agent, InstallScript(a) PROVE HookInv'
  <2>1. a \in Hooker
    BY DEF Hooker
  <2>2. CASE hooks["codex"].file = "no home"
    <3>1. UNCHANGED hookVars /\ pc' = [pc EXCEPT ![a] = "send"]
      BY <1>6, <2>2 DEF InstallScript, hookVars
    <3>2. \A q \in Hooker : pc'[q] = pc[q] \/ pc'[q] = "send"
      BY <1>1, <1>3, <3>1
    <3> QED BY <3>1, <3>2, HookAside DEF hookVars
  <2>3. CASE hooks["codex"].file # "no home"
    <3>1. /\ UNCHANGED <<hooks, copy, mine>> /\ pc' = [pc EXCEPT ![a] = "read"]
          /\ script' = script \cup {"codex"} /\ Overlap(a, "codex")
      BY <1>6, <2>3 DEF InstallScript
    <3>2. /\ pc'[a] = "read" /\ copy' \in [Hooker -> SUBSET Entries]
          /\ \A q \in Hooker \ {a} : pc'[q] = pc[q] /\ copy'[q] = copy[q]
      BY <1>1, <1>2, <2>1, <3>1, HookMove
    <3>3. Claim(a, "codex")' /\ Claim(a, "gemini")'
      BY <3>1, <3>2 DEF Claim, Copies, Installs, Removed
    <3>4. overlapped \subseteq overlapped' /\ (Missing("codex")' => hooks'["codex"].entries = {})
      BY <1>1, <1>3, <3>1 DEF Overlap, Missing
    <3>5. "codex" \notin overlapped' => mine'["codex"] \subseteq hooks'["codex"].entries
      BY <1>1, <1>4, <3>1, <3>4 DEF Home
    <3> QED BY <1>1, <1>3, <2>1, <3>1, <3>2, <3>3, <3>4, <3>5, HookTurn
  <2> QED BY <2>2, <2>3
<1>7. ASSUME NEW a \in Agent, InstallRead(a) PROVE HookInv'
  <2> DEFINE t == IF hooks["codex"].file = "broken" \/ BinOf[a] \in hooks["codex"].entries
                  THEN "send" ELSE "write"
  <2>1. /\ a \in Hooker /\ pc[a] = "read" /\ UNCHANGED <<hooks, script, mine, overlapped>>
        /\ copy' = [copy EXCEPT ![a] = hooks["codex"].entries] /\ pc' = [pc EXCEPT ![a] = t]
    BY <1>7 DEF Hooker, InstallRead
  <2>2. t \in {"send", "write"}
    OBVIOUS
  <2> HIDE DEF t
  <2>3. /\ pc'[a] = t /\ copy' \in [Hooker -> SUBSET Entries]
        /\ \A q \in Hooker \ {a} : pc'[q] = pc[q] /\ copy'[q] = copy[q]
    <3> DEFINE c == hooks["codex"].entries
    <3>1. c \in SUBSET Entries /\ copy' = [copy EXCEPT ![a] = c]
      BY <1>1, <1>2, <2>1
    <3> HIDE DEF c
    <3> QED BY <2>1, <3>1, HookMove
  <2>4. copy'[a] = hooks["codex"].entries
    BY <2>1 DEF HookInv
  <2>5. Claim(a, "gemini")'
    BY <2>2, <2>3 DEF Claim, Copies, Installs, Removed
  <2>6. ASSUME "codex" \notin overlapped
        PROVE  Claim(a, "codex")' /\ Home("codex")
    <3>1. Home("codex") /\ Claim(a, "codex")
      BY <1>1, <1>4, <2>1, <2>6 DEF Home
    <3>2. "codex" \in script
      BY <2>1, <3>1 DEF Claim, Installs
    <3>3. Claim(a, "codex")'
      BY <2>1, <2>2, <2>3, <2>4, <3>2 DEF Claim, Copies, Installs, Removed
    <3> QED BY <3>1, <3>3
  <2>7. Missing("codex")' => hooks'["codex"].entries = {}
    BY <1>1, <1>3, <2>1 DEF Missing
  <2>8. "codex" \notin overlapped' =>
           /\ Claim(a, "codex")'
           /\ mine'["codex"] \subseteq hooks'["codex"].entries
           /\ hooks'["codex"].entries \cap Lto # {} => "codex" \in script'
    BY <2>1, <2>6 DEF Home
  <2> QED BY <1>1, <1>3, <2>1, <2>3, <2>5, <2>7, <2>8, HookTurn
<1>8. ASSUME NEW a \in Agent, InstallWrite(a) PROVE HookInv'
  <2> DEFINE e == Installed(copy[a], BinOf[a])
  <2>1. /\ a \in Hooker /\ pc[a] = "write" /\ UNCHANGED <<script, copy, mine>>
        /\ hooks' = [hooks EXCEPT !["codex"] = [file |-> "ok", entries |-> e]]
        /\ Overlap(a, "codex") /\ pc' = [pc EXCEPT ![a] = "send"]
    BY <1>8 DEF Hooker, InstallWrite
  <2>2. e \in SUBSET Entries /\ (copy[a] \ Lto) \subseteq e
    <3>1. BinOf[a] \in Entries /\ copy[a] \in SUBSET Entries
      BY <2>1 DEF Entries, Lto, HookInv
    <3> QED BY <3>1 DEF Installed
  <2> HIDE DEF e
  <2>3. /\ pc'[a] = "send" /\ copy' \in [Hooker -> SUBSET Entries]
        /\ \A q \in Hooker \ {a} : pc'[q] = pc[q] /\ copy'[q] = copy[q]
    BY <1>1, <1>2, <2>1, HookMove
  <2>4. Claim(a, "codex")' /\ Claim(a, "gemini")'
    BY <2>3 DEF Claim, Copies, Installs, Removed
  <2>5. [file |-> "ok", entries |-> e] \in [file : Files, entries : SUBSET Entries]
    BY <2>2 DEF Files
  <2>6. /\ hooks' \in [Homes -> [file : Files, entries : SUBSET Entries]]
        /\ hooks'["gemini"] = hooks["gemini"]
        /\ hooks'["codex"].entries = e /\ hooks'["codex"].file = "ok"
    BY <1>1, <1>3, <2>1, <2>5
  <2>7. overlapped \subseteq overlapped'
    BY <2>1 DEF Overlap
  <2>8. ASSUME "codex" \notin overlapped'
        PROVE  mine'["codex"] \subseteq e /\ "codex" \in script
    <3>1. Home("codex") /\ Claim(a, "codex")
      BY <1>1, <1>4, <2>1, <2>7, <2>8 DEF Home
    <3>2. copy[a] = hooks["codex"].entries /\ "codex" \in script
      BY <2>1, <3>1 DEF Claim, Installs, Copies
    <3>3. mine["codex"] \subseteq hooks["codex"].entries /\ mine["codex"] \cap Lto = {}
      BY <1>1, <3>1 DEF Home, HookInv
    <3> QED BY <2>1, <2>2, <3>2, <3>3
  <2>9. ~Missing("codex")'
    BY <2>6 DEF Missing
  <2> QED BY <1>1, <2>1, <2>3, <2>4, <2>6, <2>7, <2>8, <2>9, HookTurn
<1>9. ASSUME NEW p \in Remover, RemoveRead(p) \/ RemoveWrite(p) \/ RemoveScript(p)
      PROVE  HookInv'
  <2>1. p \in Hooker
    BY DEF Hooker
  <2>2. CASE RemoveRead(p)
    <3>1. /\ copy' = [copy EXCEPT ![p] = hooks["codex"].entries] /\ UNCHANGED <<hooks, mine>>
          /\ IF Missing("codex")
             THEN /\ script' = script \ {"codex"} /\ Overlap(p, "codex")
                  /\ pc' = [pc EXCEPT ![p] = "gemini read"]
             ELSE /\ \E t \in {"done", "codex write"} : pc' = [pc EXCEPT ![p] = t]
                  /\ UNCHANGED <<script, overlapped>>
      BY <2>2 DEF RemoveRead
    <3>2. CASE Missing("codex")
      BY <1>1, <2>1, <3>1, <3>2, HookUnscript
    <3>3. CASE ~Missing("codex")
      BY <1>1, <2>1, <3>1, <3>3, HookRead
    <3> QED BY <3>2, <3>3
  <2>3. CASE RemoveWrite(p)
    <3>1. Copies(p, "codex")
      BY <2>3 DEF RemoveWrite, Copies
    <3> QED BY <1>1, <2>1, <2>3, <3>1, HookErase DEF RemoveWrite
  <2>4. CASE RemoveScript(p)
    <3>1. Removed(p, "codex")
      BY <2>4 DEF RemoveScript, Removed
    <3> QED BY <1>1, <2>1, <2>4, <3>1, HookUnscript DEF RemoveScript
  <2> QED BY <1>9, <2>2, <2>3, <2>4
<1>10. ASSUME NEW p \in Hooker, AgyRead(p) \/ AgyWrite(p) \/ AgyScript(p)
       PROVE  HookInv'
  <2>1. After(p) \in {"send", "done"}
    BY DEF After
  <2>2. CASE AgyRead(p)
    <3>1. /\ copy' = [copy EXCEPT ![p] = hooks["gemini"].entries] /\ UNCHANGED <<hooks, mine>>
          /\ IF Missing("gemini")
             THEN /\ script' = script \ {"gemini"} /\ Overlap(p, "gemini")
                  /\ pc' = [pc EXCEPT ![p] = After(p)]
             ELSE /\ \/ \E t \in {After(p), "gemini write"} : pc' = [pc EXCEPT ![p] = t]
                     \/ /\ pc' = [pc EXCEPT ![p] = "gemini script"]
                        /\ hooks["gemini"].entries \cap Lto = {}
                  /\ UNCHANGED <<script, overlapped>>
      BY <2>2 DEF AgyRead
    <3>2. CASE Missing("gemini")
      BY <1>1, <2>1, <3>1, <3>2, HookUnscript
    <3>3. CASE ~Missing("gemini")
      <4>1. UNCHANGED <<script, overlapped>>
        BY <3>1, <3>3
      <4>2. CASE \E t \in {After(p), "gemini write"} : pc' = [pc EXCEPT ![p] = t]
        BY <1>1, <2>1, <3>1, <4>1, <4>2, HookRead
      <4>3. CASE pc' = [pc EXCEPT ![p] = "gemini script"] /\ hooks["gemini"].entries \cap Lto = {}
        BY <1>1, <2>1, <3>1, <4>1, <4>3, HookRead
      <4> QED BY <3>1, <3>3, <4>2, <4>3
    <3> QED BY <3>2, <3>3
  <2>3. CASE AgyWrite(p)
    <3>1. Copies(p, "gemini")
      BY <2>3 DEF AgyWrite, Copies
    <3> QED BY <1>1, <2>3, <3>1, HookErase DEF AgyWrite
  <2>4. CASE AgyScript(p)
    <3>1. Removed(p, "gemini")
      BY <2>4 DEF AgyScript, Removed
    <3> QED BY <1>1, <2>1, <2>4, <3>1, HookUnscript DEF AgyScript
  <2> QED BY <1>10, <2>2, <2>3, <2>4
<1>11. ASSUME NEW h \in Homes, NEW file \in {"ok", "broken"}, UserEdit(h, file) PROVE HookInv'
  <2> DEFINE e == hooks[h].entries \cup {UserEntry}
  <2>1. /\ hooks' = [hooks EXCEPT ![h] = [file |-> file, entries |-> e]]
        /\ mine' = [mine EXCEPT ![h] = @ \cup {UserEntry}]
        /\ overlapped' = overlapped \cup (IF \E q \in Proc : Busy(q, h) THEN {h} ELSE {})
        /\ UNCHANGED <<pc, script, copy>>
    BY <1>1, <1>11 DEF UserEdit
  <2>2. UserEntry \in Entries /\ UserEntry \notin Lto
    BY SignalsEnvironment DEF Entries
  <2>3. e \in SUBSET Entries /\ e \cap Lto = hooks[h].entries \cap Lto
    BY <1>2, <2>2
  <2>4. [file |-> file, entries |-> e] \in [file : Files, entries : SUBSET Entries]
    BY <2>3 DEF Files
  <2>5. hooks'[h].entries = e /\ hooks'[h].file = file
    BY <1>3, <2>1
  <2> HIDE DEF e
  <2>6. hooks' \in [Homes -> [file : Files, entries : SUBSET Entries]]
          /\ \A x \in Homes \ {h} : hooks'[x] = hooks[x] /\ mine'[x] = mine[x]
    BY <1>3, <2>1, <2>4 DEF HookInv
  <2>7. mine' \in [Homes -> SUBSET Entries] /\ mine'[h] = mine[h] \cup {UserEntry}
    BY <2>1, <2>2 DEF HookInv
  <2>8. \A x \in Homes : mine'[x] \cap Lto = {} /\ (Missing(x)' => hooks'[x].entries = {})
    <3>1. ~Missing(h)'
      BY <2>5 DEF Missing
    <3>2. mine'[h] \cap Lto = {}
      BY <2>2, <2>7 DEF HookInv
    <3> QED BY <1>3, <2>6, <3>1, <3>2 DEF Missing, HookInv
  <2>9. ASSUME NEW x \in Homes, x \notin overlapped' PROVE Home(x)'
    <3>1. Home(x)
      BY <1>4, <2>1, <2>9
    <3>2. CASE x # h
      BY <2>1, <2>6, <3>1, <3>2 DEF Home, Claim, Copies, Installs, Removed
    <3>3. CASE x = h
      <4>1. \A q \in Proc : ~Busy(q, h)
        BY <2>1, <2>9, <3>3
      <4>2. ASSUME NEW q \in Hooker PROVE Claim(q, h)'
        <5>1. ~Busy(q, h) /\ pc' = pc /\ h \in {"codex", "gemini"}
          BY <1>1, <2>1, <4>1 DEF Homes
        <5> QED BY <5>1 DEF Busy, Claim, Copies, Installs, Removed
      <4>3. mine'[h] \subseteq e
        BY <2>7, <3>1, <3>3 DEF Home, e
      <4> QED BY <2>1, <2>3, <2>5, <3>1, <3>3, <4>2, <4>3 DEF Home
    <3> QED BY <3>2, <3>3
  <2>10. copy' \in [Hooker -> SUBSET Entries]
    BY <2>1 DEF HookInv
  <2> QED BY <1>1, <2>6, <2>7, <2>8, <2>9, <2>10, HookParts
<1>12. ASSUME NEW a \in Agent,
              Materialize(a) \/ ReadGoal(a) \/ SelfReport(a) \/ StopHook(a) \/ ProcessExit(a)
       PROVE  HookInv'
  <2>1. UNCHANGED <<hooks, script, copy, mine, overlapped>>
    BY <1>12 DEF Materialize, ReadGoal, SelfReport, StopHook, ProcessExit, hookVars
  <2>2. \/ UNCHANGED pc
        \/ \E t \in {"script", "gemini read", "send", "work", "reported", "ended"} :
             pc' = [pc EXCEPT ![a] = t]
    BY <1>12 DEF Materialize, ReadGoal, SelfReport, StopHook, ProcessExit
  <2>3. \A q \in Hooker :
          pc'[q] = pc[q] \/ pc'[q] \in {"script", "gemini read", "send", "work", "reported", "ended"}
    BY <1>1, <1>3, <2>2
  <2> QED BY <2>1, <2>3, HookAside
<1>13. ASSUME NEW w \in Waiter,
              \/ Look(w) \/ Enter(w) \/ ReadEndpoints(w) \/ WriteEndpoints(w)
              \/ EnrollFails(w) \/ Poll(w)
       PROVE  HookInv'
  <2>1. UNCHANGED <<hooks, script, copy, mine, overlapped>>
    BY <1>13 DEF Look, Enter, ReadEndpoints, WriteEndpoints, EnrollFails, Poll, hookVars
  <2>2. UNCHANGED pc \/ \E t : pc' = [pc EXCEPT ![w] = t]
    BY <1>13 DEF Look, Enter, Lock, ReadEndpoints, WriteEndpoints, EnrollFails, Poll
  <2>3. \A q \in Hooker : q # w
    BY SignalsProcesses DEF Hooker
  <2>4. \A q \in Hooker : pc'[q] = pc[q]
    BY <1>1, <1>3, <2>2, <2>3
  <2> QED BY <2>1, <2>4, HookAside
<1>14. CASE (\E r \in Runs : WakeRun(r) \/ CloseRun(r)) \/ HandTurn
  BY <1>14, HookAside DEF WakeRun, CloseRun, HandTurn, hookVars
<1>15. ASSUME NEW p \in Proc, Kill(p) PROVE HookInv'
  <2>1. UNCHANGED <<hooks, script, copy, mine, overlapped>> /\ pc' = [pc EXCEPT ![p] = "dead"]
    BY <1>15 DEF Kill, hookVars
  <2>2. \A q \in Hooker : pc'[q] = pc[q] \/ pc'[q] = "dead"
    BY <1>1, <1>3, <2>1
  <2> QED BY <2>1, <2>2, HookAside
<1> QED BY <1>5, <1>6, <1>7, <1>8, <1>9, <1>10, <1>11, <1>12, <1>13, <1>14, <1>15 DEF Next, Hooker

LEMMA HooksHold == Spec => []HookInv
<1>1. Init => PcInv
  BY PcInit
<1>2. PcInv /\ HookInv /\ [Next]_vars => PcInv' /\ HookInv'
  BY PcStep, HookStep
<1> QED BY HookInit, <1>1, <1>2, PTL DEF Spec

\* The user's own hooks survive every install and uninstall of lto's that
\* nobody overlapped, for any dispatches, settings to begin with and kills in
\* between.
THEOREM HooksTheorem == Spec => []UserHooksKept
<1>1. HookInv => UserHooksKept
  BY DEF HookInv, Home, UserHooksKept
<1> QED BY HooksHold, <1>1, PTL

\* An entry of lto's in hooks.json or settings.json names a script that is
\* there, wherever an install or an uninstall that nobody overlapped was killed.
THEOREM ScriptTheorem == Spec => []HookRuns
<1>1. HookInv => HookRuns
  BY DEF HookInv, Home, HookRuns
<1> QED BY HooksHold, <1>1, PTL

-----------------------------------------------------------------------------
(* Who completes a run.                                                    *)

\* May a complete run r: is it the run of a dispatch with a's goal file, or the
\* run that the goal's own text names?
Owned(a, r) ==
  /\ a \in Agent
  /\ \E b \in Agent : GoalOf[b] = GoalOf[a] /\ r \in {RunOf[b], OwnReport[GoalOf[b]]}

Marked == \A r \in Runs : \A i \in 1 .. Len(log[r]) :
            log[r][i].type = "completed" => Owned(log[r][i].by, r)

\* The dispatch copy of a goal names the run of a dispatch that asked for it, and
\* an agent was told nothing else than its goal's text or that copy.
ToldInv ==
  /\ goals \in [Goals -> Runs \cup {NoRun}]
  /\ told \in [Agent -> Runs \cup {NoRun}]
  /\ \A g \in Goals : goals[g] # NoRun =>
       \E b \in Agent : GoalOf[b] = g /\ NeedsProtocol(b) /\ goals[g] = RunOf[b]
  /\ \A a \in Agent : told[a] # NoRun => Owned(a, told[a])

\* An aix with a goal of its own: only its exit is reported, so it completes once,
\* or never if that event is dropped.
Lone(a) == /\ RunnerOf[a] = "aix" /\ OwnReport[GoalOf[a]] = NoRun
           /\ \A b \in Agent \ {a} : GoalOf[b] # GoalOf[a]
Own(a, q) == {i \in 1 .. Len(q) : q[i].by = a /\ q[i].type = "completed"}
Solo(a) ==
  /\ goals[GoalOf[a]] = NoRun /\ told[a] = NoRun /\ pc[a] # "reported"
  /\ pc[a] # "ended" => a \notin lost
  /\ pc[a] # "ended" \/ a \in lost => Own(a, log[RunOf[a]]) = {}
  /\ pc[a] = "ended" /\ a \notin lost => \E k : Own(a, log[RunOf[a]]) = {k}

ReportInv ==
  /\ log \in [Runs -> Seq(Entry)]
  /\ Marked
  /\ ToldInv
  /\ \A a \in Agent : Lone(a) => Solo(a)

LEMMA Appended ==
  ASSUME NEW q \in Seq(Entry), NEW e \in Entry
  PROVE  /\ Append(q, e) \in Seq(Entry) /\ Len(q) \in Nat
         /\ Len(Append(q, e)) = Len(q) + 1
         /\ \A i \in 1 .. Len(q) : Append(q, e)[i] = q[i]
         /\ Append(q, e)[Len(q) + 1] = e
OBVIOUS

LEMMA ReportInit == Init => ReportInv
<1> SUFFICES ASSUME Init PROVE ReportInv
  OBVIOUS
<1>1. log \in [Runs -> Seq(Entry)] /\ \A r \in Runs : log[r] = << >>
  BY DEF Init
<1>2. \A r \in Runs : \A i \in 1 .. Len(log[r]) : FALSE
  BY <1>1
<1>3. Marked
  BY <1>2 DEF Marked
<1>4. goals = [g \in Goals |-> NoRun] /\ told = [a \in Agent |-> NoRun]
  BY DEF Init, Goals
<1>5. ToldInv
  BY <1>4 DEF ToldInv
<1>6. ASSUME NEW a \in Agent PROVE Solo(a)
  <2>1. pc[a] \in {"off", "goal"} /\ GoalOf[a] \in Goals /\ RunOf[a] \in Runs
    BY PcInit, SignalsProcesses DEF Proc, Start, Goals
  <2>2. lost = {}
    BY DEF Init
  <2> QED BY <1>2, <1>4, <2>1, <2>2 DEF Solo, Own
<1> QED BY <1>1, <1>3, <1>5, <1>6 DEF ReportInv

\* What cmd_agent_turn_completed does to the logs: at most one event in one of
\* them, in the run that was named if it completes the run.
Grown(e, r) == \A x \in Runs : log'[x] = log[x] \/ (x = r /\ log'[x] = Append(log[x], e))

Logged(e, r, source, by, named) ==
  /\ Grown(e, r)
  /\ e.by = by
  /\ e.type = "completed" => r = named /\ named # NoRun
  /\ lost \subseteq lost' /\ lost' \subseteq lost \cup {by}
  /\ named # NoRun /\ source = "process exit" =>
       /\ e.type = "completed"
       /\ \/ lost' = lost \cup {by} /\ log' = log
          \/ lost' = lost /\ log'[named] = Append(log[named], e)

LEMMA ReportLog ==
  ASSUME log \in [Runs -> Seq(Entry)],
         NEW source \in {"self report", "stop hook", "process exit"},
         NEW by \in Agent \cup {"hand"}, NEW named \in Runs \cup {NoRun}, NEW proof \in BOOLEAN,
         Report(source, by, named, proof)
  PROVE  /\ log' \in [Runs -> Seq(Entry)]
         /\ \E e \in Entry : \E r : Logged(e, r, source, by, named)
<1> DEFINE r == RouteRun(named)
           e == [by |-> by, source |-> source,
                 type |-> IF Completes(source, named, proof) THEN "completed" ELSE "turn"]
<1>1. e \in Entry /\ e.by = by /\ (e.type = "completed" <=> Completes(source, named, proof))
  BY DEF Entry
<1>2. named # NoRun => r = named
  BY DEF RouteRun
<1>3. IF r = NoRun THEN UNCHANGED <<log, lost>>
      ELSE \/ log' = [log EXCEPT ![r] = Append(@, e)] /\ UNCHANGED lost
           \/ lost' = lost \cup {by} /\ UNCHANGED log
  BY DEF Report, logVars
<1>4. Completes(source, named, proof) => named # NoRun
  BY DEF Completes
<1>5. source = "process exit" /\ named # NoRun => Completes(source, named, proof)
  BY DEF Completes
<1> HIDE DEF r, e
<1>6. \A x \in Runs : log[x] \in Seq(Entry) /\ Append(log[x], e) \in Seq(Entry)
  BY <1>1, Appended
<1>7. log' \in [Runs -> Seq(Entry)] /\ Grown(e, r)
  <2>1. CASE r = NoRun
    BY <1>3, <2>1 DEF Grown
  <2>2. CASE r # NoRun
    <3>1. UNCHANGED log \/ log' = [log EXCEPT ![r] = Append(@, e)]
      BY <1>3, <2>2
    <3> QED BY <1>6, <3>1 DEF Grown
  <2> QED BY <2>1, <2>2
<1>8. named # NoRun => \/ lost' = lost \cup {by} /\ log' = log
                       \/ lost' = lost /\ log'[named] = Append(log[named], e)
  <2> SUFFICES ASSUME named # NoRun
               PROVE  \/ lost' = lost \cup {by} /\ log' = log
                      \/ lost' = lost /\ log'[named] = Append(log[named], e)
    OBVIOUS
  <2>1. r = named /\ r # NoRun /\ named \in Runs
    BY <1>2
  <2>2. log' = [log EXCEPT ![r] = Append(@, e)] => log'[named] = Append(log[named], e)
    BY <2>1
  <2>3. \/ log' = [log EXCEPT ![r] = Append(@, e)] /\ lost' = lost
        \/ lost' = lost \cup {by} /\ log' = log
    BY <1>3, <2>1
  <2> QED BY <2>2, <2>3
<1>9. lost \subseteq lost' /\ lost' \subseteq lost \cup {by}
  BY <1>3
<1>10. Logged(e, r, source, by, named)
  BY <1>1, <1>2, <1>4, <1>5, <1>7, <1>8, <1>9 DEF Logged
<1> QED BY <1>1, <1>7, <1>10

LEMMA MarkedGrown ==
  ASSUME log \in [Runs -> Seq(Entry)], Marked, NEW e \in Entry, NEW r, Grown(e, r),
         e.type = "completed" => Owned(e.by, r)
  PROVE  Marked'
<1> SUFFICES ASSUME NEW x \in Runs, NEW i \in 1 .. Len(log'[x]), log'[x][i].type = "completed"
             PROVE  Owned(log'[x][i].by, x)
  BY DEF Marked, Owned
<1>1. CASE log'[x] = log[x]
  BY <1>1 DEF Marked
<1>2. CASE x = r /\ log'[x] = Append(log[x], e)
  <2>1. log[x] \in Seq(Entry)
    OBVIOUS
  <2>2. i \in 1 .. Len(log[x]) \/ i = Len(log[x]) + 1
    BY <1>2, <2>1, Appended
  <2>3. CASE i \in 1 .. Len(log[x])
    <3>1. log'[x][i] = log[x][i]
      BY <1>2, <2>1, <2>3, Appended
    <3> QED BY <2>3, <3>1 DEF Marked
  <2>4. CASE i = Len(log[x]) + 1
    <3>1. log'[x][i] = e
      BY <1>2, <2>1, <2>4, Appended
    <3> QED BY <1>2, <3>1
  <2> QED BY <2>2, <2>3, <2>4
<1> QED BY <1>1, <1>2 DEF Grown

LEMMA OwnAppended ==
  ASSUME NEW q \in Seq(Entry), NEW e \in Entry, NEW a
  PROVE  Own(a, Append(q, e)) = IF e.by = a /\ e.type = "completed"
                                THEN Own(a, q) \cup {Len(q) + 1} ELSE Own(a, q)
<1>1. Len(q) \in Nat /\ Len(Append(q, e)) = Len(q) + 1
  BY Appended
<1>2. 1 .. (Len(q) + 1) = (1 .. Len(q)) \cup {Len(q) + 1}
  BY <1>1
<1>3. (\A i \in 1 .. Len(q) : Append(q, e)[i] = q[i]) /\ Append(q, e)[Len(q) + 1] = e
  BY Appended
<1> QED BY <1>1, <1>2, <1>3 DEF Own

\* A step that leaves a's part alone but may log an event of somebody else.
LEMMA SoloAside ==
  ASSUME log \in [Runs -> Seq(Entry)], NEW a \in Agent, Solo(a),
         \/ log'[RunOf[a]] = log[RunOf[a]]
         \/ \E e \in Entry : e.by # a /\ log'[RunOf[a]] = Append(log[RunOf[a]], e),
         goals'[GoalOf[a]] = NoRun, told'[a] = NoRun,
         pc'[a] # "reported", pc'[a] = "ended" <=> pc[a] = "ended",
         a \in lost' <=> a \in lost
  PROVE  Solo(a)'
<1>1. RunOf[a] \in Runs
  BY SignalsProcesses
<1>2. log[RunOf[a]] \in Seq(Entry)
  BY <1>1
<1>3. Own(a, log'[RunOf[a]]) = Own(a, log[RunOf[a]])
  <2> DEFINE q == log[RunOf[a]]
  <2>1. ASSUME NEW e \in Entry, e.by # a, log'[RunOf[a]] = Append(q, e)
        PROVE  Own(a, log'[RunOf[a]]) = Own(a, q)
    <3>1. q \in Seq(Entry)
      BY <1>2
    <3> HIDE DEF q
    <3>2. Own(a, Append(q, e)) = Own(a, q)
      BY <2>1, <3>1, OwnAppended
    <3> QED BY <2>1, <3>2
  <2> QED BY <2>1
<1> QED BY <1>3 DEF Solo

\* A step that logs nothing and tells nobody.
LEMMA ReportAside ==
  ASSUME ReportInv, UNCHANGED <<log, lost, goals, told>>,
         \A a \in Agent : pc'[a] # pc[a] => pc[a] # "ended" /\ pc'[a] \notin {"reported", "ended"}
  PROVE  ReportInv'
<1>1. log \in [Runs -> Seq(Entry)] /\ Marked /\ ToldInv
  BY DEF ReportInv
<1>2. Marked' /\ ToldInv'
  BY <1>1 DEF Marked, ToldInv
<1>3. ASSUME NEW a \in Agent, Lone(a) PROVE Solo(a)'
  <2>1. Solo(a)
    BY <1>3 DEF ReportInv
  <2> QED BY <2>1 DEF Solo
<1> QED BY <1>1, <1>2, <1>3 DEF ReportInv

\* A step in which by reports, and is no lone aix.
LEMMA ReportOther ==
  ASSUME ReportInv, UNCHANGED <<goals, told>>,
         NEW source \in {"self report", "stop hook", "process exit"},
         NEW by \in Agent \cup {"hand"}, NEW named \in Runs \cup {NoRun}, NEW proof \in BOOLEAN,
         Report(source, by, named, proof),
         named # NoRun => Owned(by, named),
         by \in Agent => ~Lone(by),
         \A a \in Agent \ {by} : pc'[a] = pc[a]
  PROVE  ReportInv'
<1>1. log \in [Runs -> Seq(Entry)] /\ Marked /\ ToldInv
  BY DEF ReportInv
<1>2. log' \in [Runs -> Seq(Entry)]
  BY <1>1, ReportLog
<1>3. PICK e \in Entry : \E r : Logged(e, r, source, by, named)
  BY <1>1, ReportLog
<1>4. PICK r : /\ Grown(e, r) /\ e.by = by
               /\ e.type = "completed" => r = named /\ named # NoRun
               /\ lost \subseteq lost' /\ lost' \subseteq lost \cup {by}
  BY <1>3 DEF Logged
<1>5. Marked'
  BY <1>1, <1>3, <1>4, MarkedGrown
<1>6. ToldInv'
  BY <1>1 DEF ToldInv
<1>7. ASSUME NEW a \in Agent, Lone(a) PROVE Solo(a)'
  <2>1. Solo(a) /\ a # by /\ RunOf[a] \in Runs
    BY <1>7, SignalsProcesses DEF ReportInv
  <2>2. \/ log'[RunOf[a]] = log[RunOf[a]]
        \/ e.by # a /\ log'[RunOf[a]] = Append(log[RunOf[a]], e)
    BY <1>3, <1>4, <2>1 DEF Grown
  <2>3. a \in lost' <=> a \in lost
    BY <1>4, <2>1
  <2> QED BY <1>1, <2>1, <2>2, <2>3, SoloAside DEF Solo
<1> QED BY <1>2, <1>5, <1>6, <1>7 DEF ReportInv

LEMMA ReportStep ==
  ASSUME PcInv, ReportInv, [Next]_vars
  PROVE  ReportInv'
<1> USE DEF Goto
<1>1. Agent \subseteq Proc /\ Remover \subseteq Proc /\ Waiter \subseteq Proc
        /\ pc \in [Proc -> AllSteps]
  BY DEF Proc, PcInv
<1>2. log \in [Runs -> Seq(Entry)] /\ Marked /\ ToldInv
  BY DEF ReportInv
<1>3. \A a \in Agent : RunOf[a] \in Runs /\ RunOf[a] # NoRun /\ Owned(a, RunOf[a])
  BY SignalsProcesses, SignalsEnvironment DEF Owned
<1>4. CASE UNCHANGED vars
  BY <1>4, ReportAside DEF vars, goalVars, logVars
<1>5. ASSUME NEW a \in Agent, Materialize(a) PROVE ReportInv'
  <2> DEFINE g == GoalOf[a]
             n == IF NeedsProtocol(a) THEN RunOf[a] ELSE NoRun
  <2>1. /\ UNCHANGED <<told, log, lost>> /\ pc[a] = "goal"
        /\ goals' = IF Rewrites(a) THEN [goals EXCEPT ![g] = n] ELSE goals
        /\ \E t \in {"script", "gemini read", "send"} : pc' = [pc EXCEPT ![a] = t]
    BY <1>5 DEF Materialize, logVars
  <2>2. \A b \in Agent : (pc'[b] = "ended" <=> pc[b] = "ended") /\ (pc[b] # "reported" => pc'[b] # "reported")
    BY <1>1, <2>1
  <2>3. g \in Goals /\ n \in Runs \cup {NoRun}
    BY <1>3 DEF Goals
  <2>4. \A x \in Goals : goals'[x] = goals[x] \/ (x = g /\ goals'[x] = n)
    BY <2>1, <2>3, <1>2 DEF ToldInv
  <2>5. ToldInv'
    <3>1. goals' \in [Goals -> Runs \cup {NoRun}]
      BY <1>2, <2>1, <2>3 DEF ToldInv
    <3>2. ASSUME NEW x \in Goals, goals'[x] # NoRun
          PROVE  \E b \in Agent : GoalOf[b] = x /\ NeedsProtocol(b) /\ goals'[x] = RunOf[b]
      BY <1>2, <2>4, <3>2 DEF ToldInv
    <3> QED BY <1>2, <2>1, <3>1, <3>2 DEF ToldInv
  <2>6. ASSUME NEW b \in Agent, Lone(b) PROVE Solo(b)'
    <3>1. Solo(b) /\ GoalOf[b] \in Goals
      BY <2>6 DEF ReportInv, Goals
    <3>2. goals'[GoalOf[b]] = NoRun
      <4>1. CASE b = a
        BY <2>4, <2>6, <3>1, <4>1 DEF Lone, NeedsProtocol, Solo
      <4>2. CASE b # a
        BY <2>4, <2>6, <3>1, <4>2 DEF Lone, Solo
      <4> QED BY <4>1, <4>2
    <3> QED BY <1>2, <2>1, <2>2, <3>1, <3>2, SoloAside DEF Solo
  <2> QED BY <1>2, <2>1, <2>5, <2>6 DEF ReportInv, Marked
<1>6. ASSUME NEW a \in Agent, ReadGoal(a) PROVE ReportInv'
  <2> DEFINE o == OwnReport[GoalOf[a]]
             n == IF o # NoRun THEN o ELSE IF Rewrites(a) THEN goals[GoalOf[a]] ELSE NoRun
  <2>1. /\ UNCHANGED <<goals, log, lost>> /\ pc[a] = "send" /\ pc' = [pc EXCEPT ![a] = "work"]
        /\ told' = [told EXCEPT ![a] = n]
    BY <1>6 DEF ReadGoal, logVars
  <2>2. \A b \in Agent : (pc'[b] = "ended" <=> pc[b] = "ended") /\ (pc[b] # "reported" => pc'[b] # "reported")
    BY <1>1, <2>1
  <2>3. n \in Runs \cup {NoRun} /\ (n # NoRun => Owned(a, n))
    <3>1. CASE o # NoRun
      BY <3>1, SignalsProcesses DEF Owned
    <3>2. CASE o = NoRun /\ n = goals[GoalOf[a]]
      <4>1. GoalOf[a] \in Goals
        BY DEF Goals
      <4> QED BY <1>2, <3>2, <4>1 DEF ToldInv, Owned
    <3>3. CASE n = NoRun
      BY <3>3
    <3> QED BY <3>1, <3>2, <3>3
  <2>4. ToldInv'
    <3> HIDE DEF n
    <3>1. told' \in [Agent -> Runs \cup {NoRun}] /\ \A b \in Agent : told'[b] = IF b = a THEN n ELSE told[b]
      BY <1>2, <2>1, <2>3 DEF ToldInv
    <3> QED BY <1>2, <2>1, <2>3, <3>1 DEF ToldInv
  <2>5. ASSUME NEW b \in Agent, Lone(b) PROVE Solo(b)'
    <3>1. Solo(b)
      BY <2>5 DEF ReportInv
    <3>2. told'[b] = NoRun
      <4>1. b = a => n = NoRun
        BY <2>5, <3>1 DEF Lone, Solo
      <4> HIDE DEF n
      <4> QED BY <1>2, <2>1, <3>1, <4>1 DEF ToldInv, Solo
    <3> QED BY <1>2, <2>1, <2>2, <3>1, <3>2, SoloAside DEF Solo
  <2> QED BY <1>2, <2>1, <2>4, <2>5 DEF ReportInv, Marked
<1>7. ASSUME NEW a \in Agent, SelfReport(a) PROVE ReportInv'
  <2>1. PICK r \in Commands(a) : Report("self report", a, r, FALSE)
    BY <1>7 DEF SelfReport
  <2>2. UNCHANGED <<goals, told>> /\ pc' = [pc EXCEPT ![a] = "reported"]
    BY <1>7 DEF SelfReport, goalVars
  <2>3. told[a] \in Runs \cup {NoRun} /\ (told[a] # NoRun => Owned(a, told[a]))
    BY <1>2 DEF ToldInv
  <2>4. r \in Runs /\ Owned(a, r)
    BY <1>3, <2>1, <2>3 DEF Commands
  <2>5. ~Lone(a)
    BY <2>1 DEF Commands, Lone, ReportInv, Solo
  <2>6. \A b \in Agent \ {a} : pc'[b] = pc[b]
    BY <1>1, <2>2
  <2> QED BY <2>1, <2>2, <2>4, <2>5, <2>6, ReportOther
<1>8. ASSUME NEW a \in Agent, StopHook(a) PROVE ReportInv'
  <2>1. PICK proof \in BOOLEAN : Report("stop hook", a, RunOf[a], proof)
    BY <1>8 DEF StopHook
  <2>2. UNCHANGED <<goals, told, pc>> /\ ~Lone(a)
    BY <1>8 DEF StopHook, goalVars, Lone
  <2> QED BY <1>3, <2>1, <2>2, ReportOther
<1>9. ASSUME HandTurn PROVE ReportInv'
  <2>1. PICK proof \in BOOLEAN : Report("stop hook", "hand", NoRun, proof)
    BY <1>9 DEF HandTurn
  <2>2. UNCHANGED <<goals, told, pc>>
    BY <1>9 DEF HandTurn, goalVars
  <2>3. "hand" \notin Agent /\ "hand" \in Agent \cup {"hand"} /\ NoRun \in Runs \cup {NoRun}
    BY SignalsProcesses
  <2>4. \A a \in Agent \ {"hand"} : pc'[a] = pc[a]
    BY <2>2
  <2> QED BY <2>1, <2>2, <2>3, <2>4, ReportOther
<1>10. ASSUME NEW a \in Agent, ProcessExit(a) PROVE ReportInv'
  <2>1. UNCHANGED <<goals, told>> /\ pc' = [pc EXCEPT ![a] = "ended"] /\ pc[a] \in {"work", "reported"}
    BY <1>10 DEF ProcessExit, goalVars
  <2>2. (\A b \in Agent \ {a} : pc'[b] = pc[b]) /\ pc'[a] = "ended"
    BY <1>1, <2>1
  <2>3. CASE RunnerOf[a] = "codex"
    <3>1. UNCHANGED <<log, lost>>
      BY <1>10, <2>3 DEF ProcessExit, logVars
    <3>2. ASSUME NEW b \in Agent, Lone(b) PROVE Solo(b)'
      <4>1. Solo(b) /\ b # a
        BY <2>3, <3>2 DEF ReportInv, Lone
      <4> QED BY <1>2, <2>1, <2>2, <3>1, <4>1, SoloAside DEF Solo
    <3>3. Marked' /\ ToldInv'
      BY <1>2, <2>1, <3>1 DEF Marked, ToldInv
    <3> QED BY <1>2, <3>1, <3>2, <3>3 DEF ReportInv
  <2>4. CASE RunnerOf[a] # "codex" /\ ~Lone(a)
    <3>1. Report("process exit", a, RunOf[a], FALSE)
      BY <1>10, <2>4 DEF ProcessExit
    <3> QED BY <1>3, <2>1, <2>2, <2>4, <3>1, ReportOther
  <2>5. CASE RunnerOf[a] # "codex" /\ Lone(a)
    <3>1. Report("process exit", a, RunOf[a], FALSE)
      BY <1>10, <2>5 DEF ProcessExit
    <3>2. log' \in [Runs -> Seq(Entry)]
      BY <1>2, <1>3, <3>1, ReportLog
    <3>. PICK e \in Entry : \E r : Logged(e, r, "process exit", a, RunOf[a])
      BY <1>2, <1>3, <3>1, ReportLog
    <3>3. /\ Grown(e, RunOf[a]) /\ e.by = a /\ e.type = "completed"
          /\ lost \subseteq lost' /\ lost' \subseteq lost \cup {a}
          /\ \/ lost' = lost \cup {a} /\ log' = log
             \/ lost' = lost /\ log'[RunOf[a]] = Append(log[RunOf[a]], e)
      BY <1>3 DEF Logged
    <3>4. Marked'
      BY <1>2, <1>3, <3>3, MarkedGrown
    <3>5. ToldInv'
      BY <1>2, <2>1 DEF ToldInv
    <3>6. ASSUME NEW b \in Agent, Lone(b), b # a PROVE Solo(b)'
      <4>1. Solo(b) /\ RunOf[b] \in Runs
        BY <1>3, <3>6 DEF ReportInv
      <4>2. \/ log'[RunOf[b]] = log[RunOf[b]]
            \/ e.by # b /\ log'[RunOf[b]] = Append(log[RunOf[b]], e)
        BY <3>3, <3>6, <4>1 DEF Grown
      <4>3. b \in lost' <=> b \in lost
        BY <3>3, <3>6
      <4> QED BY <1>2, <2>1, <2>2, <3>6, <4>1, <4>2, <4>3, SoloAside DEF Solo
    <3>7. Solo(a)'
      <4>1. Solo(a) /\ log[RunOf[a]] \in Seq(Entry)
        BY <1>2, <1>3, <2>5 DEF ReportInv
      <4>2. Own(a, log[RunOf[a]]) = {} /\ a \notin lost
        BY <2>1, <4>1 DEF Solo
      <4>3. CASE lost' = lost \cup {a} /\ log' = log
        BY <2>1, <2>2, <4>1, <4>2, <4>3 DEF Solo
      <4>4. CASE lost' = lost /\ log'[RunOf[a]] = Append(log[RunOf[a]], e)
        <5>1. e.by = a /\ e.type = "completed"
          BY <3>3
        <5> DEFINE q == log[RunOf[a]]
        <5>2. q \in Seq(Entry) /\ Own(a, q) = {} /\ log'[RunOf[a]] = Append(q, e)
          BY <4>1, <4>2, <4>4
        <5> HIDE DEF q
        <5>3. Own(a, Append(q, e)) = Own(a, q) \cup {Len(q) + 1}
          BY <5>1, <5>2, OwnAppended
        <5>4. Own(a, log'[RunOf[a]]) = {Len(q) + 1}
          BY <5>2, <5>3
        <5> QED BY <2>1, <2>2, <4>1, <4>2, <4>4, <5>4 DEF Solo
      <4> QED BY <3>3, <4>3, <4>4
    <3> QED BY <3>2, <3>4, <3>5, <3>6, <3>7 DEF ReportInv
  <2> QED BY <2>3, <2>4, <2>5
<1>11. ASSUME NEW a \in Agent, InstallScript(a) \/ InstallRead(a) \/ InstallWrite(a)
       PROVE  ReportInv'
  <2>1. UNCHANGED <<log, lost, goals, told>> /\ pc[a] \in {"script", "read", "write"}
    BY <1>11 DEF InstallScript, InstallRead, InstallWrite, goalVars, logVars
  <2>2. \E t \in {"send", "read", "write"} : pc' = [pc EXCEPT ![a] = t]
    BY <1>11 DEF InstallScript, InstallRead, InstallWrite
  <2> QED BY <1>1, <2>1, <2>2, ReportAside
<1>12. ASSUME NEW p \in Agent \cup Remover,
              \/ p \in Remover /\ (RemoveRead(p) \/ RemoveWrite(p) \/ RemoveScript(p))
              \/ AgyRead(p) \/ AgyWrite(p) \/ AgyScript(p)
       PROVE  ReportInv'
  <2>1. UNCHANGED <<log, lost, goals, told>>
    BY <1>12 DEF RemoveRead, RemoveWrite, RemoveScript, AgyRead, AgyWrite, AgyScript,
                 goalVars, logVars
  <2>2. \/ p \in Remover /\ \E t : pc' = [pc EXCEPT ![p] = t]
        \/ /\ pc[p] \in {"gemini read", "gemini write", "gemini script"}
           /\ \E t \in {After(p), "gemini write", "gemini script"} : pc' = [pc EXCEPT ![p] = t]
    BY <1>12 DEF RemoveRead, RemoveWrite, RemoveScript, AgyRead, AgyWrite, AgyScript
  <2>3. After(p) \in {"send", "done"} /\ (p \in Remover => p \notin Agent)
    BY SignalsProcesses DEF After
  <2>4. \A a \in Agent : pc'[a] # pc[a] => pc[a] # "ended" /\ pc'[a] \notin {"reported", "ended"}
    BY <1>1, <2>2, <2>3
  <2> QED BY <2>1, <2>4, ReportAside
<1>13. ASSUME NEW w \in Waiter,
              \/ Look(w) \/ Enter(w) \/ ReadEndpoints(w) \/ WriteEndpoints(w)
              \/ EnrollFails(w) \/ Poll(w)
       PROVE  ReportInv'
  <2>1. UNCHANGED <<log, lost, goals, told>>
    BY <1>13 DEF Look, Enter, ReadEndpoints, WriteEndpoints, EnrollFails, Poll, goalVars, logVars
  <2>2. UNCHANGED pc \/ \E t : pc' = [pc EXCEPT ![w] = t]
    BY <1>13 DEF Look, Enter, Lock, ReadEndpoints, WriteEndpoints, EnrollFails, Poll
  <2>3. \A a \in Agent : a # w
    BY SignalsProcesses
  <2>4. \A a \in Agent : pc'[a] = pc[a]
    BY <1>1, <2>2, <2>3
  <2> QED BY <2>1, <2>4, ReportAside
<1>14. CASE \/ \E h \in Homes, file \in {"ok", "broken"} : UserEdit(h, file)
            \/ \E r \in Runs : WakeRun(r) \/ CloseRun(r)
  BY <1>14, ReportAside DEF UserEdit, WakeRun, CloseRun, goalVars, logVars
<1>15. ASSUME NEW p \in Proc, Kill(p) PROVE ReportInv'
  <2>1. UNCHANGED <<log, lost, goals, told>> /\ pc' = [pc EXCEPT ![p] = "dead"] /\ pc[p] # "ended"
    BY <1>15 DEF Kill, goalVars, logVars
  <2> QED BY <1>1, <2>1, ReportAside
<1> QED BY <1>4, <1>5, <1>6, <1>7, <1>8, <1>9, <1>10, <1>11, <1>12, <1>13, <1>14, <1>15 DEF Next

\* A run is completed only by an agent that was dispatched for it or told to by
\* its goal, never by a session started by hand, and an aix with a goal of its
\* own completes exactly once unless that event was dropped, for any dispatches
\* and any runs.
THEOREM ReportTheorem == Spec => []ReportIsOwn
<1>1. Init => PcInv
  BY PcInit
<1>2. PcInv /\ ReportInv /\ [Next]_vars => PcInv' /\ ReportInv'
  BY PcStep, ReportStep
<1>3. ReportInv => ReportIsOwn
  <2> SUFFICES ASSUME ReportInv PROVE ReportIsOwn
    OBVIOUS
  <2>1. ASSUME NEW r \in Runs, NEW i \in 1 .. Len(log[r]), log[r][i].type = "completed"
        PROVE  /\ log[r][i].by # "hand"
               /\ \E b \in Agent : GoalOf[b] = GoalOf[log[r][i].by] /\ r \in {RunOf[b], OwnReport[GoalOf[b]]}
    <3>1. Owned(log[r][i].by, r)
      BY <2>1 DEF ReportInv, Marked
    <3> QED BY <3>1, SignalsProcesses DEF Owned
  <2>2. ASSUME NEW a \in Agent, Lone(a), pc[a] = "ended"
        PROVE  Cardinality(Own(a, log[RunOf[a]])) = IF a \in lost THEN 0 ELSE 1
    <3>1. Own(a, log[RunOf[a]]) = {} \/ a \notin lost
      BY <2>2 DEF ReportInv, Solo
    <3>2. CASE a \in lost
      BY <3>1, <3>2, FS_EmptySet
    <3>3. CASE a \notin lost
      <4>1. PICK k : Own(a, log[RunOf[a]]) = {k}
        BY <2>2, <3>3 DEF ReportInv, Solo
      <4> QED BY <3>3, <4>1, FS_Singleton
    <3> QED BY <3>2, <3>3
  <2> QED BY <2>1, <2>2 DEF ReportIsOwn, Lone, Own
<1> QED BY ReportInit, <1>1, <1>2, <1>3, PTL DEF Spec

=============================================================================
