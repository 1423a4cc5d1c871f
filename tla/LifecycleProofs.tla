-------------------------- MODULE LifecycleProofs ---------------------------
(***************************************************************************)
(* Prune spares a run that nobody reopened, an unforced closeout closes    *)
(* over nothing that it could have known, and an undisturbed read, edit    *)
(* and write of the ledger or the manifest is never lost: for any number   *)
(* of processes and commands, edits by hand and kills.  A closeout and a   *)
(* prune act on a copy; the invariants say how far the copy can be from    *)
(* the files, by means of what arrived since it was taken.                 *)
(***************************************************************************)
EXTENDS Lifecycle, TLAPS

CmdFields == DOMAIN NoCommand

\* Where a command goes after it has registered its artifacts.
Nexts == {"idle", "handoff", "handoff again", "discover", "risks load", "brief",
          "dispatch", "ledger read"}

Shape ==
  /\ DOMAIN pc = Proc /\ DOMAIN ran = Proc /\ DOMAIN cmd = Proc /\ DOMAIN snap = Proc
  /\ DOMAIN copy = Proc /\ DOMAIN todo = Proc /\ DOMAIN late = Proc /\ DOMAIN alone = Proc
  /\ \A p \in Proc : DOMAIN cmd[p] = CmdFields /\ cmd[p].next \in Nexts
  /\ DOMAIN kept = {"rounds", "ids"}

\* A step of p leaves everybody else's commands alone.
Mine(p) ==
  \A q \in Proc \ {p} :
    /\ pc'[q] = pc[q] /\ ran'[q] = ran[q] /\ cmd'[q] = cmd[q] /\ snap'[q] = snap[q]
    /\ copy'[q] = copy[q] /\ todo'[q] = todo[q]

Turn(p) == Begin(p) \/ Step(p) \/ Crash(p)

\* NoCommand has these fields.
LEMMA NoCommandFields ==
  /\ CmdFields = {"kind", "force", "verify", "dirty", "discover", "auditors", "row", "next"}
  /\ NoCommand.next = "idle"
BY DEF CmdFields, NoCommand

\* A command that ends.
LEMMA EndsFrame ==
  ASSUME Shape, NEW p \in Proc, Ends(p)
  PROVE  /\ DOMAIN pc' = Proc /\ DOMAIN cmd' = Proc /\ DOMAIN snap' = Proc
         /\ DOMAIN copy' = Proc /\ DOMAIN todo' = Proc
         /\ \A q \in Proc : DOMAIN cmd'[q] = CmdFields /\ cmd'[q].next \in Nexts
         /\ pc'[p] = "idle" /\ cmd'[p] = NoCommand
         /\ \A q \in Proc \ {p} :
              /\ pc'[q] = pc[q] /\ cmd'[q] = cmd[q] /\ snap'[q] = snap[q]
              /\ copy'[q] = copy[q] /\ todo'[q] = todo[q]
<1>1. DOMAIN NoCommand = CmdFields /\ NoCommand.next \in Nexts
  BY NoCommandFields DEF CmdFields, Nexts
<1>2. /\ DOMAIN pc' = Proc /\ DOMAIN cmd' = Proc /\ DOMAIN snap' = Proc
      /\ DOMAIN copy' = Proc /\ DOMAIN todo' = Proc
      /\ pc'[p] = "idle" /\ cmd'[p] = NoCommand
      /\ \A q \in Proc \ {p} :
           /\ pc'[q] = pc[q] /\ cmd'[q] = cmd[q] /\ snap'[q] = snap[q]
           /\ copy'[q] = copy[q] /\ todo'[q] = todo[q]
  BY DEF Shape, Ends, Goto
<1>3. \A q \in Proc : DOMAIN cmd'[q] = CmdFields /\ cmd'[q].next \in Nexts
  BY <1>1, <1>2 DEF Shape
<1> QED BY <1>2, <1>3

\* A command that has artifacts to register.
LEMMA PlansFrame ==
  ASSUME Shape, NEW p \in Proc, NEW ids, NEW next \in Nexts, Plans(p, ids, next)
  PROVE  /\ DOMAIN cmd' = Proc /\ DOMAIN todo' = Proc
         /\ \A q \in Proc : DOMAIN cmd'[q] = CmdFields /\ cmd'[q].next \in Nexts
         /\ todo'[p] = ids /\ cmd'[p].next = next
         /\ \A q \in Proc \ {p} : cmd'[q] = cmd[q] /\ todo'[q] = todo[q]
<1> DEFINE c == [cmd[p] EXCEPT !.next = next, !.force = FALSE, !.verify = FALSE,
                               !.dirty = FALSE, !.discover = FALSE]
<1>1. DOMAIN c = CmdFields /\ c.next = next
  BY NoCommandFields DEF Shape
<1>2. cmd' = [cmd EXCEPT ![p] = c]
  BY DEF Plans
<1> HIDE DEF c
<1>3. /\ DOMAIN cmd' = Proc /\ DOMAIN todo' = Proc
      /\ todo'[p] = ids /\ cmd'[p] = c
      /\ \A q \in Proc \ {p} : cmd'[q] = cmd[q] /\ todo'[q] = todo[q]
  BY <1>2 DEF Shape, Plans
<1>4. \A q \in Proc : DOMAIN cmd'[q] = CmdFields /\ cmd'[q].next \in Nexts
  BY <1>1, <1>3 DEF Shape
<1> QED BY <1>1, <1>3, <1>4

\* A command that goes on to register artifacts.
LEMMA RegistersFrame ==
  ASSUME Shape, NEW p \in Proc, NEW ids, NEW next \in Nexts, Registers(p, ids, next)
  PROVE  /\ DOMAIN pc' = Proc /\ DOMAIN cmd' = Proc /\ DOMAIN todo' = Proc
         /\ \A q \in Proc : DOMAIN cmd'[q] = CmdFields /\ cmd'[q].next \in Nexts
         /\ pc'[p] = "register" /\ todo'[p] = ids /\ cmd'[p].next = next
         /\ \A q \in Proc \ {p} : pc'[q] = pc[q] /\ cmd'[q] = cmd[q] /\ todo'[q] = todo[q]
<1>1. Plans(p, ids, next) /\ Goto(p, "register")
  BY DEF Registers
<1>2. DOMAIN pc' = Proc /\ pc'[p] = "register" /\ \A q \in Proc \ {p} : pc'[q] = pc[q]
  BY <1>1 DEF Shape, Goto
<1> QED BY <1>1, <1>2, PlansFrame

\* A command that notes something in a field other than next.
LEMMA NoteFrame ==
  ASSUME Shape, NEW p \in Proc, NEW f \in CmdFields, f # "next", NEW v, Note(p, f, v)
  PROVE  /\ DOMAIN cmd' = Proc
         /\ \A q \in Proc : DOMAIN cmd'[q] = CmdFields /\ cmd'[q].next = cmd[q].next
         /\ \A q \in Proc \ {p} : cmd'[q] = cmd[q]
<1> DEFINE c == [cmd[p] EXCEPT ![f] = v]
<1>1. DOMAIN c = CmdFields /\ c.next = cmd[p].next
  BY NoCommandFields DEF Shape
<1>2. cmd' = [cmd EXCEPT ![p] = c]
  BY DEF Note
<1> HIDE DEF c
<1> QED BY <1>1, <1>2 DEF Shape

\* What the late arrivals and the marks of the windows are functions of.
LEMMA HistFrame ==
  ASSUME Shape
  PROVE  /\ \A new : Arrives(new) => DOMAIN late' = Proc
         /\ \A st : Save(st) => DOMAIN late' = Proc
         /\ \A p, W : EnterWindow(p, W) => DOMAIN alone' = Proc
BY DEF Arrives, Save, EnterWindow

\* Where a step of p leads: by which action it comes to the steps that the
\* invariants speak of.
Elsewhere == {"idle", "start", "load", "edit", "select", "register", "handoff", "handoff again",
              "discoverer", "discover", "risks load", "risks", "brief", "dispatch",
              "results load", "results"}
Leads(p) ==
  \/ pc'[p] \in Elsewhere
  \/ Load(p) /\ pc'[p] \in {"gates", "scan"}
  \/ FirstGates(p) /\ pc'[p] \in {"instruments", "last gates"}
  \/ Instruments(p) /\ pc'[p] = "last gates"
  \/ LastGates(p) /\ pc'[p] = "close"
  \/ (Scan(p) \/ Remove(p)) /\ pc'[p] = "remove"
  \/ RegisterRead(p) /\ pc'[p] = "manifest"
  \/ RegisterWrite(p) /\ pc'[p] = "ledger read" /\ cmd[p].next = "ledger read" /\ cmd' = cmd
  \/ LedgerRead(p) /\ pc'[p] = "ledger truncate"
  \/ LedgerTruncate(p) /\ pc'[p] = "ledger write"

Framed(p) == Shape' /\ Mine(p) /\ Leads(p)

\* A step that only ends a command, whatever files it changes.
LEMMA EndsFramed ==
  ASSUME Shape, NEW p \in Proc, Ends(p), ran' = ran, DOMAIN late' = Proc, DOMAIN alone' = Proc,
         DOMAIN kept' = {"rounds", "ids"}
  PROVE  Framed(p)
<1>1. Leads(p)
  BY EndsFrame DEF Leads, Elsewhere
<1>2. Mine(p)
  BY EndsFrame DEF Mine
<1>3. Shape'
  BY EndsFrame DEF Shape
<1> QED BY <1>1, <1>2, <1>3 DEF Framed

\* A step that ends in a registration.
LEMMA RegistersFramed ==
  ASSUME Shape, NEW p \in Proc, NEW ids, NEW next \in Nexts, Registers(p, ids, next),
         ran' = ran, snap' = snap \/ snap' = [snap EXCEPT ![p] = NoState],
         copy' = copy \/ copy' = [copy EXCEPT ![p] = Absent],
         DOMAIN late' = Proc, DOMAIN alone' = Proc, DOMAIN kept' = {"rounds", "ids"}
  PROVE  Framed(p)
<1>1. /\ DOMAIN snap' = Proc /\ DOMAIN copy' = Proc
      /\ \A q \in Proc \ {p} : snap'[q] = snap[q] /\ copy'[q] = copy[q]
  BY DEF Shape
<1>2. Leads(p)
  BY RegistersFrame DEF Leads, Elsewhere
<1>3. Mine(p)
  BY <1>1, RegistersFrame DEF Mine
<1>4. Shape'
  BY <1>1, RegistersFrame DEF Shape
<1> QED BY <1>2, <1>3, <1>4 DEF Framed

\* A step that goes on, with the same command and the same tasks.
LEMMA GoesFramed ==
  ASSUME Shape, NEW p \in Proc, NEW step, Goto(p, step), ran' = ran, cmd' = cmd, snap' = snap,
         copy' = copy \/ (\E x : copy' = [copy EXCEPT ![p] = x]),
         todo' = todo \/ (\E x : todo' = [todo EXCEPT ![p] = x]),
         DOMAIN late' = Proc, DOMAIN alone' = Proc, DOMAIN kept' = {"rounds", "ids"}, Leads(p)
  PROVE  Framed(p)
<1>1. /\ DOMAIN copy' = Proc /\ DOMAIN todo' = Proc
      /\ \A q \in Proc \ {p} : todo'[q] = todo[q] /\ copy'[q] = copy[q]
  BY DEF Shape
<1>2. DOMAIN pc' = Proc /\ \A q \in Proc \ {p} : pc'[q] = pc[q]
  BY DEF Shape, Goto
<1>3. Mine(p)
  BY <1>1, <1>2 DEF Mine
<1>4. Shape'
  BY <1>1, <1>2 DEF Shape
<1> QED BY <1>3, <1>4 DEF Framed

\* Every step of a command.
LEMMA FrameStep ==
  ASSUME Shape, NEW p \in Proc, Turn(p)
  PROVE  Framed(p)
<1> USE DEF shared, local, hist
<1>0. /\ DOMAIN late = Proc /\ DOMAIN alone = Proc /\ DOMAIN kept = {"rounds", "ids"}
      /\ DOMAIN pc = Proc /\ DOMAIN cmd = Proc /\ cmd[p].next \in Nexts
      /\ \A st : Save(st) => DOMAIN late' = Proc
  BY HistFrame DEF Shape
<1>1. ASSUME NEW step \in Elsewhere, Goto(p, step) PROVE Leads(p)
  BY <1>0, <1>1 DEF Goto, Leads
<1>2. CASE Begin(p)
  <2>1. PICK k \in Commands, force \in BOOLEAN, flag \in BOOLEAN :
          /\ cmd' = [cmd EXCEPT ![p] = [NoCommand EXCEPT !.kind = k, !.force = force,
                                          !.verify = flag, !.discover = flag]]
          /\ Goto(p, IF k = "start" THEN "start" ELSE "load")
    BY <1>2 DEF Begin
  <2> DEFINE c == [NoCommand EXCEPT !.kind = k, !.force = force, !.verify = flag, !.discover = flag]
  <2>2. DOMAIN c = CmdFields /\ c.next = "idle"
    BY NoCommandFields DEF CmdFields
  <2> HIDE DEF c
  <2>3. DOMAIN cmd' = Proc /\ cmd'[p] = c /\ \A q \in Proc \ {p} : cmd'[q] = cmd[q]
    BY <1>0, <2>1 DEF c
  <2>4. /\ pc'[p] \in {"start", "load"} /\ DOMAIN pc' = Proc
        /\ \A q \in Proc \ {p} : pc'[q] = pc[q]
    BY <1>0, <2>1 DEF Goto
  <2>5. /\ UNCHANGED <<snap, copy, todo, late, alone, kept>>
        /\ DOMAIN ran' = Proc /\ \A q \in Proc \ {p} : ran'[q] = ran[q]
    BY <1>2 DEF Begin, Shape
  <2>6. Mine(p)
    BY <2>3, <2>4, <2>5 DEF Mine
  <2>7. \A q \in Proc : DOMAIN cmd'[q] = CmdFields /\ cmd'[q].next \in Nexts
    BY <2>2, <2>3 DEF Shape, Nexts
  <2>8. Shape'
    BY <2>3, <2>4, <2>5, <2>7 DEF Shape
  <2> QED BY <2>4, <2>6, <2>8 DEF Framed, Leads, Elsewhere
<1>3. CASE Start(p)
  <2>1. /\ Registers(p, <<"state_json", "run_state_md">>, "idle") /\ DOMAIN late' = Proc
        /\ UNCHANGED <<ran, snap, copy, alone, kept>>
    BY <1>0, <1>3 DEF Start
  <2>2. "idle" \in Nexts
    BY DEF Nexts
  <2> QED BY <1>0, <2>1, <2>2, RegistersFramed
<1>4. CASE Load(p)
  <2>1. PICK dirty \in BOOLEAN : Note(p, "dirty", dirty)
    BY <1>4 DEF Load
  <2>2. /\ DOMAIN cmd' = Proc
        /\ \A q \in Proc : DOMAIN cmd'[q] = CmdFields /\ cmd'[q].next = cmd[q].next
        /\ \A q \in Proc \ {p} : cmd'[q] = cmd[q]
    <3>1. "dirty" \in CmdFields /\ "dirty" # "next"
      BY NoCommandFields
    <3> QED BY <2>1, <3>1, NoteFrame
  <2>3. /\ pc'[p] \in {"gates", "select", "scan", "edit"} /\ DOMAIN pc' = Proc
        /\ \A q \in Proc \ {p} : pc'[q] = pc[q]
    BY <1>0, <1>4 DEF Load, Goto
  <2>4. /\ UNCHANGED <<ran, copy, todo, alone, kept>> /\ DOMAIN late' = Proc /\ DOMAIN snap' = Proc
        /\ \A q \in Proc \ {p} : snap'[q] = snap[q]
    BY <1>4 DEF Load, Shape
  <2>5. Mine(p)
    BY <2>2, <2>3, <2>4 DEF Mine
  <2>6. Shape'
    BY <2>2, <2>3, <2>4 DEF Shape
  <2> QED BY <1>4, <2>3, <2>5, <2>6 DEF Framed, Leads, Elsewhere
<1>5. CASE Edit(p)
  <2>1. Ends(p) /\ UNCHANGED <<ran, alone, kept>> /\ DOMAIN late' = Proc
    BY <1>0, <1>5 DEF Edit
  <2> QED BY <1>0, <2>1, EndsFramed
<1>6. CASE FirstGates(p)
  <2>1. UNCHANGED <<ran, late, alone, kept>>
    BY <1>6 DEF FirstGates
  <2>2. CASE Ends(p)
    BY <1>0, <2>1, <2>2, EndsFramed
  <2>3. ASSUME NEW step \in {"instruments", "last gates"}, Goto(p, step),
               UNCHANGED <<cmd, snap, copy, todo>>
        PROVE  Framed(p)
    <3>1. Leads(p)
      BY <1>0, <1>6, <2>3 DEF Goto, Leads
    <3> QED BY <1>0, <2>1, <2>3, <3>1, GoesFramed
  <2> QED BY <1>6, <2>2, <2>3 DEF FirstGates
<1>7. CASE Instruments(p)
  <2>1. UNCHANGED <<ran, late, alone, kept>>
    BY <1>7 DEF Instruments
  <2>2. CASE Ends(p)
    BY <1>0, <2>1, <2>2, EndsFramed
  <2>3. ASSUME Goto(p, "last gates"), UNCHANGED <<cmd, snap, copy, todo>> PROVE Framed(p)
    <3>1. Leads(p)
      BY <1>0, <1>7, <2>3 DEF Goto, Leads
    <3> QED BY <1>0, <2>1, <2>3, <3>1, GoesFramed
  <2> QED BY <1>7, <2>2, <2>3 DEF Instruments
<1>8. CASE LastGates(p)
  <2>1. UNCHANGED <<ran, late, alone, kept>>
    BY <1>8 DEF LastGates
  <2>2. CASE Ends(p)
    BY <1>0, <2>1, <2>2, EndsFramed
  <2>3. ASSUME Goto(p, "close"), UNCHANGED <<cmd, snap, copy, todo>> PROVE Framed(p)
    <3>1. Leads(p)
      BY <1>0, <1>8, <2>3 DEF Goto, Leads
    <3> QED BY <1>0, <2>1, <2>3, <3>1, GoesFramed
  <2> QED BY <1>8, <2>2, <2>3 DEF LastGates
<1>9. CASE Close(p)
  <2>1. /\ \E ids : Registers(p, ids, "handoff")
        /\ UNCHANGED <<ran, copy, alone, kept>> /\ DOMAIN late' = Proc
        /\ snap' = [snap EXCEPT ![p] = NoState] /\ "handoff" \in Nexts
    BY <1>0, <1>9 DEF Close, Nexts
  <2> QED BY <1>0, <2>1, RegistersFramed
<1>10. CASE Handoff(p)
  <2>1. /\ Registers(p, <<"handoff">>, "handoff again") /\ "handoff again" \in Nexts
        /\ UNCHANGED <<ran, snap, copy, late, alone, kept>>
    BY <1>10 DEF Handoff, Nexts
  <2> QED BY <1>0, <2>1, RegistersFramed
<1>11. CASE HandoffAgain(p) \/ Crash(p)
  <2>1. Ends(p) /\ UNCHANGED <<ran, late, alone, kept>>
    BY <1>11 DEF HandoffAgain, Crash
  <2> QED BY <1>0, <2>1, EndsFramed
<1>12. CASE Register(p)
  <2>1. CASE Ends(p)
    <3>1. /\ UNCHANGED <<ran, late>> /\ DOMAIN alone' = Proc
          /\ DOMAIN kept' = {"rounds", "ids"}
      BY <1>0, <1>12, <2>1, HistFrame DEF Register, RegisterRead, RegisterWrite
    <3> QED BY <1>0, <2>1, <3>1, EndsFramed
  <2>2. ASSUME RegisterRead(p), ~Ends(p) PROVE Framed(p)
    <3>1. /\ Goto(p, "manifest") /\ UNCHANGED <<ran, cmd, snap, todo, late, kept>>
          /\ \E x : copy' = [copy EXCEPT ![p] = x]
          /\ EnterWindow(p, {"manifest"})
      BY <2>2 DEF RegisterRead
    <3>2. Leads(p)
      BY <1>0, <2>2, <3>1 DEF Goto, Leads
    <3>3. DOMAIN alone' = Proc
      BY <3>1, HistFrame
    <3> QED BY <1>0, <3>1, <3>2, <3>3, GoesFramed
  <2>3. ASSUME RegisterWrite(p), ~Ends(p) PROVE Framed(p)
    <3>1. PICK step \in {"register", cmd[p].next} : Goto(p, step)
      BY <2>3 DEF RegisterWrite
    <3>2. /\ UNCHANGED <<ran, cmd, snap, late>>
          /\ copy' = [copy EXCEPT ![p] = Absent]
          /\ \E x : todo' = [todo EXCEPT ![p] = x]
          /\ DOMAIN alone' = Proc /\ DOMAIN kept' = {"rounds", "ids"}
      BY <1>0, <2>3 DEF RegisterWrite
    <3>3. step \in Elsewhere \/ (step = "ledger read" /\ cmd[p].next = "ledger read")
      BY <1>0 DEF Nexts, Elsewhere
    <3>4. Leads(p)
      BY <1>0, <1>1, <2>3, <3>1, <3>2, <3>3 DEF Goto, Leads
    <3> QED BY <1>0, <3>1, <3>2, <3>4, GoesFramed
  <2> QED BY <1>12, <2>1, <2>2, <2>3 DEF Register
<1>13. CASE Select(p)
  <2>1. PICK v : Note(p, "auditors", v)
    BY <1>13 DEF Select
  <2>2. /\ DOMAIN cmd' = Proc
        /\ \A q \in Proc : DOMAIN cmd'[q] = CmdFields /\ cmd'[q].next = cmd[q].next
        /\ \A q \in Proc \ {p} : cmd'[q] = cmd[q]
    <3>1. "auditors" \in CmdFields /\ "auditors" # "next"
      BY NoCommandFields
    <3> QED BY <2>1, <3>1, NoteFrame
  <2>3. /\ pc'[p] \in {"discoverer", "brief"} /\ DOMAIN pc' = Proc
        /\ \A q \in Proc \ {p} : pc'[q] = pc[q]
    BY <1>0, <1>13 DEF Select, Goto
  <2>4. UNCHANGED <<ran, snap, copy, todo, late, alone, kept>>
    BY <1>13 DEF Select
  <2>5. Mine(p)
    BY <2>2, <2>3, <2>4 DEF Mine
  <2>6. Shape'
    BY <2>2, <2>3, <2>4 DEF Shape
  <2> QED BY <2>3, <2>5, <2>6 DEF Framed, Leads, Elsewhere
<1>d. CASE Discover(p)
  <2>1. UNCHANGED <<ran, late, alone, kept>>
    BY <1>d DEF Discover
  <2>2. CASE Ends(p)
    BY <1>0, <2>1, <2>2, EndsFramed
  <2>3. ASSUME ~Ends(p) PROVE Framed(p)
    <3>0. /\ Goto(p, "results load") /\ UNCHANGED <<snap, copy>>
          /\ \/ \E risky \in BOOLEAN :
                  Plans(p, <<"risk_discovery_reply">>, IF risky THEN "risks load" ELSE "brief")
             \/ Plans(p, << >>, "idle")
      BY <1>d, <2>3 DEF Discover
    <3>1. PICK next \in {"risks load", "brief", "idle"} : \E ids :
            Plans(p, ids, next) /\ Goto(p, "results load") /\ UNCHANGED <<snap, copy>>
      BY <3>0
    <3>2. next \in Nexts
      BY DEF Nexts
    <3>3. DOMAIN pc' = Proc /\ pc'[p] = "results load" /\ \A q \in Proc \ {p} : pc'[q] = pc[q]
      BY <1>0, <3>1 DEF Shape, Goto
    <3>4. /\ DOMAIN cmd' = Proc /\ DOMAIN todo' = Proc
          /\ \A q \in Proc : DOMAIN cmd'[q] = CmdFields /\ cmd'[q].next \in Nexts
          /\ \A q \in Proc \ {p} : cmd'[q] = cmd[q] /\ todo'[q] = todo[q]
      BY <1>0, <3>1, <3>2, PlansFrame
    <3>5. Mine(p)
      BY <2>1, <3>1, <3>3, <3>4 DEF Mine
    <3>6. Shape'
      BY <1>0, <2>1, <3>1, <3>3, <3>4 DEF Shape
    <3> QED BY <3>3, <3>5, <3>6 DEF Framed, Leads, Elsewhere
  <2> QED BY <2>2, <2>3
<1>14. CASE Discoverer(p) \/ Brief(p)
  <2>1. UNCHANGED <<ran, late, alone, kept>>
    BY <1>14 DEF Discoverer, Brief
  <2>2. CASE Ends(p)
    BY <1>0, <2>1, <2>2, EndsFramed
  <2>3. ASSUME ~Ends(p) PROVE Framed(p)
    <3>1. \E next \in {"discover", "dispatch", "idle"} : \E ids :
            Registers(p, ids, next) /\ UNCHANGED <<snap, copy>>
      <4>1. CASE Discoverer(p)
        BY <2>3, <4>1 DEF Discoverer
      <4>3. CASE Brief(p)
        <5>1. PICK auto \in BOOLEAN :
                Registers(p, <<"audit_brief">>, IF auto THEN "dispatch" ELSE "idle")
          BY <4>3 DEF Brief
        <5>2. UNCHANGED <<snap, copy>>
          BY <4>3 DEF Brief
        <5> QED BY <5>1, <5>2
      <4> QED BY <1>14, <4>1, <4>3
    <3>2. PICK next \in {"discover", "dispatch", "idle"} : \E ids :
            Registers(p, ids, next) /\ UNCHANGED <<snap, copy>>
      BY <3>1
    <3>3. next \in Nexts
      BY DEF Nexts
    <3> QED BY <1>0, <2>1, <3>2, <3>3, RegistersFramed
  <2> QED BY <2>2, <2>3
<1>15. CASE RisksLoad(p) \/ ResultsLoad(p)
  <2>1. /\ \E step \in {"risks", "results"} : Goto(p, step)
        /\ copy' = [copy EXCEPT ![p] = run]
        /\ UNCHANGED <<ran, cmd, snap, todo, late, alone, kept>>
    BY <1>15 DEF RisksLoad, ResultsLoad
  <2>2. PICK step \in {"risks", "results"} : Goto(p, step)
    BY <2>1
  <2>3. Leads(p)
    BY <1>1, <2>2 DEF Elsewhere
  <2> QED BY <1>0, <2>1, <2>2, <2>3, GoesFramed
<1>e. CASE SaveResults(p) /\ Ends(p)
  <2>1. UNCHANGED <<ran, alone, kept>> /\ DOMAIN late' = Proc
    BY <1>0, <1>e, HistFrame DEF SaveResults
  <2> QED BY <1>0, <1>e, <2>1, EndsFramed
<1>16. CASE SaveRisks(p) \/ (SaveResults(p) /\ ~Ends(p))
  <2>1. /\ \E step \in {"brief", "register"} : Goto(p, step)
        /\ copy' = [copy EXCEPT ![p] = Absent]
        /\ UNCHANGED <<ran, cmd, snap, todo, alone, kept>> /\ DOMAIN late' = Proc
    BY <1>0, <1>16 DEF SaveRisks, SaveResults
  <2>2. PICK step \in {"brief", "register"} : Goto(p, step)
    BY <2>1
  <2>3. Leads(p)
    BY <1>1, <2>2 DEF Elsewhere
  <2> QED BY <1>0, <2>1, <2>2, <2>3, GoesFramed
<1>17. CASE Dispatch(p)
  <2>1. UNCHANGED <<ran, late, alone, kept>>
    BY <1>17 DEF Dispatch
  <2>2. CASE Ends(p)
    BY <1>0, <2>1, <2>2, EndsFramed
  <2>3. ASSUME ~Ends(p) PROVE Framed(p)
    <3>1. /\ Goto(p, "results load") /\ snap' = [snap EXCEPT ![p] = NoState] /\ copy' = copy
          /\ \E x : todo' = [todo EXCEPT ![p] = x]
          /\ \E r : cmd' = [cmd EXCEPT ![p].next = "ledger read", ![p].auditors = << >>, ![p].row = r]
      BY <1>17, <2>3 DEF Dispatch
    <3>2. PICK r :
            cmd' = [cmd EXCEPT ![p].next = "ledger read", ![p].auditors = << >>, ![p].row = r]
      BY <3>1
    <3>3. /\ DOMAIN cmd' = Proc /\ DOMAIN cmd'[p] = CmdFields /\ cmd'[p].next = "ledger read"
          /\ \A q \in Proc \ {p} : cmd'[q] = cmd[q]
      BY <1>0, <3>2, NoCommandFields DEF Shape
    <3>4. /\ DOMAIN snap' = Proc /\ DOMAIN todo' = Proc /\ DOMAIN pc' = Proc
          /\ pc'[p] = "results load"
          /\ \A q \in Proc \ {p} : snap'[q] = snap[q] /\ todo'[q] = todo[q] /\ pc'[q] = pc[q]
      BY <3>1 DEF Shape, Goto
    <3>5. \A q \in Proc : DOMAIN cmd'[q] = CmdFields /\ cmd'[q].next \in Nexts
      BY <3>3 DEF Shape, Nexts
    <3>6. Mine(p)
      BY <2>1, <3>1, <3>3, <3>4 DEF Mine
    <3>7. Shape'
      BY <2>1, <3>1, <3>3, <3>4, <3>5 DEF Shape
    <3> QED BY <3>4, <3>6, <3>7 DEF Framed, Leads, Elsewhere
  <2> QED BY <2>2, <2>3
<1>18. CASE LedgerRead(p)
  <2>1. UNCHANGED <<ran, late, kept>>
    BY <1>18 DEF LedgerRead
  <2>2. CASE Ends(p)
    <3>1. DOMAIN alone' = Proc
      BY <1>0, <1>18, HistFrame DEF LedgerRead
    <3> QED BY <1>0, <2>1, <2>2, <3>1, EndsFramed
  <2>3. ASSUME ~Ends(p) PROVE Framed(p)
    <3>1. /\ Goto(p, "ledger truncate") /\ UNCHANGED <<cmd, snap, todo>>
          /\ \E x : copy' = [copy EXCEPT ![p] = x]
          /\ EnterWindow(p, LedgerWindow)
      BY <1>18, <2>3 DEF LedgerRead
    <3>2. Leads(p)
      BY <1>0, <1>18, <3>1 DEF Goto, Leads
    <3>3. DOMAIN alone' = Proc
      BY <3>1, HistFrame
    <3> QED BY <1>0, <2>1, <3>1, <3>2, <3>3, GoesFramed
  <2> QED BY <2>2, <2>3
<1>19. CASE LedgerTruncate(p)
  <2>1. /\ Goto(p, "ledger write") /\ UNCHANGED <<ran, cmd, snap, copy, todo, alone, kept>>
        /\ Arrives({NewRound})
    BY <1>19 DEF LedgerTruncate
  <2>2. Leads(p)
    BY <1>0, <1>19, <2>1 DEF Goto, Leads
  <2> QED BY <1>0, <2>1, <2>2, GoesFramed, HistFrame
<1>20. CASE LedgerWrite(p)
  <2>1. /\ Registers(p, <<"audit_ledger">>, "idle") /\ "idle" \in Nexts
        /\ UNCHANGED <<ran, snap>> /\ copy' = [copy EXCEPT ![p] = Absent]
        /\ DOMAIN alone' = Proc /\ DOMAIN kept' = {"rounds", "ids"} /\ Arrives({NewRound})
    BY <1>0, <1>20 DEF LedgerWrite, Nexts
  <2> QED BY <1>0, <2>1, RegistersFramed, HistFrame
<1>21. CASE Scan(p)
  <2>1. UNCHANGED <<ran, late, alone, kept>>
    BY <1>21 DEF Scan
  <2>2. CASE Ends(p)
    BY <1>0, <2>1, <2>2, EndsFramed
  <2>3. ASSUME ~Ends(p) PROVE Framed(p)
    <3>1. /\ Goto(p, "remove") /\ UNCHANGED <<cmd, snap, copy>>
          /\ \E x : todo' = [todo EXCEPT ![p] = x]
      BY <1>21, <2>3 DEF Scan
    <3>2. Leads(p)
      BY <1>0, <1>21, <3>1 DEF Goto, Leads
    <3> QED BY <1>0, <2>1, <3>1, <3>2, GoesFramed
  <2> QED BY <2>2, <2>3
<1>22. CASE Remove(p)
  <2>1. UNCHANGED <<ran, late, alone, kept>>
    BY <1>22 DEF Remove
  <2>2. CASE Ends(p)
    BY <1>0, <2>1, <2>2, EndsFramed
  <2>3. ASSUME ~Ends(p) PROVE Framed(p)
    <3>1. /\ pc' = pc /\ pc[p] = "remove" /\ UNCHANGED <<cmd, snap, copy>>
          /\ \E x : todo' = [todo EXCEPT ![p] = x]
      BY <1>22, <2>3 DEF Remove
    <3>2. Leads(p)
      BY <1>22, <3>1 DEF Leads
    <3>3. DOMAIN todo' = Proc /\ \A q \in Proc \ {p} : todo'[q] = todo[q]
      BY <3>1 DEF Shape
    <3>4. Mine(p)
      BY <2>1, <3>1, <3>3 DEF Mine
    <3>5. Shape'
      BY <2>1, <3>1, <3>3 DEF Shape
    <3> QED BY <3>2, <3>4, <3>5 DEF Framed
  <2> QED BY <2>2, <2>3
<1> QED
  BY <1>2, <1>3, <1>4, <1>5, <1>6, <1>7, <1>8, <1>9, <1>10, <1>11, <1>12, <1>13, <1>14, <1>15,
     <1>d, <1>e, <1>16, <1>17, <1>18, <1>19, <1>20, <1>21, <1>22 DEF Turn, Step, Closeout, Audit, Prune

-----------------------------------------------------------------------------
(* The row of a new round, from the dispatch to the ledger.                *)

\* The round that p is going to write is its own.
RowOf(p) == "by" \in DOMAIN cmd[p].row /\ cmd[p].row.by = Me(p)

RowInv ==
  /\ Shape
  /\ \A p \in Proc : /\ cmd[p].next = "ledger read" => RowOf(p)
                     /\ pc[p] = "ledger read" => cmd[p].next = "ledger read"

\* A step of p keeps the row of its round, or makes it.
LEMMA RowTurn ==
  ASSUME Shape, NEW p \in Proc, Turn(p), cmd[p].next = "ledger read" => RowOf(p)
  PROVE  (cmd[p].next = "ledger read" => RowOf(p))'
<1> USE DEF shared, local, hist
<1>0. DOMAIN cmd = Proc /\ DOMAIN cmd[p] = CmdFields
  BY DEF Shape
<1>1. ASSUME Ends(p) PROVE cmd'[p].next # "ledger read"
  BY <1>1, EndsFrame, NoCommandFields
<1>2. ASSUME NEW ids, NEW next \in Nexts, next # "ledger read", Registers(p, ids, next)
      PROVE  cmd'[p].next # "ledger read"
  <2>1. cmd'[p].next = next
    BY <1>2, RegistersFrame
  <2> QED BY <1>2, <2>1
<1>3. ASSUME cmd' = cmd, ran' = ran PROVE (cmd[p].next = "ledger read" => RowOf(p))'
  BY <1>3 DEF RowOf, Me
<1>4. ASSUME NEW f \in {"dirty", "auditors"}, NEW v, Note(p, f, v), ran' = ran
      PROVE  (cmd[p].next = "ledger read" => RowOf(p))'
  <2>1. cmd'[p].next = cmd[p].next /\ cmd'[p].row = cmd[p].row
    BY <1>0, <1>4, NoCommandFields DEF Note
  <2> QED BY <1>4, <2>1 DEF RowOf, Me
<1>5. {"idle", "handoff", "handoff again", "discover", "risks load", "brief", "dispatch"} \subseteq Nexts
  BY DEF Nexts
<1>6. CASE Begin(p)
  <2>1. PICK k \in Commands, force \in BOOLEAN, flag \in BOOLEAN :
          cmd' = [cmd EXCEPT ![p] = [NoCommand EXCEPT !.kind = k, !.force = force,
                                       !.verify = flag, !.discover = flag]]
    BY <1>6 DEF Begin
  <2>2. cmd'[p].next = "idle"
    BY <1>0, <2>1, NoCommandFields DEF CmdFields
  <2> QED BY <2>2
<1>7. CASE Load(p) \/ Select(p)
  <2>1. ran' = ran
    BY <1>7 DEF Load, Select
  <2>2. (\E v : Note(p, "dirty", v)) \/ (\E v : Note(p, "auditors", v))
    BY <1>7 DEF Load, Select
  <2> QED BY <1>4, <2>1, <2>2
<1>8. CASE Start(p) \/ Close(p) \/ Handoff(p) \/ LedgerWrite(p)
  <2>1. PICK next \in {"idle", "handoff", "handoff again"} : \E ids : Registers(p, ids, next)
    BY <1>8 DEF Start, Close, Handoff, LedgerWrite
  <2> QED BY <1>2, <1>5, <2>1
<1>9. CASE Discoverer(p)
  BY <1>1, <1>2, <1>5, <1>9 DEF Discoverer
<1>10. CASE Discover(p)
  <2>1. \/ Ends(p)
        \/ \E risky \in BOOLEAN :
             Plans(p, <<"risk_discovery_reply">>, IF risky THEN "risks load" ELSE "brief")
        \/ Plans(p, << >>, "idle")
    BY <1>10 DEF Discover
  <2>2. ASSUME NEW ids, NEW next \in Nexts, next # "ledger read", Plans(p, ids, next)
        PROVE  cmd'[p].next # "ledger read"
    BY <1>0, <2>2, PlansFrame
  <2> QED BY <1>1, <1>5, <2>1, <2>2
<1>11. CASE Brief(p)
  <2>1. PICK auto \in BOOLEAN : Registers(p, <<"audit_brief">>, IF auto THEN "dispatch" ELSE "idle")
    BY <1>11 DEF Brief
  <2> QED BY <1>2, <1>5, <2>1
<1>12. CASE Edit(p) \/ HandoffAgain(p) \/ Crash(p)
  BY <1>1, <1>12 DEF Edit, HandoffAgain, Crash
<1>13. CASE FirstGates(p) \/ Instruments(p) \/ LastGates(p) \/ RegisterRead(p) \/ RegisterWrite(p)
              \/ RisksLoad(p) \/ SaveRisks(p) \/ ResultsLoad(p) \/ SaveResults(p) \/ LedgerRead(p)
              \/ LedgerTruncate(p) \/ Scan(p) \/ Remove(p)
  <2>1. Ends(p) \/ (cmd' = cmd /\ ran' = ran)
    BY <1>13 DEF FirstGates, Instruments, LastGates, RegisterRead, RegisterWrite, RisksLoad,
                 SaveRisks, ResultsLoad, SaveResults, LedgerRead, LedgerTruncate, Scan, Remove
  <2> QED BY <1>1, <1>3, <2>1
<1>14. CASE Dispatch(p)
  <2>1. ASSUME ~Ends(p) PROVE RowOf(p)'
    <3> DEFINE rs == cmd[p].auditors
               who == {rs[i] : i \in 1 .. Len(rs)}
               Used(replies) == {x \in who : replies[x] # NoReply}
               Row(replies) ==
                 [label |-> 0, high |-> Counted(replies, rs).high,
                  critical |-> Counted(replies, rs).critical, by |-> Me(p),
                  auditors |-> Used(replies),
                  coverage |-> IF snap[p].tasks = {} THEN "empty" ELSE "filled"]
    <3>1. ran' = ran
      BY <1>14 DEF Dispatch
    <3>2. PICK replies \in [who -> Replies \cup {NoReply}] :
            cmd' = [cmd EXCEPT ![p].next = "ledger read", ![p].auditors = << >>,
                               ![p].row = Row(replies)]
      BY <1>14, <2>1 DEF Dispatch
    <3> DEFINE r == Row(replies)
    <3>3. "by" \in DOMAIN r /\ r.by = Me(p)
      OBVIOUS
    <3> HIDE DEF r
    <3>4. cmd'[p].row = r
      BY <1>0, <3>2, NoCommandFields DEF r
    <3> QED BY <3>1, <3>3, <3>4 DEF RowOf, Me
  <2> QED BY <1>1, <2>1
<1> QED
  BY <1>6, <1>7, <1>8, <1>9, <1>10, <1>11, <1>12, <1>13, <1>14
     DEF Turn, Step, Closeout, Audit, Prune, Register

\* What a step of nobody's command leaves alone.
LEMMA OutsideStep ==
  ASSUME [Next]_vars, \A p \in Proc : ~Turn(p)
  PROVE  /\ UNCHANGED <<pc, ran, cmd, snap, copy, todo, ledger, manifest, alone, kept>>
         /\ UNCHANGED <<run, late>> \/ \E st : Save(st)
<1>1. HostEdits \/ UNCHANGED vars
  BY DEF Next, Turn, AllDone
<1> QED BY <1>1 DEF HostEdits, vars, local, shared, hist

LEMMA RowStep ==
  ASSUME RowInv, [Next]_vars
  PROVE  RowInv'
<1>1. CASE \A p \in Proc : ~Turn(p)
  <2>1. UNCHANGED <<pc, ran, cmd, snap, copy, todo, alone, kept>> /\ DOMAIN late' = Proc
    BY <1>1, OutsideStep, HistFrame DEF RowInv, Shape
  <2> QED BY <2>1 DEF RowInv, Shape, RowOf, Me
<1>2. ASSUME NEW p \in Proc, Turn(p) PROVE RowInv'
  <2>1. Shape' /\ Mine(p) /\ Leads(p)
    BY <1>2, FrameStep DEF RowInv, Framed
  <2>2. (cmd[p].next = "ledger read" => RowOf(p))'
    BY <1>2, RowTurn DEF RowInv
  <2>3. pc'[p] = "ledger read" => cmd'[p].next = "ledger read"
    BY <2>1 DEF Leads, Elsewhere
  <2>4. ASSUME NEW q \in Proc \ {p}
        PROVE  /\ (cmd[q].next = "ledger read" => RowOf(q))'
               /\ pc'[q] = "ledger read" => cmd'[q].next = "ledger read"
    BY <2>1, <2>4 DEF Mine, RowInv, RowOf, Me
  <2> QED BY <2>1, <2>2, <2>3, <2>4 DEF RowInv
<1> QED BY <1>1, <1>2

-----------------------------------------------------------------------------
(* What undisturbed writers have added.                                    *)

LedgerFile(l) ==
  /\ DOMAIN l = {"file", "placeholder", "rows"}
  /\ l.file = "absent" => l.rows = << >>
  /\ Len(l.rows) \in Nat /\ (Len(l.rows) = 0 => l.rows = << >>)
  /\ \A i \in 1 .. Len(l.rows) : "by" \in DOMAIN l.rows[i]
By(l) == {l.rows[i].by : i \in 1 .. Len(l.rows)}

\* Who is alone in a window really is.
Lone(W) == \A p \in Proc : alone[p] /\ pc[p] \in W => \A q \in Proc \ {p} : pc[q] \notin W

\* The files hold what must not be lost.
Filed ==
  /\ LedgerFile(ledger)
  /\ ledger.file # "torn" => kept.rounds \subseteq By(ledger)
  /\ ~manifest.torn => kept.ids \subseteq manifest.ids

\* Whoever is about to write has it in its copy, and its own addition.
Writer(p) ==
  /\ pc[p] \in LedgerWindow =>
       LedgerFile(copy[p]) /\ kept.rounds \cup {Me(p)} \subseteq By(copy[p])
  /\ pc[p] = "manifest" => kept.ids \cup {Head(todo[p])} \subseteq copy[p].ids

KeptInv ==
  /\ RowInv
  /\ Filed
  /\ \A p \in Proc : Writer(p)
  /\ Lone(LedgerWindow) /\ Lone({"manifest"})

\* audit_ledger::append keeps the rounds of the text and adds one.
LEMMA AppendedFacts ==
  ASSUME NEW l, LedgerFile(l), l.file = "ok", NEW row, "by" \in DOMAIN row
  PROVE  /\ LedgerFile(Appended(l, row))
         /\ By(Appended(l, row)) = By(l) \cup {row.by}
<1> DEFINE n == Len(l.rows)
           s == UpgradeSchema(l.rows)
           x == [row EXCEPT !.label = NextRoundLabel(l)]
           t == Append(s, x)
           a == Appended(l, row)
<1>1. n \in Nat
  BY DEF LedgerFile
<1>2. DOMAIN s = 1 .. n
  BY DEF UpgradeSchema
<1>3. \A i \in 1 .. n : "by" \in DOMAIN s[i] /\ s[i].by = l.rows[i].by
  BY DEF UpgradeSchema, LedgerFile
<1>4. s \in Seq({s[i] : i \in 1 .. n})
  <2>1. s = [i \in 1 .. n |-> s[i]]
    BY DEF UpgradeSchema
  <2> HIDE DEF n, s
  <2>2. [i \in 1 .. n |-> s[i]] \in [1 .. n -> {s[i] : i \in 1 .. n}]
    OBVIOUS
  <2> QED BY <1>1, <2>1, <2>2
<1>5. "by" \in DOMAIN x /\ x.by = row.by
  OBVIOUS
<1> HIDE DEF n, s, x
<1>6. Len(s) = n
  BY <1>1, <1>2, <1>4
<1>7. /\ Len(t) = n + 1 /\ t[n + 1] = x
      /\ \A i \in 1 .. n : t[i] = s[i]
  BY <1>1, <1>4, <1>6
<1> HIDE DEF t
<1>8. DOMAIN a = {"file", "placeholder", "rows"} /\ a.rows = t /\ a.file = "ok"
  BY DEF LedgerFile, Appended, s, x, t
<1> HIDE DEF a
<1>9. \A i \in 1 .. Len(a.rows) : "by" \in DOMAIN a.rows[i]
  BY <1>1, <1>3, <1>5, <1>7, <1>8
<1>10. LedgerFile(a)
  BY <1>1, <1>7, <1>8, <1>9 DEF LedgerFile
<1>11. \A i \in 1 .. n : a.rows[i].by = l.rows[i].by
  BY <1>3, <1>7, <1>8
<1>12. a.rows[n + 1].by = row.by /\ Len(a.rows) = n + 1
  BY <1>5, <1>7, <1>8
<1>13. \A i \in 1 .. n + 1 : i \in 1 .. n \/ i = n + 1
  BY <1>1
<1>14. n + 1 \in 1 .. n + 1 /\ \A i \in 1 .. n : i \in 1 .. n + 1
  BY <1>1
<1>15. By(a) = By(l) \cup {row.by}
  BY <1>11, <1>12, <1>13, <1>14 DEF By, n
<1> QED BY <1>10, <1>15 DEF a

\* Nobody comes into the window.
LEMMA LoneStays ==
  ASSUME NEW W, Lone(W), \A q \in Proc : pc'[q] \in W => pc[q] \in W /\ (alone'[q] => alone[q])
  PROVE  Lone(W)'
BY DEF Lone

\* p comes into the window.
LEMMA LoneEnters ==
  ASSUME NEW W, Lone(W), NEW p \in Proc, EnterWindow(p, W), pc[p] \notin W,
         \A q \in Proc \ {p} : pc'[q] = pc[q]
  PROVE  Lone(W)'
<1>1. \A q \in Proc \ {p} : alone'[q] => pc[q] \notin W
  BY DEF EnterWindow
<1>2. alone'[p] => \A r \in Proc \ {p} : pc[r] \notin W
  BY DEF EnterWindow
<1> QED BY <1>1, <1>2 DEF Lone

\* The steps that have nothing to do with the ledger and the manifest.
Aside(p) ==
  ~(RegisterRead(p) \/ RegisterWrite(p) \/ LedgerRead(p) \/ LedgerTruncate(p) \/ LedgerWrite(p)
      \/ Crash(p))
Windows == LedgerWindow \cup {"manifest", "ledger read"}

LEMMA AsideStep ==
  ASSUME Shape, NEW p \in Proc, Turn(p), Aside(p)
  PROVE  UNCHANGED <<ledger, manifest, kept, alone>> /\ pc'[p] \notin Windows
<1>1. UNCHANGED <<ledger, manifest, kept, alone>>
  <2> USE DEF shared, local, hist
  <2>1. CASE Begin(p) \/ Start(p) \/ Load(p) \/ Edit(p) \/ Closeout(p) \/ Prune(p)
    BY <2>1 DEF Begin, Start, Load, Edit, Closeout, FirstGates, Instruments, LastGates, Close,
                Handoff, HandoffAgain, Prune, Scan, Remove
  <2>2. CASE Audit(p)
    BY <2>2 DEF Aside, Audit, Select, Discoverer, Discover, RisksLoad, SaveRisks, Brief, Dispatch,
                ResultsLoad, SaveResults
  <2> QED BY <2>1, <2>2 DEF Turn, Step, Register, Aside
<1>2. Leads(p)
  BY FrameStep DEF Framed
<1> QED BY <1>1, <1>2 DEF Leads, Elsewhere, Windows, LedgerWindow, Aside

\* A step of p that changes nothing that is to be kept, and after which p is
\* in no window: only the files have to be looked at.
LEMMA KeptAway ==
  ASSUME KeptInv, NEW p \in Proc, Mine(p), kept' = kept, pc'[p] \notin Windows,
         \A q \in Proc \ {p} : alone'[q] => alone[q]
  PROVE  /\ \A q \in Proc : Writer(q)'
         /\ Lone(LedgerWindow)' /\ Lone({"manifest"})'
<1>1. Writer(p)'
  BY DEF Writer, Windows, LedgerWindow
<1>2. ASSUME NEW q \in Proc \ {p} PROVE Writer(q)'
  BY <1>2 DEF Writer, KeptInv, Mine, Me
<1>3. Lone(LedgerWindow)'
  BY LoneStays DEF KeptInv, Mine, Windows
<1>4. Lone({"manifest"})'
  BY LoneStays DEF KeptInv, Mine, Windows
<1> QED BY <1>1, <1>2, <1>3, <1>4

\* ensure_exists changes no round.
LEMMA EnsureFacts ==
  ASSUME NEW l, LedgerFile(l)
  PROVE  /\ LedgerFile(EnsureExists(l)) /\ By(EnsureExists(l)) = By(l)
         /\ EnsureExists(l).rows = l.rows
         /\ EnsureExists(l).file # "torn" => l.file # "torn"
<1>1. CASE l.file # "absent"
  BY <1>1 DEF EnsureExists
<1>2. CASE l.file = "absent"
  <2>1. EnsureExists(l) = Template /\ l.rows = << >>
    BY <1>2 DEF EnsureExists, LedgerFile
  <2>2. /\ DOMAIN Template = {"file", "placeholder", "rows"} /\ Template.rows = << >>
        /\ Template.file = "ok" /\ Len(<< >>) = 0
    BY DEF Template
  <2> HIDE DEF Template
  <2> QED BY <1>2, <2>1, <2>2 DEF LedgerFile, By
<1> QED BY <1>1, <1>2

\* The steps of register_artifact.
LEMMA KeptRegister ==
  ASSUME KeptInv, NEW p \in Proc, Register(p), Mine(p)
  PROVE  /\ Filed' /\ \A q \in Proc : Writer(q)'
         /\ Lone(LedgerWindow)' /\ Lone({"manifest"})'
<1> USE DEF shared, local, hist
<1>0. Shape /\ DOMAIN alone = Proc
  BY DEF KeptInv, RowInv, Shape
<1>1. CASE RegisterRead(p)
  <2>1. UNCHANGED <<ran, ledger, manifest, kept>> /\ pc[p] = "register"
    BY <1>1 DEF RegisterRead
  <2>2. Filed'
    BY <2>1 DEF KeptInv, Filed
  <2>3. CASE Ends(p) /\ alone' = alone
    <3>1. pc'[p] = "idle"
      BY <1>0, <2>3, EndsFrame
    <3> QED BY <2>1, <2>2, <2>3, <3>1, KeptAway DEF Windows, LedgerWindow
  <2>4. CASE /\ ~manifest.torn /\ Goto(p, "manifest") /\ EnterWindow(p, {"manifest"})
             /\ copy' = [copy EXCEPT ![p] = [ids |-> manifest.ids \cup {Head(todo[p])}]]
             /\ todo' = todo
    <3>1. pc'[p] = "manifest" /\ copy'[p].ids = manifest.ids \cup {Head(todo[p])}
      BY <1>0, <2>4 DEF Shape, Goto
    <3>2. \A q \in Proc \ {p} : pc'[q] = pc[q] /\ (alone'[q] => alone[q])
      BY <2>4 DEF Mine, EnterWindow
    <3>3. Lone({"manifest"})'
      BY <2>1, <2>4, <3>2, LoneEnters DEF KeptInv
    <3>4. Lone(LedgerWindow)'
      BY <3>1, <3>2, LoneStays DEF KeptInv, LedgerWindow
    <3>5. Writer(p)'
      BY <2>1, <2>4, <3>1 DEF Writer, KeptInv, Filed, LedgerWindow
    <3>6. ASSUME NEW q \in Proc \ {p} PROVE Writer(q)'
      BY <2>1, <3>6 DEF Writer, KeptInv, Mine, Me
    <3> QED BY <2>2, <3>3, <3>4, <3>5, <3>6
  <2> QED BY <1>1, <2>3, <2>4 DEF RegisterRead
<1>2. CASE RegisterWrite(p)
  <2>1. /\ UNCHANGED <<ran, ledger>> /\ pc[p] = "manifest"
        /\ manifest' = [torn |-> FALSE, ids |-> copy[p].ids]
        /\ alone' = [alone EXCEPT ![p] = TRUE]
    BY <1>2 DEF RegisterWrite
  <2>2. /\ kept'.rounds = kept.rounds /\ kept'.ids \subseteq kept.ids \cup {Head(todo[p])}
        /\ ~alone[p] => kept' = kept
    BY <1>0, <1>2 DEF RegisterWrite, Shape
  <2>3. Filed'
    <3>1. kept'.ids \subseteq copy[p].ids
      BY <2>1, <2>2 DEF KeptInv, Writer
    <3>2. manifest'.ids = copy[p].ids
      BY <2>1
    <3> QED BY <2>1, <2>2, <3>1, <3>2 DEF Filed, KeptInv
  <2>4. pc'[p] \notin LedgerWindow \cup {"manifest"}
    <3>1. CASE Ends(p)
      BY <1>0, <3>1, EndsFrame DEF LedgerWindow
    <3>2. CASE Goto(p, "register") \/ Goto(p, cmd[p].next)
      BY <1>0, <3>2 DEF Goto, Shape, Nexts, LedgerWindow
    <3> QED BY <1>2, <3>1, <3>2 DEF RegisterWrite
  <2>5. \A q \in Proc \ {p} : pc'[q] = pc[q] /\ alone'[q] = alone[q]
    BY <1>0, <2>1 DEF Mine
  <2>6. Lone(LedgerWindow)' /\ Lone({"manifest"})'
    BY <2>4, <2>5, LoneStays DEF KeptInv
  <2>7. Writer(p)'
    BY <2>4 DEF Writer
  <2>8. ASSUME NEW q \in Proc \ {p} PROVE Writer(q)'
    <3>1. pc[q] = "manifest" => kept' = kept
      BY <2>1, <2>2, <2>8 DEF KeptInv, Lone
    <3> QED BY <2>1, <2>2, <2>8, <3>1 DEF Writer, KeptInv, Mine, Me
  <2> QED BY <2>3, <2>6, <2>7, <2>8
<1> QED BY <1>1, <1>2 DEF Register

\* The steps of audit_ledger::append.
LEMMA KeptLedger ==
  ASSUME KeptInv, NEW p \in Proc, LedgerRead(p) \/ LedgerTruncate(p) \/ LedgerWrite(p), Mine(p)
  PROVE  /\ Filed' /\ \A q \in Proc : Writer(q)'
         /\ Lone(LedgerWindow)' /\ Lone({"manifest"})'
<1> USE DEF shared, local, hist
<1>0. Shape /\ DOMAIN alone = Proc /\ LedgerFile(ledger)
  BY DEF KeptInv, RowInv, Shape, Filed
<1>1. CASE LedgerRead(p)
  <2> DEFINE l == EnsureExists(ledger)
  <2>1. UNCHANGED <<ran, manifest, kept>> /\ pc[p] = "ledger read" /\ ledger' = l
    BY <1>1 DEF LedgerRead
  <2>2. /\ LedgerFile(l) /\ By(l) = By(ledger)
        /\ l.file # "torn" => ledger.file # "torn"
    BY <1>0, EnsureFacts
  <2>3. \/ /\ CanAppend(l) /\ copy' = [copy EXCEPT ![p] = Appended(l, cmd[p].row)]
           /\ EnterWindow(p, LedgerWindow) /\ Goto(p, "ledger truncate") /\ todo' = todo
        \/ Ends(p) /\ alone' = alone
    BY <1>1 DEF LedgerRead
  <2> HIDE DEF l
  <2>4. Filed'
    BY <2>1, <2>2 DEF KeptInv, Filed
  <2>5. CASE Ends(p) /\ alone' = alone
    <3>1. pc'[p] = "idle"
      BY <1>0, <2>5, EndsFrame
    <3> QED BY <2>1, <2>4, <2>5, <3>1, KeptAway DEF Windows, LedgerWindow
  <2>6. CASE /\ CanAppend(l) /\ copy' = [copy EXCEPT ![p] = Appended(l, cmd[p].row)]
             /\ EnterWindow(p, LedgerWindow) /\ Goto(p, "ledger truncate") /\ todo' = todo
    <3>1. pc'[p] = "ledger truncate" /\ copy'[p] = Appended(l, cmd[p].row)
      BY <1>0, <2>6 DEF Shape, Goto
    <3>2. \A q \in Proc \ {p} : pc'[q] = pc[q] /\ (alone'[q] => alone[q])
      BY <2>6 DEF Mine, EnterWindow
    <3>3. Lone(LedgerWindow)'
      BY <2>1, <2>6, <3>2, LoneEnters DEF KeptInv, LedgerWindow
    <3>4. Lone({"manifest"})'
      BY <3>1, <3>2, LoneStays DEF KeptInv
    <3>5. "by" \in DOMAIN cmd[p].row /\ cmd[p].row.by = Me(p)
      BY <2>1 DEF KeptInv, RowInv, RowOf
    <3>6. LedgerFile(copy'[p]) /\ By(copy'[p]) = By(l) \cup {Me(p)}
      <4> DEFINE r == cmd[p].row
      <4>1. LedgerFile(l) /\ l.file = "ok" /\ "by" \in DOMAIN r
        BY <2>2, <2>6, <3>5 DEF CanAppend
      <4> HIDE DEF r
      <4>2. LedgerFile(Appended(l, r)) /\ By(Appended(l, r)) = By(l) \cup {r.by}
        BY <4>1, AppendedFacts
      <4> QED BY <3>1, <3>5, <4>2 DEF r
    <3>7. kept.rounds \subseteq By(l)
      BY <2>2, <2>6 DEF CanAppend, KeptInv, Filed
    <3>8. Writer(p)'
      BY <2>1, <3>1, <3>6, <3>7 DEF Writer, Me
    <3>9. ASSUME NEW q \in Proc \ {p} PROVE Writer(q)'
      BY <2>1, <3>9 DEF Writer, KeptInv, Mine, Me
    <3> QED BY <2>4, <3>3, <3>4, <3>8, <3>9
  <2> QED BY <2>3, <2>5, <2>6
<1>2. CASE LedgerTruncate(p)
  <2>1. /\ UNCHANGED <<ran, copy, todo, manifest, alone, kept>> /\ pc[p] = "ledger truncate"
        /\ ledger' = Torn /\ Goto(p, "ledger write")
    BY <1>2 DEF LedgerTruncate
  <2>2. LedgerFile(Torn) /\ Torn.file = "torn"
    BY DEF Torn, LedgerFile
  <2>3. Filed'
    BY <2>1, <2>2 DEF KeptInv, Filed
  <2>4. pc'[p] = "ledger write" /\ \A q \in Proc \ {p} : pc'[q] = pc[q]
    BY <1>0, <2>1 DEF Shape, Goto
  <2>5. Lone(LedgerWindow)' /\ Lone({"manifest"})'
    BY <2>1, <2>4, LoneStays DEF KeptInv, LedgerWindow
  <2>6. ASSUME NEW q \in Proc PROVE Writer(q)'
    <3>1. Writer(q) /\ pc'[q] \in LedgerWindow => pc[q] \in LedgerWindow
      BY <2>1, <2>4 DEF KeptInv, LedgerWindow
    <3>2. pc'[q] = "manifest" => pc[q] = "manifest"
      BY <2>4
    <3>3. Me(q)' = Me(q) /\ copy'[q] = copy[q] /\ todo'[q] = todo[q] /\ kept' = kept
      BY <2>1 DEF Me
    <3>4. Writer(q)
      BY DEF KeptInv
    <3>5. pc'[q] \in LedgerWindow => pc[q] \in LedgerWindow
      BY <3>1, <3>4
    <3> QED BY <3>2, <3>3, <3>4, <3>5 DEF Writer
  <2> QED BY <2>3, <2>5, <2>6
<1>3. CASE LedgerWrite(p)
  <2>1. /\ UNCHANGED <<ran, manifest>> /\ pc[p] = "ledger write" /\ ledger' = copy[p]
        /\ alone' = [alone EXCEPT ![p] = TRUE] /\ Registers(p, <<"audit_ledger">>, "idle")
        /\ "idle" \in Nexts
    BY <1>3 DEF LedgerWrite, Nexts
  <2>2. /\ kept'.ids = kept.ids /\ kept'.rounds \subseteq kept.rounds \cup {Me(p)}
        /\ ~alone[p] => kept' = kept
    BY <1>0, <1>3 DEF LedgerWrite, Shape
  <2>3. LedgerFile(copy[p]) /\ kept.rounds \cup {Me(p)} \subseteq By(copy[p])
    BY <2>1 DEF KeptInv, Writer, LedgerWindow
  <2>4. Filed'
    BY <2>1, <2>2, <2>3 DEF Filed, KeptInv
  <2>5. pc'[p] \notin LedgerWindow \cup {"manifest"}
    BY <1>0, <2>1, RegistersFrame DEF LedgerWindow
  <2>6. \A q \in Proc \ {p} : pc'[q] = pc[q] /\ alone'[q] = alone[q]
    BY <1>0, <2>1 DEF Mine
  <2>7. Lone(LedgerWindow)' /\ Lone({"manifest"})'
    BY <2>5, <2>6, LoneStays DEF KeptInv
  <2>8. Writer(p)'
    BY <2>5 DEF Writer
  <2>9. ASSUME NEW q \in Proc \ {p} PROVE Writer(q)'
    <3>1. pc[q] \in LedgerWindow => kept' = kept
      BY <2>1, <2>2, <2>9 DEF KeptInv, Lone, LedgerWindow
    <3> QED BY <2>1, <2>2, <2>9, <3>1 DEF Writer, KeptInv, Mine, Me
  <2> QED BY <2>4, <2>7, <2>8, <2>9
<1> QED BY <1>1, <1>2, <1>3

LEMMA KeptStep ==
  ASSUME KeptInv, [Next]_vars
  PROVE  KeptInv'
<1> DEFINE Rest == /\ Filed /\ \A q \in Proc : Writer(q)
                   /\ Lone(LedgerWindow) /\ Lone({"manifest"})
<1>0. RowInv' /\ Shape
  BY RowStep DEF KeptInv, RowInv
<1>1. CASE \A p \in Proc : ~Turn(p)
  <2>1. UNCHANGED <<pc, ran, copy, todo, ledger, manifest, alone, kept>>
    BY <1>1, OutsideStep
  <2>2. Filed' /\ Lone(LedgerWindow)' /\ Lone({"manifest"})'
    BY <2>1 DEF KeptInv, Filed, Lone
  <2>3. ASSUME NEW q \in Proc PROVE Writer(q)'
    BY <2>1 DEF KeptInv, Writer, Me
  <2> QED BY <1>0, <2>2, <2>3 DEF KeptInv
<1>2. ASSUME NEW p \in Proc, Turn(p) PROVE Rest'
  <2>0. Mine(p)
    BY <1>0, <1>2, FrameStep DEF Framed
  <2>1. CASE Aside(p)
    <3>1. UNCHANGED <<ledger, manifest, kept, alone>> /\ pc'[p] \notin Windows
      BY <1>0, <1>2, <2>1, AsideStep
    <3>2. Filed'
      BY <3>1 DEF KeptInv, Filed
    <3> QED BY <2>0, <3>1, <3>2, KeptAway
  <2>2. CASE Crash(p)
    <3>1. /\ UNCHANGED <<ledger, kept, alone>> /\ Ends(p)
          /\ manifest' = manifest \/ manifest' = [torn |-> TRUE, ids |-> {}]
      BY <2>2 DEF Crash, hist
    <3>2. pc'[p] \notin Windows
      BY <1>0, <3>1, EndsFrame DEF Windows, LedgerWindow
    <3>3. Filed'
      BY <3>1 DEF KeptInv, Filed
    <3> QED BY <2>0, <3>1, <3>2, <3>3, KeptAway
  <2>3. CASE RegisterRead(p) \/ RegisterWrite(p)
    BY <2>0, <2>3, KeptRegister DEF Register
  <2>4. CASE LedgerRead(p) \/ LedgerTruncate(p) \/ LedgerWrite(p)
    BY <2>0, <2>4, KeptLedger
  <2> QED BY <2>1, <2>2, <2>3, <2>4 DEF Aside
<1> QED BY <1>0, <1>1, <1>2 DEF KeptInv

LEMMA KeptInit == Init => KeptInv
<1> SUFFICES ASSUME Init PROVE KeptInv
  OBVIOUS
<1>1. PICK b \in Begins : run = b.run /\ ledger = b.ledger
  BY DEF Init
<1>2. LedgerFile(ledger)
  <2> DEFINE s == ledger.rows
             S == {s[i] : i \in 1 .. Len(s)}
  <2>1. s \in Seq(S)
    BY <1>1, LifecycleBegins
  <2> HIDE DEF s, S
  <2>2. Len(s) \in Nat /\ (Len(s) = 0 => s = << >>)
    BY <2>1
  <2> QED BY <1>1, <2>2, LifecycleBegins DEF LedgerFile, s
<1>3. /\ kept = [rounds |-> {}, ids |-> {}]
      /\ \A p \in Proc : pc[p] = "idle" /\ cmd[p] = NoCommand
  BY DEF Init
<1>4. kept.rounds = {} /\ kept.ids = {} /\ DOMAIN kept = {"rounds", "ids"}
  BY <1>3
<1>5. /\ DOMAIN pc = Proc /\ DOMAIN ran = Proc /\ DOMAIN cmd = Proc /\ DOMAIN snap = Proc
      /\ DOMAIN copy = Proc /\ DOMAIN todo = Proc /\ DOMAIN late = Proc /\ DOMAIN alone = Proc
  BY DEF Init
<1>6. \A p \in Proc : DOMAIN cmd[p] = CmdFields /\ cmd[p].next = "idle"
  BY <1>3, NoCommandFields DEF CmdFields
<1>7. RowInv
  BY <1>3, <1>4, <1>5, <1>6 DEF RowInv, Shape, Nexts
<1>8. Filed
  BY <1>2, <1>4 DEF Filed
<1>9. /\ \A p \in Proc : Writer(p)
      /\ Lone(LedgerWindow) /\ Lone({"manifest"})
  BY <1>3 DEF Writer, Lone, LedgerWindow
<1> QED BY <1>7, <1>8, <1>9 DEF KeptInv

LEMMA KeptHolds == Spec => []KeptInv
<1>1. KeptInv /\ [Next]_vars => KeptInv'
  BY KeptStep
<1> QED BY KeptInit, <1>1, PTL DEF Spec

\* What an undisturbed audit_ledger::append or register_artifact has added is
\* in the file for as long as the file is whole, whatever the other commands
\* have written since, two that overlapped among them.
THEOREM KeptTheorem == Spec => []UndisturbedKept
<1>1. KeptInv => UndisturbedKept
  BY DEF KeptInv, Filed, UndisturbedKept, Rows, ParseLedger, By
<1> QED BY <1>1, KeptHolds, PTL

-----------------------------------------------------------------------------
(* What has arrived since a closeout or a prune took its copy.             *)

\* The steps at which a command acts on its copy.
Acting == {"gates", "instruments", "last gates", "close", "scan", "remove"}

\* A step is noted for q: every block, risk, round and reopening it brings.
Tracked(q) ==
  /\ late[q] \subseteq late'[q]
  /\ Owed(run') \subseteq Owed(run) \cup late'[q]
  /\ run'.phase = "closed" \/ run.phase # "closed" \/ Reopened \in late'[q]
  /\ ledger'.rows = ledger.rows \/ NewRound \in late'[q]

LEMMA TrackedSave ==
  ASSUME NEW q \in Proc, pc[q] \in Acting, NEW st, Save(st), ledger' = ledger
  PROVE  Tracked(q)
<1> DEFINE new == (Owed(st) \ Owed(run)) \cup
                  (IF run.phase = "closed" /\ st.phase # "closed" THEN {Reopened} ELSE {})
<1>1. late'[q] = late[q] \cup new /\ run' = st
  BY DEF Save, Arrives, Acting
<1> QED BY <1>1 DEF Tracked

LEMMA TrackedQuiet ==
  ASSUME NEW q \in Proc, UNCHANGED <<run, late>>, ledger'.rows = ledger.rows
  PROVE  Tracked(q)
BY DEF Tracked

\* Whatever happens, it is noted for whoever acts on a copy.
LEMMA TrackedStep ==
  ASSUME Shape, Filed, [Next]_vars, NEW q \in Proc, pc[q] \in Acting
  PROVE  Tracked(q)
<1> USE DEF shared, local, hist
<1>1. CASE \A p \in Proc : ~Turn(p)
  BY <1>1, OutsideStep, TrackedSave, TrackedQuiet
<1>2. ASSUME NEW p \in Proc, Turn(p) PROVE Tracked(q)
  <2>1. CASE Begin(p) \/ FirstGates(p) \/ Instruments(p) \/ LastGates(p) \/ Handoff(p)
               \/ HandoffAgain(p) \/ Register(p) \/ Prune(p) \/ Crash(p)
    <3>1. UNCHANGED <<run, late, ledger>>
      BY <2>1 DEF Begin, FirstGates, Instruments, LastGates, Handoff, HandoffAgain, Register,
                  RegisterRead, RegisterWrite, Prune, Scan, Remove, Crash
    <3> QED BY <3>1, TrackedQuiet
  <2>2. CASE Select(p) \/ Discoverer(p) \/ Discover(p) \/ RisksLoad(p) \/ Brief(p) \/ Dispatch(p)
               \/ ResultsLoad(p)
    <3>1. UNCHANGED <<run, late, ledger>>
      BY <2>2 DEF Select, Discoverer, Discover, RisksLoad, Brief, Dispatch, ResultsLoad
    <3> QED BY <3>1, TrackedQuiet
  <2>3. CASE Start(p) \/ Edit(p) \/ Close(p) \/ SaveRisks(p) \/ SaveResults(p)
    <3>1. ledger' = ledger /\ \E st : Save(st)
      BY <2>3 DEF Start, Edit, Close, SaveRisks, SaveResults
    <3> QED BY <3>1, TrackedSave
  <2>4. CASE Load(p)
    <3>1. /\ pc[p] = "load" /\ UNCHANGED <<run, ledger>> /\ late' = [late EXCEPT ![p] = {}]
      BY <2>4 DEF Load
    <3>2. p # q /\ late'[q] = late[q]
      BY <3>1 DEF Acting, Shape
    <3> QED BY <3>1, <3>2 DEF Tracked
  <2>5. CASE LedgerRead(p)
    <3>1. UNCHANGED <<run, late>> /\ ledger' = EnsureExists(ledger)
      BY <2>5 DEF LedgerRead
    <3>2. ledger'.rows = ledger.rows
      BY <3>1, EnsureFacts DEF Filed
    <3> QED BY <3>1, <3>2, TrackedQuiet
  <2>6. CASE LedgerTruncate(p) \/ LedgerWrite(p)
    <3>1. run' = run /\ Arrives({NewRound})
      BY <2>6 DEF LedgerTruncate, LedgerWrite
    <3>2. late'[q] = late[q] \cup {NewRound}
      BY <3>1 DEF Arrives, Acting
    <3> QED BY <3>1, <3>2 DEF Tracked
  <2> QED BY <1>2, <2>1, <2>2, <2>3, <2>4, <2>5, <2>6 DEF Turn, Step, Closeout, Audit
<1> QED BY <1>1, <1>2

-----------------------------------------------------------------------------
(* prune *)

\* A prune that goes on has seen the run closed: it still is, or was reopened.
PruneInv ==
  \A p \in Proc :
    \/ pc[p] \notin {"scan", "remove"}
    \/ pc[p] = "scan" /\ snap[p].phase # "closed"
    \/ run.phase = "closed" \/ Reopened \in late[p]

LEMMA PruneStep ==
  ASSUME Shape, Filed, PruneInv, [Next]_vars
  PROVE  PruneInv'
<1> DEFINE P(q) == \/ pc[q] \notin {"scan", "remove"}
                   \/ pc[q] = "scan" /\ snap[q].phase # "closed"
                   \/ run.phase = "closed" \/ Reopened \in late[q]
<1>1. ASSUME NEW q \in Proc, pc'[q] = pc[q], snap'[q] = snap[q]
      PROVE  P(q)'
  <2>1. CASE pc[q] \in Acting
    BY <1>1, <2>1, TrackedStep DEF Tracked, PruneInv
  <2>2. CASE pc[q] \notin Acting
    BY <1>1, <2>2 DEF Acting
  <2> QED BY <2>1, <2>2
<1>2. CASE \A p \in Proc : ~Turn(p)
  BY <1>1, <1>2, OutsideStep DEF PruneInv
<1>3. ASSUME NEW p \in Proc, Turn(p) PROVE PruneInv'
  <2>1. Mine(p) /\ Leads(p)
    BY <1>3, FrameStep DEF Framed
  <2>2. P(p)'
    <3>1. CASE Load(p)
      <4>1. snap'[p] = run /\ run' = run
        BY <3>1 DEF Load, Shape, shared
      <4>2. pc'[p] \in {"gates", "select", "scan", "edit"}
        BY <3>1 DEF Load, Shape, Goto
      <4> QED BY <4>1, <4>2
    <3>2. CASE (Scan(p) \/ Remove(p)) /\ pc'[p] = "remove"
      <4>1. UNCHANGED <<run, late>>
        BY <3>2 DEF Scan, Remove, hist
      <4>2. pc[p] = "scan" => snap[p].phase = "closed"
        <5>1. ASSUME Ends(p) PROVE FALSE
          BY <3>2, <5>1, EndsFrame
        <5> QED BY <3>2, <5>1 DEF Scan, Remove, Eligible
      <4>3. pc[p] \in {"scan", "remove"}
        BY <3>2 DEF Scan, Remove
      <4> QED BY <4>1, <4>2, <4>3 DEF PruneInv
    <3> QED BY <2>1, <3>1, <3>2 DEF Leads, Elsewhere
  <2>3. ASSUME NEW q \in Proc \ {p} PROVE P(q)'
    BY <1>1, <2>1, <2>3 DEF Mine
  <2> QED BY <2>2, <2>3 DEF PruneInv
<1> QED BY <1>2, <1>3

\* prune removes a file only of a run that is closed or that somebody reopened
\* after prune had read state.json and found it closed.
THEOREM PruneTheorem == Spec => PruneSpares
<1>1. Init => PruneInv
  BY DEF Init, PruneInv
<1>2. KeptInv => Shape /\ Filed
  BY DEF KeptInv, RowInv
<1>3. KeptInv /\ PruneInv /\ [Next]_vars => PruneInv'
  BY <1>2, PruneStep
<1>4. Spec => [](KeptInv /\ PruneInv)
  BY <1>1, <1>3, KeptHolds, PTL DEF Spec
<1>5. PruneInv /\ [Next]_vars =>
        [\A p \in Proc :
           pc[p] = "remove" /\ files' # files /\ (todo'[p] # todo[p]) =>
             run.phase = "closed" \/ Reopened \in late[p]]_vars
  BY DEF PruneInv
<1> QED BY <1>4, <1>5, PTL DEF Spec, PruneSpares

-----------------------------------------------------------------------------
(* closeout *)

\* Only an empty ledger has no observations.
LEMMA EvaluateEmpty ==
  ASSUME NEW rows, Len(rows) \in Nat
  PROVE  (EvaluateLedger(rows, FALSE) = "NO_OBSERVATIONS") <=> (Len(rows) = 0)
<1> DEFINE b == Blockers(rows)
<1>1. Len(b) = Len(rows)
  BY DEF Blockers
<1> HIDE DEF b
<1>2. EvaluateLedger(rows, FALSE) =
        LET n == Len(b)
            Rises(i)  == b[i + 1] > b[i]
            Stalls(i) == FALSE /\ b[i + 1] = b[i] /\ b[i] > 0
            against   == {i \in 1 .. n - 1 : Rises(i) \/ Stalls(i)}
        IN  IF n = 0 THEN "NO_OBSERVATIONS"
            ELSE IF b[n] = 0 THEN "CONVERGED"
            ELSE IF against = {} THEN "CONVERGING"
            ELSE IF Rises(Least(against)) THEN "REBOUND" ELSE "STALLED"
  BY DEF EvaluateLedger, b
<1> QED BY <1>1, <1>2

\* What a closeout knows at its steps: all that stands against closing is in
\* its copy or arrived later; after the first gates its copy has no blocks and
\* the ledger passes unless a round was written since; after the last gates no
\* risk is open in its copy and a high-risk run has been audited.
Passes(q) == NewRound \in late[q] \/ Ok(EvaluateLedger(ledger.rows, FALSE))
Audited(q) == NewRound \in late[q] \/ ~snap[q].high \/ ledger.rows # << >>
CloseAt(q) ==
  /\ pc[q] \in {"gates", "instruments", "last gates", "close"} =>
       Owed(run) \subseteq Owed(snap[q]) \cup late[q]
  /\ ~cmd[q].force /\ pc[q] \in {"instruments", "last gates", "close"} =>
       snap[q].blocks = {} /\ Passes(q)
  /\ ~cmd[q].force /\ pc[q] = "close" =>
       Unverified(snap[q]) = {} /\ Audited(q)
CloseInv == \A p \in Proc : CloseAt(p)

LEMMA FirstGatesPass ==
  ASSUME NEW st, LedgerFile(ledger), GatesBefore(st, ledger, FALSE) = "none"
  PROVE  st.blocks = {} /\ Ok(EvaluateLedger(ledger.rows, FALSE))
<1>1. /\ st.blocks = {}
      /\ \/ ledger.file = "absent"
         \/ EvaluateLedger(ParseLedger(ledger), FALSE) \in {"CONVERGED", "NO_OBSERVATIONS"}
  BY DEF GatesBefore
<1>2. CASE ledger.file = "absent"
  <2>1. ledger.rows = << >> /\ Len(ledger.rows) = 0
    BY <1>2 DEF LedgerFile
  <2>2. EvaluateLedger(ledger.rows, FALSE) = "NO_OBSERVATIONS"
    BY <2>1, EvaluateEmpty
  <2> QED BY <1>1, <2>2 DEF Ok
<1> QED BY <1>1, <1>2 DEF Ok, ParseLedger

LEMMA LastGatesPass ==
  ASSUME NEW st, NEW dirty, NEW allow,
         GatesAfter(st, ledger, FALSE, dirty, allow) = "none"
  PROVE  Unverified(st) = {} /\ (~st.high \/ ledger.rows # << >>)
<1>1. OpenRisks(st) = {} /\ (~HasHighRiskTask(st) \/ ParseLedger(ledger) # << >>)
  BY DEF GatesAfter
<1> QED BY <1>1 DEF OpenRisks, Unverified, HasHighRiskTask, ParseLedger

LEMMA CloseStep ==
  ASSUME Shape, Filed, CloseInv, [Next]_vars
  PROVE  CloseInv'
<1>1. ASSUME NEW q \in Proc, pc'[q] = pc[q], snap'[q] = snap[q], cmd'[q] = cmd[q]
      PROVE  CloseAt(q)'
  <2>1. CASE pc[q] \in Acting
    <3>1. Tracked(q) /\ CloseAt(q)
      BY <2>1, TrackedStep DEF CloseInv
    <3>2. Passes(q) => Passes(q)'
      BY <3>1 DEF Tracked, Passes
    <3>3. Audited(q) => Audited(q)'
      BY <1>1, <3>1 DEF Tracked, Audited
    <3> QED BY <1>1, <3>1, <3>2, <3>3 DEF Tracked, CloseAt
  <2>2. CASE pc[q] \notin Acting
    BY <1>1, <2>2 DEF Acting, CloseAt
  <2> QED BY <2>1, <2>2
<1>2. CASE \A p \in Proc : ~Turn(p)
  BY <1>1, <1>2, OutsideStep DEF CloseInv
<1>3. ASSUME NEW p \in Proc, Turn(p) PROVE CloseInv'
  <2>1. Mine(p) /\ Leads(p)
    BY <1>3, FrameStep DEF Framed
  <2>2. CloseAt(p)'
    <3>0. CloseAt(p) /\ LedgerFile(ledger)
      BY DEF CloseInv, Filed
    <3>1. CASE Load(p) /\ pc'[p] \in {"gates", "scan"}
      <4>1. snap'[p] = run /\ run' = run
        BY <3>1 DEF Load, Shape, shared
      <4> QED BY <3>1, <4>1 DEF CloseAt
    <3>2. CASE FirstGates(p) /\ pc'[p] \in {"instruments", "last gates"}
      <4>1. ~Ends(p)
        BY <3>2, EndsFrame
      <4>2. /\ UNCHANGED <<run, ledger, cmd, snap, late>> /\ pc[p] = "gates"
            /\ GatesBefore(snap[p], ledger, cmd[p].force) = "none"
        BY <3>2, <4>1 DEF FirstGates, local, hist
      <4>3. ASSUME ~cmd[p].force
            PROVE  snap[p].blocks = {} /\ Passes(p)'
        <5>1. GatesBefore(snap[p], ledger, FALSE) = "none"
          BY <4>2, <4>3 DEF GatesBefore
        <5> QED BY <3>0, <4>2, <5>1, FirstGatesPass DEF Passes
      <4> QED BY <3>0, <3>2, <4>2, <4>3 DEF CloseAt
    <3>3. CASE Instruments(p) /\ pc'[p] = "last gates"
      <4>1. ~Ends(p)
        BY <3>3, EndsFrame
      <4>2. UNCHANGED <<run, ledger, cmd, snap, late>> /\ pc[p] = "instruments"
        BY <3>3, <4>1 DEF Instruments, local, hist
      <4> QED BY <3>0, <3>3, <4>2 DEF CloseAt, Passes
    <3>4. CASE LastGates(p) /\ pc'[p] = "close"
      <4>1. ~Ends(p)
        BY <3>4, EndsFrame
      <4>2. /\ UNCHANGED <<run, ledger, cmd, snap, late>> /\ pc[p] = "last gates"
            /\ \E allow \in BOOLEAN :
                 GatesAfter(snap[p], ledger, cmd[p].force, cmd[p].dirty, allow) = "none"
        BY <3>4, <4>1 DEF LastGates, local, hist
      <4>3. ASSUME ~cmd[p].force
            PROVE  Unverified(snap[p]) = {} /\ Audited(p)'
        <5>1. PICK allow \in BOOLEAN :
                GatesAfter(snap[p], ledger, FALSE, cmd[p].dirty, allow) = "none"
          BY <4>2, <4>3 DEF GatesAfter
        <5> QED BY <4>2, <5>1, LastGatesPass DEF Audited
      <4>4. Passes(p) => Passes(p)'
        BY <4>2 DEF Passes
      <4> QED BY <3>0, <3>4, <4>2, <4>3, <4>4 DEF CloseAt
    <3>5. CASE pc'[p] \notin {"gates", "instruments", "last gates", "close"}
      BY <3>5 DEF CloseAt
    <3> QED BY <2>1, <3>1, <3>2, <3>3, <3>4, <3>5 DEF Leads, Elsewhere
  <2>3. ASSUME NEW q \in Proc \ {p} PROVE CloseAt(q)'
    BY <1>1, <2>1, <2>3 DEF Mine
  <2> QED BY <2>2, <2>3 DEF CloseInv
<1> QED BY <1>2, <1>3

\* What save_run finds when an unforced closeout closes the run.
LEMMA CloseFacts ==
  ASSUME Filed, CloseInv, NEW p \in Proc, pc[p] = "close", ~cmd[p].force
  PROVE  /\ Owed(run) \subseteq late[p]
         /\ NewRound \in late[p] \/ Ok(EvaluateLedger(Rows, FALSE))
         /\ NewRound \in late[p] \/ ~snap[p].high \/ EvaluateLedger(Rows, FALSE) = "CONVERGED"
<1>1. /\ Owed(run) \subseteq Owed(snap[p]) \cup late[p]
      /\ snap[p].blocks = {} /\ Unverified(snap[p]) = {}
      /\ Passes(p) /\ Audited(p)
  BY DEF CloseInv, CloseAt
<1>2. Owed(snap[p]) = {}
  BY <1>1 DEF Owed
<1>3. ledger.rows # << >> => EvaluateLedger(ledger.rows, FALSE) # "NO_OBSERVATIONS"
  <2>1. Len(ledger.rows) \in Nat /\ (Len(ledger.rows) = 0 => ledger.rows = << >>)
    BY DEF Filed, LedgerFile
  <2> QED BY <2>1, EvaluateEmpty
<1> QED BY <1>1, <1>2, <1>3 DEF Passes, Audited, Ok, Rows, ParseLedger

\* An unforced closeout closes a run over nothing that was on disk when it
\* loaded the state: what stands against closing arrived afterwards, and
\* unless a round was written since, the ledger passes and a high-risk run
\* has been audited down to zero.
THEOREM CloseEarnedTheorem == Spec => CloseEarned
<1>1. Init => CloseInv
  BY DEF Init, CloseInv, CloseAt
<1>2. KeptInv => Shape /\ Filed
  BY DEF KeptInv, RowInv
<1>3. KeptInv /\ CloseInv /\ [Next]_vars => CloseInv'
  BY <1>2, CloseStep
<1>4. Spec => [](KeptInv /\ CloseInv)
  BY <1>1, <1>3, KeptHolds, PTL DEF Spec
<1>5. KeptInv /\ CloseInv /\ [Next]_vars =>
        [\A p \in Proc :
           (pc[p] = "close" /\ pc'[p] = "register" /\ ~cmd[p].force) =>
             /\ Owed(run) \subseteq late[p]
             /\ NewRound \in late[p] \/ Ok(EvaluateLedger(Rows, FALSE))
             /\ NewRound \in late[p] \/ ~snap[p].high
                  \/ EvaluateLedger(Rows, FALSE) = "CONVERGED"]_vars
  BY <1>2, CloseFacts
<1> QED BY <1>4, <1>5, PTL DEF Spec, CloseEarned

=============================================================================
