---------------------------- MODULE EventStream -----------------------------
(***************************************************************************)
(* What the event log of a run promises to the commands that emit into it: *)
(* an emit takes effect at one instant, by putting one event with a larger *)
(* id than every event before it at the end of the stream, or not at all;  *)
(* nothing is ever removed or changed.                                     *)
(***************************************************************************)
EXTENDS Naturals, Sequences

CONSTANT Request          \* the emits that may be asked for

VARIABLES stream,         \* the events, each with a field by and a field id
          status          \* request -> "none", "pending", "ok" or "failed"

svars == <<stream, status>>

Init ==
  /\ stream = << >>
  /\ status = [r \in Request |-> "none"]

Ask(r) ==
  /\ status[r] = "none"
  /\ status' = [status EXCEPT ![r] = "pending"]
  /\ UNCHANGED stream

Commit(r) ==
  /\ status[r] = "pending"
  /\ Len(stream') = Len(stream) + 1
  /\ LET e == stream'[Len(stream')] IN
       /\ stream' = Append(stream, e)
       /\ e.by = r
       /\ e.id \in Nat
       /\ \A i \in 1 .. Len(stream) : stream[i].id < e.id
  /\ status' = [status EXCEPT ![r] = "ok"]

Fail(r) ==
  /\ status[r] = "pending"
  /\ status' = [status EXCEPT ![r] = "failed"]
  /\ UNCHANGED stream

Next == \E r \in Request : Ask(r) \/ Commit(r) \/ Fail(r)

Spec == Init /\ [][Next]_svars
=============================================================================
