----------------------------- MODULE MCEventLog -----------------------------
(* Instances of EventLog for TLC.                                          *)
EXTENDS EventLog, TLC

\* A kill anywhere except between truncating and rewriting the counter.
CrashKeepsCounter == EmitSteps \ {"counter"}
CrashAnywhere == EmitSteps

NoFaults == {}
\* Calls that may fail without truncating the counter or tearing a line.
CleanFaults == {"owner", "append"}
AnyFaults == FaultKinds

ProcSymmetry == Permutations(Proc)
=============================================================================
