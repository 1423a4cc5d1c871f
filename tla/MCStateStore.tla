---------------------------- MODULE MCStateStore ----------------------------
(* Instances of StateStore for TLC.                                        *)
EXTENDS StateStore

AllCommands == LockedKinds \cup UnlockedKinds
=============================================================================
