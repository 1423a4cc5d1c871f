----------------------------- MODULE MCDispatch -----------------------------
(* Instances of Dispatch for TLC.                                          *)
EXTENDS Dispatch, TLC

\* The windows are alike; of the dispatching commands one may close its window.
WindowSymmetry == Permutations(Window)
=============================================================================
