---------------------------- MODULE MCAutopilot ----------------------------
(* Instance of Autopilot for TLC: one harmless command, one that uses the   *)
(* network and so is held in an autonomous pass.                            *)
EXTENDS Autopilot, TLC

CONSTANTS Local, Net, t1, t2

MCEffect == (Local :> "reversible") @@ (Net :> "network")
MCModes  == {<<"brief", "sandbox">>, <<"auto_exec", "tmux">>, <<"autonomous", "sandbox">>}
MCBacklogs == {t1 :> Local, (t1 :> Local) @@ (t2 :> Net)}
Symmetry == Permutations(Proc)
=============================================================================
