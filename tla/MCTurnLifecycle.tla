-------------------------- MODULE MCTurnLifecycle --------------------------
(***************************************************************************)
(* Small instances of TurnLifecycle for TLC.                               *)
(***************************************************************************)
EXTENDS TurnLifecycle, TLC

Symmetry == Permutations(UserInputs)
=============================================================================
