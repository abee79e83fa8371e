--------------------------- MODULE MCTurnWaiters ---------------------------
(***************************************************************************)
(* TurnWaiters for TLC: two turns, so that a stale tool or a late answer   *)
(* meets a next turn, and two requests, so that two share a key.           *)
(***************************************************************************)
EXTENDS TurnWaiters
=============================================================================
