---------------------------- MODULE MCRolloutLog ----------------------------
(***************************************************************************)
(* Small instances of RolloutLog for TLC.  Metadata updates append to the  *)
(* rollout only in Legacy mode, and share its file with the live recorder. *)
(***************************************************************************)
EXTENDS RolloutLog, TLC

Symmetry == Permutations(Items)

\* Both modes: faults and a crash while items are written with ordinals; a
\* crash, a discarded recorder and a metadata update without them.
BothBounds ==
    [m \in Modes |-> IF m = "Paginated"
                     THEN [faults |-> 2, crashes |-> 1, updates |-> 0,
                           ops |-> {"Cancel"}]
                     ELSE [faults |-> 0, crashes |-> 1, updates |-> 1,
                           ops |-> {"Cancel", "Discard"}]]

\* The ordinals run out: one fault and one crash suffice.
LimitBounds ==
    [m \in Modes |-> [faults |-> 1, crashes |-> 1, updates |-> 0,
                      ops |-> {"Cancel"}]]
=============================================================================
