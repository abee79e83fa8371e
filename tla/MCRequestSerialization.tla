----------------------- MODULE MCRequestSerialization -----------------------
(***************************************************************************)
(* An instance of RequestSerialization: the config queue with a writer and *)
(* two readers of two connections, and plugin/reconcile, which is not      *)
(* serialized and awaits the config write it queues.                       *)
(***************************************************************************)
EXTENDS RequestSerialization

CONSTANTS config, c1, c2, w1, r1, r2, plugin, trust

MCRequests == {w1, r1, r2, plugin, trust}
MCKeyOf == [r \in Requests |-> IF r = plugin THEN NoKey ELSE config]
MCShared == Requests \cap {r1, r2}
MCConnOf == [r \in Requests |-> CASE r = trust -> NoConn
                                  [] r \in {w1, r1, plugin} -> c1
                                  [] OTHER -> c2]
MCAwaitOf == [r \in Requests |-> IF r = plugin THEN trust ELSE NoRequest]
=============================================================================
