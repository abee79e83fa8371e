--------------------------- MODULE SerialService ---------------------------
(***************************************************************************)
(* What the app server's request queues promise, without queues, drain     *)
(* tasks, notifications or gates: the requests that name a resource take   *)
(* effect in the order in which they arrived, shared reads excepted, and   *)
(* every request is answered or skipped at most once.                      *)
(***************************************************************************)
EXTENDS Naturals, Sequences

CONSTANTS Requests, Keys, KeyOf, Shared, NoKey

VARIABLES
    order,   \* key -> the requests that arrived for it, in order
    phase    \* request -> how far it is

svars == <<order, phase>>

ServiceInit ==
    /\ order = [k \in Keys |-> <<>>]
    /\ phase = [r \in Requests |-> "new"]

\* A request arrives; one that names a resource gets its place in line.
Arrive(r) ==
    /\ phase[r] = "new"
    /\ phase' = [phase EXCEPT ![r] = "waiting"]
    /\ order' = IF KeyOf[r] = NoKey THEN order
                ELSE [order EXCEPT ![KeyOf[r]] = Append(@, r)]

\* Every earlier request of the resource has ended, or both only read.
MayBegin(r) ==
    KeyOf[r] # NoKey =>
        \A i, j \in DOMAIN order[KeyOf[r]] :
            (i < j /\ order[KeyOf[r]][j] = r) =>
                \/ phase[order[KeyOf[r]][i]] \in {"done", "skipped"}
                \/ r \in Shared /\ order[KeyOf[r]][i] \in Shared

\* The handler starts, or the request is skipped because its client left.
Begin(r) ==
    /\ phase[r] = "waiting" /\ MayBegin(r)
    /\ \E p \in {"running", "skipped"} : phase' = [phase EXCEPT ![r] = p]
    /\ UNCHANGED order

End(r) ==
    /\ phase[r] = "running"
    /\ phase' = [phase EXCEPT ![r] = "done"]
    /\ UNCHANGED order

ServiceNext == \E r \in Requests : Arrive(r) \/ Begin(r) \/ End(r)

ServiceSpec == ServiceInit /\ [][ServiceNext]_svars
=============================================================================
