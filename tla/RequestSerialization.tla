------------------------ MODULE RequestSerialization ------------------------
(***************************************************************************)
(* The app server's request queues (app-server/src/request_serialization.rs)*)
(* and connection gates (connection_rpc_gate.rs).  Requests that name the   *)
(* same resource share a queue with one drain task; exclusive requests run  *)
(* alone, neighbouring shared reads run together, and a closed connection's *)
(* queued requests are skipped.                                             *)
(***************************************************************************)
EXTENDS Naturals, Sequences

CONSTANTS
    Requests,   \* each arrives at most once
    Keys,       \* RequestSerializationQueueKey
    Conns,      \* connections, each with a ConnectionRpcGate
    KeyOf,      \* the queue of a request; NoKey: not serialized
    Shared,     \* the requests with RequestSerializationAccess::SharedRead
    ConnOf,     \* the connection of a request; NoConn: background work
    AwaitOf,    \* background work a handler enqueues and awaits, or NoRequest
    NoKey, NoConn, NoRequest

Children == {AwaitOf[r] : r \in Requests} \ {NoRequest}

ASSUME RequestsAssumption ==
    /\ NoKey \notin Keys /\ NoConn \notin Conns /\ NoRequest \notin Requests
    /\ Shared \subseteq Requests
    /\ KeyOf \in [Requests -> Keys \cup {NoKey}]
    /\ ConnOf \in [Requests -> Conns \cup {NoConn}]
    /\ AwaitOf \in [Requests -> Requests \cup {NoRequest}]
    \* plugin/reconcile, the only handler that awaits queued work, is itself
    \* not serialized, and what it queues is background work.
    /\ \A r \in Requests : AwaitOf[r] # NoRequest =>
          /\ KeyOf[r] = NoKey
          /\ KeyOf[AwaitOf[r]] # NoKey /\ ConnOf[AwaitOf[r]] = NoConn
    /\ \A r, q \in Requests :
          AwaitOf[r] = AwaitOf[q] /\ AwaitOf[r] # NoRequest => r = q

VARIABLES
    queue,      \* key -> VecDeque of requests not taken yet
    drainer,    \* key -> where the drain task is; "none": no map entry
    batch,      \* key -> requests the drain task is running
    permit,     \* key -> the Notify of the entry holds a permit
    state,      \* request -> how far it is
    order,      \* key -> every request ever enqueued, in order (auxiliary)
    gate        \* connection -> ConnectionRpcGate and its shutdown

vars == <<queue, drainer, batch, permit, state, order, gate>>

RequestStates == {"new", "queued", "launched", "running", "awaiting", "done",
                  "skipped"}
DrainerStates == {"none", "pop", "exclusive", "reads", "admit"}
GateStates    == {"accepting", "closed", "drained", "abandoned"}

\* The type of the queues; a drain task is in its running states exactly while
\* it has requests to run.
TypeOK ==
    /\ queue \in [Keys -> Seq(Requests)]
    /\ drainer \in [Keys -> DrainerStates]
    /\ batch \in [Keys -> SUBSET Requests]
    /\ permit \in [Keys -> BOOLEAN]
    /\ state \in [Requests -> RequestStates]
    /\ order \in [Keys -> Seq(Requests)]
    /\ gate \in [Conns -> GateStates]
    /\ \A k \in Keys : batch[k] # {} <=> drainer[k] \in {"exclusive", "reads", "admit"}

Init ==
    /\ queue = [k \in Keys |-> <<>>]
    /\ drainer = [k \in Keys |-> "none"]
    /\ batch = [k \in Keys |-> {}]
    /\ permit = [k \in Keys |-> FALSE]
    /\ state = [r \in Requests |-> "new"]
    /\ order = [k \in Keys |-> <<>>]
    /\ gate = [c \in Conns |-> "accepting"]

(***************************************************************************)
(* enqueue: under the map's lock, push and notify, or insert a new queue   *)
(* whose drain task is spawned at once.                                    *)
(***************************************************************************)
\* Mutant: a request pushed to an existing queue notifies nobody.
EnqueueSilently(k, r) ==
    /\ order' = [order EXCEPT ![k] = Append(@, r)]
    /\ queue' = [queue EXCEPT ![k] = Append(@, r)]
    /\ drainer' = [drainer EXCEPT ![k] = IF @ = "none" THEN "pop" ELSE @]
    /\ UNCHANGED <<permit, batch, gate>>

Enqueue(k, r) ==
    /\ order' = [order EXCEPT ![k] = Append(@, r)]
    /\ IF drainer[k] # "none"
       THEN /\ queue' = [queue EXCEPT ![k] = Append(@, r)]
            /\ permit' = [permit EXCEPT ![k] = TRUE]
            /\ UNCHANGED drainer
       ELSE /\ queue' = [queue EXCEPT ![k] = <<r>>]
            /\ permit' = [permit EXCEPT ![k] = FALSE]
            /\ drainer' = [drainer EXCEPT ![k] = "pop"]
    /\ UNCHANGED <<batch, gate>>

\* A client request, or background work nobody awaits, arrives.
EnqueueRequest(r) ==
    /\ state[r] = "new" /\ r \notin Children
    /\ KeyOf[r] # NoKey
    /\ Enqueue(KeyOf[r], r)
    /\ state' = [state EXCEPT ![r] = "queued"]

\* A request without a serialization scope runs in a task of its own.
SpawnRequest(r) ==
    /\ state[r] = "new" /\ r \notin Children
    /\ KeyOf[r] = NoKey
    /\ state' = [state EXCEPT ![r] = "launched"]
    /\ UNCHANGED <<queue, drainer, batch, permit, order, gate>>

\* A running handler enqueues background work and waits for its completion.
EnqueueBackground(r) ==
    LET b == AwaitOf[r]
    IN /\ state[r] = "running" /\ b # NoRequest /\ state[b] = "new"
       /\ Enqueue(KeyOf[b], b)
       /\ state' = [state EXCEPT ![r] = "awaiting", ![b] = "queued"]

(***************************************************************************)
(* drain: the task of one queue.                                           *)
(***************************************************************************)

\* Mutant: everything queued behind a read is taken with it.
LeadingReadsAll(q) == Len(q)

\* The number of shared reads at the front of a queue.
LeadingReads(q) ==
    CHOOSE n \in 0..Len(q) :
        /\ \A i \in 1..n : q[i] \in Shared
        /\ n < Len(q) => q[n + 1] \notin Shared

\* Mutant: the requests are read from the queue but not taken out of it.
LaunchPeeks(k, n, next) ==
    LET taken == {queue[k][i] : i \in 1..n}
    IN /\ batch' = [batch EXCEPT ![k] = @ \cup taken]
       /\ state' = [r \in Requests |-> IF r \in taken THEN "launched"
                                       ELSE state[r]]
       /\ drainer' = [drainer EXCEPT ![k] = next]
       /\ UNCHANGED queue

Launch(k, n, next) ==
    LET taken == {queue[k][i] : i \in 1..n}
    IN /\ queue' = [queue EXCEPT ![k] = SubSeq(@, n + 1, Len(@))]
       /\ batch' = [batch EXCEPT ![k] = @ \cup taken]
       /\ state' = [r \in Requests |-> IF r \in taken THEN "launched"
                                       ELSE state[r]]
       /\ drainer' = [drainer EXCEPT ![k] = next]

\* The head of the loop with the map locked: an empty queue is removed with
\* the lock held, so no later request can be pushed to it unseen.
RemoveQueue(k) ==
    /\ drainer[k] = "pop" /\ queue[k] = <<>>
    /\ drainer' = [drainer EXCEPT ![k] = "none"]
    /\ UNCHANGED <<queue, batch, permit, state, order, gate>>

PopExclusive(k) ==
    /\ drainer[k] = "pop" /\ queue[k] # <<>>
    /\ Head(queue[k]) \notin Shared
    /\ Launch(k, 1, "exclusive")
    /\ UNCHANGED <<permit, order, gate>>

PopReads(k) ==
    /\ drainer[k] = "pop" /\ queue[k] # <<>>
    /\ Head(queue[k]) \in Shared
    /\ Launch(k, LeadingReads(queue[k]), "reads")
    /\ UNCHANGED <<permit, order, gate>>

\* select!: changed.notified() consumes the permit; until the map's lock is
\* acquired the running reads are not polled.
WakeForReads(k) ==
    /\ drainer[k] = "reads" /\ permit[k]
    /\ permit' = [permit EXCEPT ![k] = FALSE]
    /\ drainer' = [drainer EXCEPT ![k] = "admit"]
    /\ UNCHANGED <<queue, batch, state, order, gate>>

\* Mutant: the wake-up is consumed but the waiting reads are not admitted.
AdmitNoReads(k) ==
    /\ drainer[k] = "admit"
    /\ drainer' = [drainer EXCEPT ![k] = "reads"]
    /\ UNCHANGED <<queue, batch, permit, state, order, gate>>

AdmitReads(k) ==
    /\ drainer[k] = "admit"
    /\ Launch(k, LeadingReads(queue[k]), "reads")
    /\ UNCHANGED <<permit, order, gate>>

\* Mutant: the drain task does not notice that its last request ended.
CollectStays(k, r) ==
    /\ drainer[k] \in {"exclusive", "reads"}
    /\ r \in batch[k] /\ state[r] \in {"done", "skipped"}
    /\ batch' = [batch EXCEPT ![k] = @ \ {r}]
    /\ UNCHANGED <<queue, drainer, permit, state, order, gate>>

\* select!: running_reads.next(), or the exclusive request's await, returns.
Collect(k, r) ==
    /\ drainer[k] \in {"exclusive", "reads"}
    /\ r \in batch[k] /\ state[r] \in {"done", "skipped"}
    /\ batch' = [batch EXCEPT ![k] = @ \ {r}]
    /\ drainer' = [drainer EXCEPT ![k] = IF batch[k] = {r} THEN "pop" ELSE @]
    /\ UNCHANGED <<queue, permit, state, order, gate>>

(***************************************************************************)
(* QueuedInitializedRequest::run and ConnectionRpcGate::run.  A queued     *)
(* request makes progress only while its drain task polls it.              *)
(***************************************************************************)
Polled(r) == KeyOf[r] # NoKey => drainer[KeyOf[r]] \in {"exclusive", "reads"}

\* Mutant: the connection's gate is not consulted.
StartUngated(r) ==
    /\ state[r] = "launched" /\ Polled(r)
    /\ state' = [state EXCEPT ![r] = "running"]
    /\ UNCHANGED <<queue, drainer, batch, permit, order, gate>>

\* Mutant: a request of a closed connection waits instead of being skipped.
StartBlocks(r) ==
    /\ state[r] = "launched" /\ Polled(r)
    /\ ConnOf[r] # NoConn => gate[ConnOf[r]] = "accepting"
    /\ state' = [state EXCEPT ![r] = "running"]
    /\ UNCHANGED <<queue, drainer, batch, permit, order, gate>>

Start(r) ==
    /\ state[r] = "launched" /\ Polled(r)
    /\ state' = [state EXCEPT ![r] =
                    IF ConnOf[r] # NoConn /\ gate[ConnOf[r]] # "accepting"
                    THEN "skipped" ELSE "running"]
    /\ UNCHANGED <<queue, drainer, batch, permit, order, gate>>

\* The background work completed; its sender wakes the handler.
Resume(r) ==
    /\ state[r] = "awaiting" /\ state[AwaitOf[r]] = "done"
    /\ state' = [state EXCEPT ![r] = "running"]
    /\ UNCHANGED <<queue, drainer, batch, permit, order, gate>>

Finish(r) ==
    /\ state[r] = "running" /\ Polled(r)
    /\ AwaitOf[r] # NoRequest => state[AwaitOf[r]] # "new"
    /\ state' = [state EXCEPT ![r] = "done"]
    /\ UNCHANGED <<queue, drainer, batch, permit, order, gate>>

(***************************************************************************)
(* Closing a connection: the gate is closed first, then shutdown waits for *)
(* the tokens, for at most CONNECTION_RPC_DRAIN_TIMEOUT.                   *)
(***************************************************************************)
HoldsToken(r) == state[r] \in {"running", "awaiting"}

CloseGate(c) ==
    /\ gate[c] = "accepting"
    /\ gate' = [gate EXCEPT ![c] = "closed"]
    /\ UNCHANGED <<queue, drainer, batch, permit, state, order>>

ShutdownGate(c) ==
    /\ gate[c] = "closed"
    /\ \A r \in Requests : ConnOf[r] = c => ~HoldsToken(r)
    /\ gate' = [gate EXCEPT ![c] = "drained"]
    /\ UNCHANGED <<queue, drainer, batch, permit, state, order>>

DrainTimeout(c) ==
    /\ gate[c] = "closed"
    /\ gate' = [gate EXCEPT ![c] = "abandoned"]
    /\ UNCHANGED <<queue, drainer, batch, permit, state, order>>

(***************************************************************************)
(* The specification.                                                      *)
(***************************************************************************)
DrainStep(k) ==
    \/ RemoveQueue(k) \/ PopExclusive(k) \/ PopReads(k)
    \/ WakeForReads(k) \/ AdmitReads(k)
    \/ \E r \in Requests : Collect(k, r)

Next ==
    \/ \E r \in Requests : EnqueueRequest(r) \/ SpawnRequest(r)
    \/ \E r \in Requests : EnqueueBackground(r) \/ Start(r) \/ Resume(r) \/ Finish(r)
    \/ \E k \in Keys : DrainStep(k)
    \/ \E c \in Conns : CloseGate(c) \/ ShutdownGate(c) \/ DrainTimeout(c)

Spec == Init /\ [][Next]_vars

\* The runtime polls ready tasks; select! polls its branches fairly, so a
\* held permit is consumed even while reads keep completing.
DrainFairness ==
    /\ \A k \in Keys : WF_vars(DrainStep(k)) /\ WF_vars(WakeForReads(k))
    /\ \A r \in Requests : WF_vars(Start(r)) /\ WF_vars(EnqueueBackground(r))

\* Handlers return; this is assumed only where a property says so.
HandlerFairness == \A r \in Requests : WF_vars(Finish(r)) /\ WF_vars(Resume(r))

DrainSpec == Spec /\ DrainFairness

(***************************************************************************)
(* Properties.                                                             *)
(***************************************************************************)
Ended(r) == state[r] \in {"done", "skipped"}
Begun(r) == state[r] \in {"running", "awaiting", "done", "skipped"}

\* Requests of one key take effect in arrival order: unless both are shared
\* reads, the later one does not begin before the earlier one has ended.  In
\* particular an exclusive request never overlaps another request, and no
\* read overtakes a queued exclusive request.
SerialOrder ==
    \A k \in Keys : \A i, j \in DOMAIN order[k] :
        (i < j /\ {order[k][i], order[k][j]} \cap (Requests \ Shared) # {}) =>
            (Begun(order[k][j]) => Ended(order[k][i]))

\* How far a request is, seen from outside the queues.
Phase ==
    [r \in Requests |-> CASE state[r] \in {"queued", "launched"} -> "waiting"
                          [] state[r] \in {"running", "awaiting"} -> "running"
                          [] OTHER -> state[r]]

Service == INSTANCE SerialService WITH phase <- Phase

\* The queues, their drain tasks and the gates implement the serial service:
\* a request begins only when the conflicting requests that arrived before it
\* have ended, begins once, and is never lost or reordered on the way.
ImplementsService == Service!ServiceSpec

\* A request in a queue always has a drain task, and a read at the front of a
\* queue whose reads are running has a wake-up coming.
NoOrphanedRequest ==
    \A k \in Keys :
        /\ queue[k] # <<>> => drainer[k] # "none"
        /\ (drainer[k] = "reads" /\ queue[k] # <<>> /\ Head(queue[k]) \in Shared)
              => permit[k]

\* Once a connection's gate has drained, none of its handlers runs again.
DrainedGateIsQuiet ==
    \A c \in Conns : gate[c] = "drained" =>
        \A r \in Requests : ConnOf[r] = c => ~HoldsToken(r)

\* Every request that was queued is eventually answered or skipped, provided
\* that handlers return.
EveryRequestEnds ==
    HandlerFairness => \A r \in Requests : state[r] = "queued" ~> Ended(r)

\* A read joins the reads that are running without waiting for any of them:
\* this needs no handler to return.
ReadsJoin ==
    \A k \in Keys, r \in Requests :
        (drainer[k] = "reads" /\ queue[k] # <<>> /\ Head(queue[k]) = r
            /\ r \in Shared) ~> state[r] # "queued"
=============================================================================
