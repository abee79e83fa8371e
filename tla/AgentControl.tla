---------------------------- MODULE AgentControl ----------------------------
(***************************************************************************)
(* The agents of one session: the registry of names and spawn slots        *)
(* (core/src/agent/registry.rs), the residency list that keeps the number  *)
(* of loaded V2 agents down by unloading the least recently used idle one  *)
(* (agent/control/residency.rs), and the tool calls that spawn, message,   *)
(* reload, resume and close agents (agent/control/spawn.rs, legacy.rs,     *)
(* control.rs) over the thread manager's map (thread_manager.rs).  Every   *)
(* lock section or await of a call is a step of its own.                   *)
(***************************************************************************)
EXTENDS Naturals, Sequences, FiniteSets

CONSTANTS
    Agents,      \* thread ids of sub-agents
    Paths,       \* agent paths (V2); a V1 agent is keyed by its thread id
    Callers,     \* tool calls and client requests in flight at a time
    Versions,    \* the MultiAgentVersions to consider
    MaxThreads,  \* effective_agent_max_threads
    StoredPath,  \* the path of an agent of an earlier process, or NoPath
    MaxStarts,   \* bound: runtimes started per agent
    MaxUnloads,  \* bound: agents unloaded by the app server
    MaxCalls,    \* bound: calls made
    NoAgent, NoPath, Reserved

Keys == Paths \cup Agents

ASSUME AgentsAssumption ==
    /\ IsFiniteSet(Agents) /\ IsFiniteSet(Callers)
    /\ Paths \cap Agents = {}
    /\ {NoAgent, Reserved} \cap Agents = {} /\ NoAgent # Reserved
    /\ NoPath \notin Keys
    /\ Versions \subseteq {"V1", "V2"}
    /\ StoredPath \in [Agents -> Paths \cup {NoPath}]
    /\ MaxThreads \in Nat /\ MaxStarts \in Nat /\ MaxUnloads \in Nat
    /\ MaxCalls \in Nat

VARIABLES
    version,    \* the session's MultiAgentVersion
    tree,       \* agent_tree: key -> agent, Reserved (no agent_id yet) or NoAgent
    paths,      \* thread_paths: agent -> its key, or NoPath
    total,      \* total_count
    leaked,     \* counts that no release will return (auxiliary)
    runtime,    \* the manager's map; "busy": any live state that is not unloadable
    starts,     \* agent -> runtimes started for it (their identity)
    closing,    \* agents whose current runtime the app server is unloading
    unloads,    \* unloads begun by the app server (bound)
    residents,  \* V2ResidencyState
    pending,    \* V2ResidencyState
    call,       \* caller -> the call it is executing
    calls       \* calls begun (bound)

registry  == <<tree, paths, total, leaked>>
manager   == <<runtime, starts, closing, unloads>>
residency == <<residents, pending>>
vars == <<version, registry, manager, residency, call, calls>>

Operations == {"none", "Spawn", "Send", "Open", "Resume", "Close", "Bury"}
EvictionSteps == {"room", "count", "scan", "check", "touch", "unload", "evict"}
Steps == EvictionSteps \cup
    {"idle", "lookup", "known", "retouch", "number", "name", "start", "resume",
     "insert", "recheck", "register", "place", "deliver", "swap", "unslot",
     "unname", "uncount", "shutdown", "remove", "forget", "release"}

NoCall == [pc |-> "idle", op |-> "none", agent |-> NoAgent, name |-> NoPath,
           victim |-> NoAgent, held |-> 0, left |-> 0]

Registered == {a \in Agents : paths[a] # NoPath}
Live(a)    == runtime[a] \in {"busy", "idle"}

\* The type of the state; the residency list holds an agent at most once.
TypeOK ==
    /\ version \in Versions
    /\ tree \in [Keys -> Agents \cup {NoAgent, Reserved}]
    /\ paths \in [Agents -> Keys \cup {NoPath}]
    /\ total \in Nat /\ leaked \in Nat /\ pending \in Nat
    /\ runtime \in [Agents -> {"absent", "busy", "idle", "dead"}]
    /\ starts \in [Agents -> 0..MaxStarts]
    /\ closing \subseteq Agents /\ unloads \in 0..MaxUnloads /\ calls \in 0..MaxCalls
    /\ residents \in Seq(Agents)
    /\ \A i, j \in DOMAIN residents : residents[i] = residents[j] => i = j
    /\ call \in [Callers -> [pc : Steps, op : Operations,
                             agent : Agents \cup {NoAgent}, name : Paths \cup {NoPath},
                             victim : Agents \cup {NoAgent}, held : Nat, left : Nat]]

\* The agents that existed before this process; only V2 restores them.
Stored == {a \in Agents : version = "V2" /\ StoredPath[a] # NoPath}

\* restore_v2_agent_metadata: before the resumed root session exists, the
\* agents of the earlier process are registered, not loaded.  One that cannot
\* be read, or whose path is taken, is left out.
RestoreMetadata(S) ==
    /\ \A a, b \in S : StoredPath[a] = StoredPath[b] => a = b
    /\ tree = [k \in Keys |-> IF \E a \in S : StoredPath[a] = k
                              THEN CHOOSE a \in S : StoredPath[a] = k ELSE NoAgent]
    /\ paths = [a \in Agents |-> IF a \in S THEN StoredPath[a] ELSE NoPath]
    /\ total = Cardinality(S)

Init ==
    /\ version \in Versions
    /\ \E S \in SUBSET Stored : RestoreMetadata(S)
    /\ leaked = 0
    /\ runtime = [a \in Agents |-> "absent"]
    /\ starts = [a \in Agents |-> 0]
    /\ closing = {} /\ unloads = 0
    /\ residents = <<>> /\ pending = 0
    /\ call = [c \in Callers |-> NoCall] /\ calls = 0

Goto(c, l) == call' = [call EXCEPT ![c].pc = l]
Return(c)  == call' = [call EXCEPT ![c] = NoCall]

(***************************************************************************)
(* The calls.  A check that fails before anything changed is not a step.   *)
(***************************************************************************)
Begin(c, operation, a, p, first) ==
    /\ call[c].pc = "idle" /\ calls < MaxCalls
    /\ calls' = calls + 1
    /\ call' = [call EXCEPT ![c].pc = first, ![c].op = operation,
                            ![c].agent = a, ![c].name = p]
    /\ UNCHANGED <<version, registry, manager, residency>>

\* spawn_agent: V2 needs a residency slot first, V1 only a spawn slot.
SpawnAgent(c) ==
    \/ /\ version = "V2"
       /\ \E p \in Paths : Begin(c, "Spawn", NoAgent, p, "room")
    \/ /\ version = "V1"
       /\ Begin(c, "Spawn", NoAgent, NoPath, "number")

\* send_message, followup_task: the target is a registered agent.  V1's
\* send_input goes straight to the thread.
SendMessage(c, a) ==
    \/ version = "V2" /\ a \in Registered /\ Begin(c, "Send", a, NoPath, "lookup")
    \/ version = "V1" /\ runtime[a] # "absent" /\ Begin(c, "Send", a, NoPath, "deliver")

\* ensure_multi_agent_v2_child_loaded: a client opens an agent's thread.
OpenChild(c, a) ==
    /\ version = "V2" /\ starts[a] > 0
    /\ Begin(c, "Open", a, NoPath, "known")

\* resume_agent acts only on an agent whose status is NotFound.
ResumeAgent(c, a) ==
    /\ version = "V1" /\ starts[a] > 0 /\ runtime[a] = "absent"
    /\ Begin(c, "Resume", a, NoPath, "number")

CloseAgent(c, a) ==
    /\ version = "V1" /\ starts[a] > 0
    /\ Begin(c, "Close", a, NoPath, "shutdown")

(***************************************************************************)
(* reserve_slot: take a residency slot, or unload a resident and try again.*)
(***************************************************************************)
\* Mutant: only the promised slots are counted.
TryReservePromised(c) ==
    /\ call[c].pc = "room"
    /\ IF pending >= MaxThreads
       THEN /\ Goto(c, "count") /\ UNCHANGED pending
       ELSE /\ pending' = pending + 1
            /\ Goto(c, IF call[c].op = "Spawn" THEN "number" ELSE "resume")
    /\ UNCHANGED <<version, registry, manager, residents>>

TryReservePendingSlot(c) ==
    /\ call[c].pc = "room"
    /\ IF Len(residents) + pending >= MaxThreads
       THEN /\ Goto(c, "count") /\ UNCHANGED pending
       ELSE /\ pending' = pending + 1
            /\ Goto(c, IF call[c].op = "Spawn" THEN "number" ELSE "resume")
    /\ UNCHANGED <<version, registry, manager, residents>>

CountResidents(c) ==
    /\ call[c].pc = "count"
    /\ call' = [call EXCEPT ![c].pc = "scan", ![c].left = Len(residents)]
    /\ UNCHANGED <<version, registry, manager, residency>>

\* The agent being reloaded is protected: it is moved to the back instead.
Candidates(c) == {i \in DOMAIN residents : residents[i] # call[c].agent}

\* Mutant: the scan is not limited to the residents counted at its start.
PopForever(c) ==
    /\ call[c].pc = "scan" /\ Candidates(c) # {}
    /\ LET i == CHOOSE i \in Candidates(c) : \A j \in Candidates(c) : i <= j
       IN /\ residents' = SubSeq(residents, i + 1, Len(residents))
                             \o SubSeq(residents, 1, i - 1)
          /\ call' = [call EXCEPT ![c].pc = "check", ![c].victim = residents[i]]
    /\ UNCHANGED <<version, registry, manager, pending>>

PopLruCandidate(c) ==
    /\ call[c].pc = "scan" /\ call[c].left > 0 /\ Candidates(c) # {}
    /\ LET i == CHOOSE i \in Candidates(c) : \A j \in Candidates(c) : i <= j
       IN /\ residents' = SubSeq(residents, i + 1, Len(residents))
                             \o SubSeq(residents, 1, i - 1)
          /\ call' = [call EXCEPT ![c].pc = "check", ![c].victim = residents[i],
                                  ![c].left = @ - 1]
    /\ UNCHANGED <<version, registry, manager, pending>>

\* Nothing to unload: the call fails with AgentLimitReached.
LimitReached(c) ==
    /\ call[c].pc = "scan" /\ (call[c].left = 0 \/ Candidates(c) = {})
    /\ Return(c)
    /\ UNCHANGED <<version, registry, manager, residency>>

\* An agent that is not loaded is dropped from the list; a loaded one that
\* is working, has mail or was shut down is put back.
CheckCandidate(c) ==
    LET v == call[c].victim
    IN /\ call[c].pc = "check"
       /\ \/ runtime[v] = "absent" /\ Goto(c, "scan")
          \/ runtime[v] \in {"busy", "dead"} /\ Goto(c, "touch")
          \/ /\ runtime[v] = "idle"
             /\ call' = [call EXCEPT ![c].pc = "unload", ![c].held = starts[v]]
       /\ UNCHANGED <<version, registry, manager, residency>>

\* retain: the list without a, which is in it at most once (TypeOK).
Without(a) ==
    IF \E i \in DOMAIN residents : residents[i] = a
    THEN LET i == CHOOSE i \in DOMAIN residents : residents[i] = a
         IN SubSeq(residents, 1, i - 1) \o SubSeq(residents, i + 1, Len(residents))
    ELSE residents

\* Mutant: a resident is not taken from its old place.
TouchAgain(a) == Append(residents, a)

Touch(a) == Append(Without(a), a)

\* Mutant: a resident that cannot be unloaded is not put back.
ForgetCandidate(c) ==
    /\ call[c].pc = "touch"
    /\ Goto(c, "scan")
    /\ UNCHANGED <<version, registry, manager, residency>>

TouchCandidate(c) ==
    /\ call[c].pc = "touch"
    /\ residents' = Touch(call[c].victim)
    /\ Goto(c, "scan")
    /\ UNCHANGED <<version, registry, manager, pending>>

\* shutdown_and_wait ends the runtime that was checked, if it still is the
\* one in the map.
ShutdownCandidate(c) ==
    LET v == call[c].victim
    IN /\ call[c].pc = "unload"
       /\ runtime' = IF Live(v) /\ starts[v] = call[c].held
                     THEN [runtime EXCEPT ![v] = "dead"] ELSE runtime
       /\ Goto(c, "evict")
       /\ UNCHANGED <<version, registry, starts, closing, unloads, residency>>

\* remove_thread takes out whatever runtime the id has now.
RemoveCandidate(c) ==
    /\ call[c].pc = "evict"
    /\ runtime' = [runtime EXCEPT ![call[c].victim] = "absent"]
    /\ call' = [call EXCEPT ![c].pc = "room", ![c].victim = NoAgent,
                            ![c].held = 0, ![c].left = 0]
    /\ UNCHANGED <<version, registry, starts, closing, unloads, residency>>

EvictionStep(c) ==
    \/ TryReservePendingSlot(c) \/ CountResidents(c) \/ PopLruCandidate(c)
    \/ LimitReached(c) \/ CheckCandidate(c) \/ TouchCandidate(c)
    \/ ShutdownCandidate(c) \/ RemoveCandidate(c)

(***************************************************************************)
(* The registry: spawn slots and names.                                    *)
(***************************************************************************)
\* Mutant: an off-by-one in try_increment_spawned.
ReserveOneTooMany(c) ==
    /\ call[c].pc = "number"
    /\ IF version = "V1" /\ total > MaxThreads
       THEN Return(c) /\ UNCHANGED total
       ELSE /\ total' = total + 1
            /\ Goto(c, CASE call[c].op = "Resume" -> "resume"
                         [] version = "V2" -> "name"
                         [] OTHER -> "start")
    /\ UNCHANGED <<version, tree, paths, leaked, manager, residency>>

ReserveSpawnSlot(c) ==
    /\ call[c].pc = "number"
    /\ IF version = "V1" /\ total >= MaxThreads
       THEN Return(c) /\ UNCHANGED total
       ELSE /\ total' = total + 1
            /\ Goto(c, CASE call[c].op = "Resume" -> "resume"
                         [] version = "V2" -> "name"
                         [] OTHER -> "start")
    /\ UNCHANGED <<version, tree, paths, leaked, manager, residency>>

\* An occupied path fails the spawn: the reservation is dropped without it.
ReserveAgentPath(c) ==
    LET p == call[c].name
    IN /\ call[c].pc = "name"
       /\ IF tree[p] # NoAgent
          THEN /\ call' = [call EXCEPT ![c].pc = "uncount", ![c].name = NoPath]
               /\ UNCHANGED tree
          ELSE tree' = [tree EXCEPT ![p] = Reserved] /\ Goto(c, "start")
       /\ UNCHANGED <<version, paths, total, leaked, manager, residency>>

\* register_spawned_thread: an agent registered before loses its old key, an
\* agent displaced from the key loses its entry; neither count is returned.
Register(c) ==
    LET a == call[c].agent
        k == IF call[c].name = NoPath THEN a ELSE call[c].name
        old == paths[a]
        displaced == {b \in Agents \ {a} : tree[k] = b}
    IN /\ call[c].pc = "register"
       /\ tree' = [q \in Keys |-> IF q = k THEN a
                                  ELSE IF q = old THEN NoAgent ELSE tree[q]]
       /\ paths' = [b \in Agents |-> IF b = a THEN k
                                     ELSE IF b \in displaced THEN NoPath ELSE paths[b]]
       /\ leaked' = leaked + (IF old # NoPath THEN 1 ELSE 0) + Cardinality(displaced)
       /\ CASE version = "V2" -> Goto(c, "place")
            [] version = "V1" /\ call[c].op = "Spawn" -> Goto(c, "deliver")
            [] OTHER -> Return(c)
       /\ UNCHANGED <<version, total, manager, residency>>

\* Mutant: a dropped reservation keeps its path.
KeepReservedPath(c) ==
    /\ call[c].pc = "unname"
    /\ call' = [call EXCEPT ![c].pc = "uncount", ![c].name = NoPath]
    /\ UNCHANGED <<version, registry, manager, residency>>

\* Drop for SpawnReservation: release_reserved_agent_path, then the count.
ReleaseReservedPath(c) ==
    LET p == call[c].name
    IN /\ call[c].pc = "unname"
       /\ tree' = IF tree[p] = Reserved THEN [tree EXCEPT ![p] = NoAgent] ELSE tree
       /\ call' = [call EXCEPT ![c].pc = "uncount", ![c].name = NoPath]
       /\ UNCHANGED <<version, paths, total, leaked, manager, residency>>

\* Mutant: the count is returned even if another caller released the agent.
ReleaseTwice(c) ==
    LET a == call[c].agent
    IN /\ call[c].pc = "release"
       /\ paths' = [paths EXCEPT ![a] = NoPath]
       /\ tree' = [k \in Keys |-> IF k = paths[a] THEN NoAgent ELSE tree[k]]
       /\ IF total > 0 THEN Goto(c, "uncount") ELSE Return(c)
       /\ UNCHANGED <<version, total, leaked, manager, residency>>

\* release_spawned_thread, its lock section.
ReleaseSpawnedThread(c) ==
    LET a == call[c].agent
    IN /\ call[c].pc = "release"
       /\ paths' = [paths EXCEPT ![a] = NoPath]
       /\ tree' = [k \in Keys |-> IF k = paths[a] THEN NoAgent ELSE tree[k]]
       /\ IF paths[a] # NoPath /\ tree[paths[a]] # NoAgent
          THEN Goto(c, "uncount") ELSE Return(c)
       /\ UNCHANGED <<version, total, leaked, manager, residency>>

\* total_count.fetch_sub; a V2 spawn then drops its residency slot.
ReturnCount(c) ==
    /\ call[c].pc = "uncount"
    /\ total' = total - 1
    /\ IF version = "V2" /\ call[c].op = "Spawn" THEN Goto(c, "unslot") ELSE Return(c)
    /\ UNCHANGED <<version, tree, paths, leaked, manager, residency>>

RegistryStep(c) ==
    \/ ReserveSpawnSlot(c) \/ ReserveAgentPath(c) \/ Register(c)
    \/ ReleaseReservedPath(c) \/ ReleaseSpawnedThread(c) \/ ReturnCount(c)

(***************************************************************************)
(* The thread manager: starting, finding, reloading, removing runtimes.    *)
(***************************************************************************)
StartRuntime(a) ==
    /\ runtime' = [runtime EXCEPT ![a] = "busy"]
    /\ starts' = [starts EXCEPT ![a] = @ + 1]
    /\ closing' = closing \ {a}
    /\ UNCHANGED unloads

\* spawn_thread for a new agent: its id is new.
StartThread(c) ==
    /\ call[c].pc = "start"
    /\ \E a \in Agents :
          /\ starts[a] = 0 /\ a \notin Stored /\ 0 < MaxStarts
          /\ StartRuntime(a)
          /\ call' = [call EXCEPT ![c].pc = "register", ![c].agent = a]
    /\ UNCHANGED <<version, registry, residency>>

StartFails(c) ==
    /\ call[c].pc = "start"
    /\ Goto(c, IF version = "V2" THEN "unname" ELSE "uncount")
    /\ UNCHANGED <<version, registry, manager, residency>>

\* validate_loaded_v2_child: a client's request takes a running thread only.
Usable(c) == Live(call[c].agent) \/ (call[c].op # "Open" /\ runtime[call[c].agent] # "absent")

\* ensure_v2_agent_loaded asks the map and the registry, a client's request
\* in the other order.
LookupAgent(c) ==
    /\ call[c].pc = "lookup"
    /\ \/ Usable(c) /\ Goto(c, "retouch")
       \/ /\ runtime[call[c].agent] = "absent"
          /\ Goto(c, IF call[c].op = "Send" THEN "known" ELSE "room")
       \/ ~Usable(c) /\ runtime[call[c].agent] # "absent" /\ Return(c)
    /\ UNCHANGED <<version, registry, manager, residency>>

\* An unknown agent, or one the store cannot read, fails the call.
AgentKnown(c) ==
    /\ call[c].pc = "known"
    /\ \/ /\ call[c].agent \in Registered
          /\ Goto(c, IF call[c].op = "Send" THEN "room" ELSE "lookup")
       \/ Return(c)
    /\ UNCHANGED <<version, registry, manager, residency>>

\* touch_loaded_v2_residency
TouchLoaded(c) ==
    /\ call[c].pc = "retouch"
    /\ residents' = IF runtime[call[c].agent] = "absent" THEN residents
                    ELSE Touch(call[c].agent)
    /\ IF call[c].op = "Send" THEN Goto(c, "deliver") ELSE Return(c)
    /\ UNCHANGED <<version, registry, manager, pending>>

Loaded(c) == IF version = "V2" THEN "place" ELSE "register"

\* spawn_thread for a resumed agent: a running runtime is used as it is, a
\* dead one is taken out of the map.
ResumeThread(c) ==
    LET a == call[c].agent
    IN /\ call[c].pc = "resume"
       /\ Goto(c, IF Live(a) THEN Loaded(c) ELSE "insert")
       /\ runtime' = IF Live(a) THEN runtime ELSE [runtime EXCEPT ![a] = "absent"]
       /\ UNCHANGED <<version, registry, starts, closing, unloads, residency>>

\* finalize_thread_spawn, with the map locked again.
InsertThread(c) ==
    LET a == call[c].agent
    IN /\ call[c].pc = "insert"
       /\ runtime[a] = "absent" /\ starts[a] < MaxStarts
       /\ StartRuntime(a)
       /\ Goto(c, Loaded(c))
       /\ UNCHANGED <<version, registry, residency>>

\* Session::spawn failed, or another caller inserted a runtime first.
InsertFails(c) ==
    /\ call[c].pc = "insert"
    /\ Goto(c, IF version = "V2" THEN "recheck" ELSE "uncount")
    /\ UNCHANGED <<version, registry, manager, residency>>

\* A reload that lost the race uses the winner's runtime.
RecheckLoaded(c) ==
    /\ call[c].pc = "recheck"
    /\ Goto(c, IF Usable(c) THEN "swap" ELSE "unslot")
    /\ UNCHANGED <<version, registry, manager, residency>>

\* Mutant: a failed call keeps its residency slot.
KeepSlot(c) ==
    /\ call[c].pc \in {"swap", "unslot"}
    /\ IF call[c].pc = "swap" THEN Goto(c, "retouch") ELSE Return(c)
    /\ UNCHANGED <<version, registry, manager, residency>>

\* Drop for V2ResidencySlot
DropSlot(c) ==
    /\ call[c].pc \in {"swap", "unslot"}
    /\ pending' = pending - 1
    /\ IF call[c].pc = "swap" THEN Goto(c, "retouch") ELSE Return(c)
    /\ UNCHANGED <<version, registry, manager, residents>>

\* commit_slot, or a client's request finds that the thread has stopped.
CommitSlot(c) ==
    /\ call[c].pc = "place"
    /\ pending' = pending - 1
    /\ residents' = IF call[c].op = "Open" /\ ~Usable(c) THEN residents
                    ELSE Touch(call[c].agent)
    /\ IF call[c].op = "Open" THEN Return(c) ELSE Goto(c, "deliver")
    /\ UNCHANGED <<version, registry, manager>>

\* send_op and handle_thread_request_result: an agent whose loop is gone is
\* removed and forgotten.
Deliver(c) ==
    LET a == call[c].agent
    IN /\ call[c].pc = "deliver"
       /\ \/ /\ Live(a)
             /\ runtime' = [runtime EXCEPT ![a] = "busy"]
             /\ Return(c)
          \/ /\ runtime[a] = "absent"
             /\ Return(c) /\ UNCHANGED runtime
          \/ /\ runtime[a] = "dead"
             /\ call' = [call EXCEPT ![c].pc = "remove", ![c].op = "Bury",
                                     ![c].name = NoPath]
             /\ UNCHANGED runtime
       /\ UNCHANGED <<version, registry, starts, closing, unloads, residency>>

\* shutdown_live_agent waits for the loop to end.
ShutdownAgent(c) ==
    LET a == call[c].agent
    IN /\ call[c].pc = "shutdown"
       /\ runtime' = IF Live(a) THEN [runtime EXCEPT ![a] = "dead"] ELSE runtime
       /\ Goto(c, "remove")
       /\ UNCHANGED <<version, registry, starts, closing, unloads, residency>>

RemoveThread(c) ==
    /\ call[c].pc = "remove"
    /\ runtime' = [runtime EXCEPT ![call[c].agent] = "absent"]
    /\ Goto(c, "forget")
    /\ UNCHANGED <<version, registry, starts, closing, unloads, residency>>

ForgetResidency(c) ==
    /\ call[c].pc = "forget"
    /\ residents' = Without(call[c].agent)
    /\ Goto(c, "release")
    /\ UNCHANGED <<version, registry, manager, pending>>

ManagerStep(c) ==
    \/ StartThread(c) \/ StartFails(c) \/ LookupAgent(c) \/ AgentKnown(c)
    \/ TouchLoaded(c) \/ ResumeThread(c) \/ InsertThread(c) \/ InsertFails(c)
    \/ RecheckLoaded(c) \/ DropSlot(c) \/ CommitSlot(c) \/ Deliver(c)
    \/ ShutdownAgent(c) \/ RemoveThread(c) \/ ForgetResidency(c)

(***************************************************************************)
(* The agents themselves, and the app server's unloading of threads that   *)
(* have no subscribers (remove_thread_if_matches: only the runtime that    *)
(* was shut down).                                                         *)
(***************************************************************************)
Settle(a) ==
    /\ runtime[a] = "busy"
    /\ runtime' = [runtime EXCEPT ![a] = "idle"]
    /\ UNCHANGED <<version, registry, starts, closing, unloads, residency, call, calls>>

UnloadBegins(a) ==
    /\ runtime[a] = "idle" /\ unloads < MaxUnloads
    /\ runtime' = [runtime EXCEPT ![a] = "dead"]
    /\ closing' = closing \cup {a}
    /\ unloads' = unloads + 1
    /\ UNCHANGED <<version, registry, starts, residency, call, calls>>

UnloadEnds(a) ==
    /\ a \in closing
    /\ closing' = closing \ {a}
    /\ runtime' = IF runtime[a] = "dead" THEN [runtime EXCEPT ![a] = "absent"] ELSE runtime
    /\ UNCHANGED <<version, registry, starts, unloads, residency, call, calls>>

(***************************************************************************)
(* The specification.                                                      *)
(***************************************************************************)
BeginCall(c) ==
    \/ SpawnAgent(c)
    \/ \E a \in Agents : SendMessage(c, a) \/ OpenChild(c, a)
                          \/ ResumeAgent(c, a) \/ CloseAgent(c, a)

CallStep(c) ==
    /\ EvictionStep(c) \/ RegistryStep(c) \/ ManagerStep(c)
    /\ UNCHANGED calls

Next ==
    \/ \E c \in Callers : BeginCall(c) \/ CallStep(c)
    \/ \E a \in Agents : Settle(a) \/ UnloadBegins(a) \/ UnloadEnds(a)

Spec == Init /\ [][Next]_vars

\* The runtime polls every call that is ready.
FairSpec == Spec /\ \A c \in Callers : WF_vars(CallStep(c))

(***************************************************************************)
(* Properties.                                                             *)
(***************************************************************************)
\* A call that holds one of total_count's counts: between reserve_spawn_slot
\* and commit or drop, or between a release and its fetch_sub.
Counted(c) ==
    \/ call[c].pc = "uncount"
    \/ /\ call[c].op \in {"Spawn", "Resume"}
       /\ call[c].pc \in {"name", "start", "resume", "insert", "register", "unname"}

\* Every count of total_count belongs to a registered agent or to one call in
\* flight, and only a second registration of an agent loses one.
SlotAccounting ==
    total = Cardinality(Registered) + Cardinality({c \in Callers : Counted(c)}) + leaked

\* Registered V1 agents and the calls that are about to register one never
\* exceed the configured maximum, whatever spawns, resumes and closes race.
AgentLimit ==
    version = "V1" =>
        Cardinality(Registered) + Cardinality({c \in Callers : Counted(c)}) <= MaxThreads

HoldsName(c) == call[c].name # NoPath /\ call[c].pc \in {"start", "register", "unname"}

\* agent_tree and thread_paths are inverse to each other, and a reserved path
\* belongs to exactly one call, which will register or release it.
NamesOwned ==
    /\ \A k \in Keys, a \in Agents : tree[k] = a <=> paths[a] = k
    /\ \A k \in Keys :
          tree[k] = Reserved <=> \E c \in Callers : HoldsName(c) /\ call[c].name = k
    /\ \A c, d \in Callers :
          HoldsName(c) /\ HoldsName(d) /\ call[c].name = call[d].name => c = d

HoldsSlot(c) ==
    /\ version = "V2" /\ call[c].op \in {"Spawn", "Send", "Open"}
    /\ call[c].pc \in {"number", "name", "start", "resume", "insert", "recheck",
                       "register", "place", "swap", "unslot", "unname", "uncount"}

\* Every pending residency slot belongs to a call in flight: no failure path
\* keeps one.
PendingExact == pending = Cardinality({c \in Callers : HoldsSlot(c)})

Resident(a) == \E i \in DOMAIN residents : residents[i] = a

InHand(a) ==
    \E c \in Callers :
        \/ call[c].victim = a /\ call[c].pc \in {"check", "touch", "unload", "evict"}
        \/ call[c].agent = a /\ call[c].pc \in {"place", "release"}

\* Every loaded agent that can be messaged can also be unloaded: it is in the
\* residency list, or a call that is about to put it there, unload it or
\* forget it has it in hand.
Evictable ==
    version = "V2" =>
        \A a \in Registered : Live(a) =>
            InHand(a) \/ Resident(a)

LiveResidents == {a \in Agents : Live(a) /\ Resident(a)}

\* Racing evictions may put a resident back after its place was promised, but
\* loaded residents and promised places exceed the capacity by less than the
\* number of callers.
ResidencyBound ==
    version = "V2" =>
        Cardinality(LiveResidents)
          + Cardinality({c \in Callers : HoldsSlot(c) /\ call[c].agent \notin LiveResidents})
            < MaxThreads + Cardinality(Callers)

\* Every call returns: in particular the search for a resident to unload ends
\* although all of them may be working.
CallsReturn == \A c \in Callers : call[c].pc # "idle" ~> call[c].pc = "idle"
=============================================================================
