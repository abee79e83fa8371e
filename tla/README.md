# Verification of the Sofia session runtime

TLA+ models of the parts of `sofia-rs` in which several actors share state:
the turn lifecycle of a session, the questions its tools put to the client, the
agents a session spawns, the app server's request queues, and the durable
thread history. TLC checks them on small instances. For every instance TLAPS
proves each safety invariant that a passing run checks, where necessary under a
stated condition on the constants, and that the request queues implement a
serial service; liveness stays with TLC.

## 1. The system and its parts

Sofia is an agent runtime. A client (terminal UI, CLI, SDK) talks JSON-RPC to
the **app server**; each thread is a **session** with a submission loop; the
session runs **turns** (model sampling and tool calls) as tokio tasks; every
thread is recorded in a **rollout** file with a SQLite projection.

| part | state it keeps | operations | shared with | what is hard |
|---|---|---|---|---|
| turn lifecycle (`core/src/tasks/mod.rs`, `session/turn_input.rs`, `session/turn_suspension.rs`, `session/inject.rs`) | `active_turn`: an optional `ActiveTurn` with a turn state and an optional running task | start, steer, start if idle, replace, interrupt, suspend, finish, inject, start for pending work | submission loop, the task of every turn, guardian aborts, realtime router, injectors | the lock is given up between steps of one start; a finishing turn and an aborter race; handles are aborted at any await |
| input queue and mailbox (`session/input_queue.rs`, `state/turn.rs`) | pending input and delivery phase of each turn state; the mailbox | extend, drain, defer, accept, clear | all of the above | an item must be taken by one process and not be forgotten |
| submission loop (`session/handlers.rs`) | the order of submissions | one handler per `Op` | the turn lifecycle | handlers await inside an abort |
| sampling loop (`session/turn.rs`, `tasks/regular.rs`) | local variables of a turn | record input, sample, follow up, compact, return | input queue, history | cancellation at every await |
| request queues (`app-server/src/request_serialization.rs`) | per key: a queue, a drain task, a `Notify` | enqueue, drain | message processor, plugin reconcile | removal of an empty queue while a request arrives; one permit for many arrivals |
| connection gate (`app-server/src/connection_rpc_gate.rs`) | accepting flag, token count | run, close, shutdown | message processor | queued requests outlive their connection |
| rollout recorder (`rollout/src/recorder.rs`, `ordinal.rs`) | pending items, file handle, next ordinal | add, persist, flush, shutdown, recover | thread store, other appenders to the path | partial writes, retries, crashes, the last ordinal |
| live writer (`thread-store/src/local/live_writer.rs`) | the live recorder of each thread | append, persist, flush, shutdown, discard, resume | recorder, projection | callers dropped half way; a writer task outliving its recorder |
| history projection (`thread-store/src/local/thread_history*.rs`) | checkpoint (offset, next ordinal), rows | materialize | the rollout file | duplicates and unparsable lines must be passed over, durable items not |
| metadata updates (`thread-store/src/local/update_thread_metadata.rs`) | thread metadata | append a `SessionMeta` line | the rollout file, without its lock | appends beside a live recorder |
| waiters of a turn (`core/src/state/turn.rs`, `session/mod.rs`, `tools/parallel.rs`, `app-server/src/bespoke_event_handling.rs`) | oneshot senders by key in a turn state, the client's prompts, permission grants | register, announce, notify, cancel, drop | tools, submission loop, aborts, app server | an answer comes for a turn that is ending or has been replaced; keys are reused |
| agents (`core/src/agent/registry.rs`, `agent/control/*.rs`, `thread_manager.rs`) | spawn slots, paths, residency list, loaded threads | spawn, message, open, resume, close, evict, unload | tool calls of all agents, client requests, the app server's unloader | each call takes and gives back three resources at separate awaits, and any of its steps can fail |

What makes each part correct, in one sentence:

* turns: every turn ends with one terminal event, one task runs at a time, no
  accepted input is lost or delivered twice, and work that asks for a turn gets
  one;
* requests: those of one key take effect in arrival order, all of them end, and
  none runs for a connection that is gone;
* waiters: a tool acts only on the answer to its own question, a grant stays
  with the turn that held the question, and every question returns;
* agents: slots, paths and residency places are given back exactly once, the
  limits hold, a loaded agent can be unloaded, and every call returns;
* history: what was acknowledged is in the file, in order, under an ordinal of
  its own, can be read again, and the view shows exactly what it has read.

`PROJECT.json` lists every part with its status, including those left out, and
the hazards of the code with the properties aimed at them.

## 2. Modules

### TurnLifecycle

One session. The processes are the submission loop, realtime routers, spawned
guardian aborts and the tokio task of every turn; injectors are actions of the
environment. `pc` says where a process is, `loc` holds its local variables
(the `Arc` of a turn state, the turn it is starting, items it carries, the
`RunningTask` it took and why). A step is what a process does between two
awaits at which others can see or change the slot, a turn state or the mailbox.

| variable | code |
|---|---|
| `active` | `Session::active_turn`; `ts` the turn state, `task` the running task |
| `pending`, `phase` | `TurnState::pending_input`, `mailbox_delivery_phase` |
| `mailbox` | `InputQueue::mailbox_pending_mails` |
| `turn` | task kind, own input, cancellation token, `can_drain_pending_input` |
| `events` | lifecycle events sent for a turn |
| `history` | items recorded in the conversation |
| `sent`, `dropped` | auxiliary: items accepted; items an abort, a failing turn or a hook discards by design |

Handlers that span awaits are chains of actions: `spawn_task` is
`StartTurn`/`StartOther`, `TakeActive`, `StopVictim`, `EmitAborted`,
`ClearPending`, `DrainMailbox`, `AttachState`, `InstallTask`;
`maybe_start_turn_for_pending_work` is `CheckWork`, `ReserveForWork`,
`CollectWork`, `FillReserved` and the same start; `on_task_finished` is
`FinishTake`, `SettlePending`, `EmitTerminal`, `ReleaseSlot` and possibly
`CheckWork`.

Abstractions. What the model answers, what hooks decide, whether a compaction
succeeds and which error ends a request are choices. A submission the code
rejects changes nothing and is a stuttering step. Inputs are sets: the order of
items in one drain is not modelled. `get_pending_input` takes the pending input
and then the mailbox; both happen in one step, because what can come between
(more mail, an abort) can equally come just before or after. The recovery from
an exceeded context window happens at most once per `run_turn`; the model does
not count it. A review is a `Compact` task
as far as the slot is concerned. `IdleStarts` says for which kinds of input the
loop may be asked to start a turn only if the session is idle. `start_if_idle`
looks at the mailbox twice; the second look never finds triggering mail, because
mail arrives through the loop that is executing it (`RecheckIdle` keeps the code's
branch). A suspension whose final flush or writer shutdown fails returns an
error and the loop goes on; `"Suspended"` stands for its reply, Ok or Err.
`JoinHandle::abort` is immediate in the model; in tokio the task runs on to its
next await.

### RequestSerialization

Queues by key, each with at most one drain task, and one gate per connection.
Requests, their keys, connections and access modes are constants. A request
without a key is spawned directly. `AwaitOf` models `plugin/reconcile`, the one
handler that queues background work and waits for it. `order` is auxiliary: the
order of arrival. Whether a queued request makes progress depends on its drain
task polling it (`Polled`): between a wake-up and the lock of the map, running
reads are not polled.

### RolloutLog

One thread: the file, one writer task per recorder opened on it, the command
channels, the client that holds the live-writer lock, the metadata updater that
does not, and the projection. A line is an item, an ordinal and whether it
parses; a failing write leaves nothing, a torn line or a line without its
newline (`Put`), and bytes behind an unterminated line join that line. `acked`
collects what a successful operation promised; `accepted` what each recorder
took, in order. A row of the projection is the item of its line. Crashes are
external: they lose everything but file and database. A failed open may have
created the file and terminated its last line. A caller of shutdown may be
dropped like any other; the recorder is then still the live one although its
writer task has stopped, and later operations fail (`WriterGone`) until the
recorder is discarded.

### SerialService

What the request queues promise, without queues, tasks, notifications or
gates: a request arrives and gets its place in line, begins when every earlier
request of its key that it conflicts with has ended, and ends. A request whose
client has gone may be skipped at its turn. `RequestSerialization!Service`
instantiates it with the refinement mapping `Phase` (queued and launched are
both waiting; running and awaiting background work are both running), `order`
being the arrival order in both, and `ImplementsService` says that every step
of the queues is a step of the service or changes nothing it can see.

### TurnWaiters

One thread: its turns in order, the tool calls that ask the client something,
the submission loop and the client. `waiters[t]` is the set of requests whose
sender the `TurnState` of `t` holds; `Key` says under which key (`call_id` for
approvals and permission requests, the turn's `sub_id` for user input and MCP
approvals, which therefore replace one another). `reply` is the oneshot
channel: open, answered, closed because its sender was dropped, or without
receiver. A tool call is `Call` (the gate of `ToolCallRuntime`: a write lock
for the exclusive tools), `Register` under the lock of `active_turn`,
`Announce`, and `Return`; a cancelled turn drops its tools at any point
(`DropTool`, `CancelPermissions`). An abort is `TakeTurn`, `CancelTask`,
`StopTask`, `ClearPending`; a finish `FinishTask`, `CompleteTurn`. `Notify`,
`RecordGrant` and `SendGrant` are the loop's side, `Withdraw` is
`abort_pending_server_requests`, which takes back every prompt of the thread.

The turn here is deliberately simpler than in `TurnLifecycle`: `slot` holds a
turn or none, and what starts the next turn is a choice. What matters for the
waiters, the order in which a turn leaves the slot, is cancelled, reports and
drops its senders, is the same in both. The answer's content is a decision
(`yes`, for the session, `no`, `abort`) and the request whose prompt it answers.
A permissions response whose paths cannot be localized interrupts the turn, which
is `abort` too.

### AgentControl

The agents of one session, under either multi-agent version. `call[c]` is what
a tool call or client request in flight is doing; its `pc` moves one lock
section or await at a time. `tree` and `paths` are the registry's two maps,
`total` its counter, `runtime` the thread manager's map, `residents` and
`pending` the residency list and the places promised in it.

| operation | actions |
|---|---|
| `spawn_agent` | `SpawnAgent`, (V2: the eviction loop), `ReserveSpawnSlot`, `ReserveAgentPath`, `StartThread`, `Register`, `CommitSlot`, `Deliver`; failing: `ReleaseReservedPath`, `ReturnCount`, `DropSlot` |
| `reserve_slot` (eviction) | `TryReservePendingSlot`, `CountResidents`, `PopLruCandidate`, `CheckCandidate`, `TouchCandidate`, `ShutdownCandidate`, `RemoveCandidate`, `LimitReached` |
| `ensure_v2_agent_loaded`, `send_message` | `LookupAgent`, `AgentKnown`, `TouchLoaded`, eviction, `ResumeThread`, `InsertThread`, `InsertFails`, `RecheckLoaded`, `CommitSlot`, `Deliver` |
| V1 resume and close | `ResumeAgent`, `ReserveSpawnSlot`, `ResumeThread`, `InsertThread`, `Register`; `CloseAgent`, `ShutdownAgent`, `RemoveThread`, `ForgetResidency`, `ReleaseSpawnedThread`, `ReturnCount` |
| a message to a dead loop | `Deliver`, `RemoveThread`, `ForgetResidency`, `ReleaseSpawnedThread`, `ReturnCount` |
| the app server's unloader | `UnloadBegins`, `UnloadEnds` |

`starts[a]` identifies a runtime (the `Arc` a caller holds), so an evictor that
checked one runtime shuts down that one, and removes whatever has the id.
`Usable` is `validate_loaded_v2_child`: a client's open refuses a loaded agent
whose thread has stopped and does not touch its place in the list, whereas a
message does.
`leaked` is auxiliary: a count that no release will return, because an agent
was registered a second time.

`MCTurnLifecycle`, `MCRequestSerialization`, `MCRolloutLog`, `MCTurnWaiters`
and `MCAgentControl` give TLC its constants and symmetry sets. The modules whose
names end in `Proofs` extend a component's module with its theorems (section 5).

## 3. Runs

| run | result | states | what it shows |
|---|---|---|---|
| `turn_serial` | pass | 980 k | One loop, two turns, all task kinds and aborts, mail without trigger: the slot is free whenever `start_task` says so (`StartSlotFree`), each turn gets one terminal event and nothing after it (`OneTerminal`), none vanishes without one (`NoVanishedTurn`), no item is lost (`NoSilentLoss`), one uncancelled task runs (`SingleRunner`). |
| `turn_work` | pass | 1.4 M | Mail with and without trigger, two inputs, an injection, two turns, no aborts: no item is in two places (`OnePlace`); triggering mail never waits in a session where nothing runs (`NoStuckWork`). |
| `turn_concurrent` | pass | 329 k | Loop, router and guardian abort at once: a task handle has one owner (`HandleUnique`) and a cancelled turn is answered (`CancelAnswered`). |
| `turn_slot_assert` | violation | | `StartSlotFree` when a wake-up for mail and the loop both start a turn. |
| `turn_inject_lost` | violation | | `NoSilentLoss` when an item is injected into a turn that has taken its pending input and not yet cleared the slot. There are no idle starts (`IdleStarts = {}`), so this window is the only way to lose it. |
| `turn_two_tasks` | violation | | `SingleRunner` when a finishing turn detaches its successor's task. |
| `requests` | pass | 192 k | Two exclusive requests, two reads, two connections and plugin/reconcile: arrival order (`SerialOrder`), no request without a drain task or wake-up (`NoOrphanedRequest`), a drained connection is quiet (`DrainedGateIsQuiet`), all requests end (`EveryRequestEnds`), reads join running reads (`ReadsJoin`), and the queues implement `SerialService` (`ImplementsService`). |
| `rollout` | pass | 1.4 M | A paginated thread with two items, two recorders, two faults, a crash and cancelled callers, and a legacy thread with discard, a crash and a metadata append beside the recorder: `AckedDurable`, `FileOrder`, `OrdinalsIdentify`, `ProjectionExact`. |
| `agents` | pass | 300 k | Two calls at a time, three in all, over three agents, one of them restored from an earlier process, and one place, under V1 and V2: no count, path or place is lost or returned twice (`SlotAccounting`, `NamesOwned`, `PendingExact`), the limits hold (`AgentLimit`, `ResidencyBound`), a loaded agent can be unloaded (`Evictable`), every call returns (`CallsReturn`). |
| `waiters` | pass | 615 k | Two turns, two requests of any kinds, every order of answers, interrupts, drops and terminal events: `OwnAnswer`, `CancelBeforeDrop`, `GrantOrigin`, `GrantBeforeReply`, and every request returns (`RequestsReturn`). |
| `rollout_limit` | pass | 408 k | Only two ordinals: the writer refuses instead of reusing one, acknowledges nothing it refused, and every operation returns (`OperationReturns`). |
| `rollout_torn_meta` | violation | | `AckedReopens`: an acknowledged rollout whose first line is torn cannot be resumed. |

Bounds. Turn ids and items are used once, so their sets bound a behaviour:
two turns are needed for a replacement, three for a third turn beside two
racing ones. `TStates` bounds the turn states alive at once; more of them than
the configurations give do not change the number of reachable states.
`Capacity` is the channel's (one in `rollout`, two in `rollout_limit`, instead of
256): one client sends at most an item and a barrier before it waits, and
cancelled callers fill the rest; with one the sender meets a full channel, with
two commands queue up behind a cancelled one. `MaxFaults` of two lets a write and its retry fail; exhausted ordinals fail
without a fault. `MaxWriters` of two is a created and a resumed recorder.
`MaxOrdinal` stands for `u64::MAX`. In `rollout`, `Bounds` gives each mode its own
faults, crashes and operations, so that one run covers both kinds of thread.
`agents` has one place and two callers: the smallest instance in which an
evictor races a reload of its victim and a spawn meets a full registry; a third
call is needed to spawn an agent and then race over it. `waiters` has two turns
because a stale tool or answer needs a next turn to meet, and two requests
because keys are shared by two; the invariants also hold with three requests in
one turn (375 k states). Symmetry is used on user inputs and items,
which the modules only compare, in runs without liveness properties.
Deadlock is not checked: once all inputs are used a session, a server without
requests, a set of idle agents and a closed thread rest, which is what they should do.

Fairness. `TurnLifecycle!Fairness` is weak fairness of every process that is
inside a handler or a turn: tokio polls a ready task, and the only wait on
another process, the grace period of an abort, ends after 100 ms. Submissions
are not assumed to come. `DrainSpec` assumes the same of drain tasks and
request starts, and that `select!`, which polls its branches in random order,
serves a held permit. That handlers return is an hypothesis of
`EveryRequestEnds` only; `ReadsJoin` holds without it. `RolloutLog!FairSpec`
assumes that the writer task and a store operation under way are polled.
`AgentControl!FairSpec` assumes that a call in flight is polled; nothing is
assumed of the agents, which may work for ever. `TurnWaiters!Fairness` assumes
that tools, begun aborts and finishes and the submission loop are polled, and
that the client answers, or fails, every prompt that is left with it: the
request is answered by a person, and without that assumption nothing can be
said. No turn is assumed to be interrupted.

Each property is also run against a deliberately damaged version of the action
it depends on (the definitions marked *Mutant*), which must violate it.

## 4. Where code and claims disagree

The four violation runs above are described, with the quoted lines, under
`findings` in `PROJECT.json`. The passing runs stay clear of these situations
through their constants; more are known. The first seven can be reproduced by
changing constants of a run:

* *Injection into a reserved slot* (`session/turn_input.rs:362`): `start_if_idle`
  puts an `ActiveTurn` without a task into the slot and then prepares the
  settings. `inject_no_new_turn` finds an active turn and adds its items to that
  turn state; when the settings are refused, `clear_reserved_idle_turn` drops it
  with the items, which are neither delivered nor recorded. `turn_inject_lost`
  with `IdleStarts = {"User"}` violates `NoSilentLoss` in this way, before any
  turn has started.
* *Lost wake-up* (`tasks/mod.rs:844`): a finishing turn has taken its task out
  of the slot, triggering mail arrives, and an interrupt takes the now empty
  `ActiveTurn`. The interrupt has no task to abort and wakes nobody, and the
  finishing turn no longer owns the slot and does not either. `turn_work` with
  `AbortOps = {"Interrupted"}` violates `NoStuckWork`. So does
  `OtherKinds = {"Compact"}` with `Guards = {g1}`, through the detached task of
  `turn_two_tasks`: it finishes without looking at the mailbox.
* *Failed suspension* (`session/turn_suspension.rs:104`): a suspension takes the
  turn out of the slot and stops it without looking at the mailbox, because the
  process is about to hand the thread over. When the final flush or the shutdown
  of the writer fails it returns an error, the loop goes on, and triggering mail
  waits without a wake-up. `turn_work` with `AbortOps = {"Suspend"}` violates
  `NoStuckWork`.
* *Refused turn over waiting mail* (`session/turn_input.rs:351`): with durable sleep
  any mail asks for a turn, but `start_if_idle` looks for triggering mail only.
  It reserves the slot, a finishing turn's wake-up finds the slot taken, the
  settings are refused and the slot is given back. `turn_work` with
  `DurableSleep = TRUE` violates `NoStuckWork`.
* *Collected mail dropped* (`tasks/mod.rs:503`): the slot is reserved and the
  mailbox drained; an interrupt empties the slot before the mail is stored in
  the reserved turn state. `turn_inject_lost` with `Injections = {}`,
  `Mails = TriggerMails = {m1}` and `AbortOps = {"Interrupted"}` violates
  `NoSilentLoss`.
* *Torn metadata append* (`update_thread_metadata.rs:168`): an append to the
  path of a live Legacy thread fails half way, and the recorder's open handle
  writes behind the torn bytes. `rollout` with a fault in the Legacy
  mode of `BothBounds` violates `AckedDurable`.
* *Discarded writer* (`live_writer.rs:210`): the writer task of a discarded
  recorder goes on with a cancelled caller's commands beside a resumed one;
  both use the same ordinals. `rollout` with `"Discard"` among the
  Paginated operations of `BothBounds` violates `OrdinalsIdentify`, and, with
  that invariant left out, `ProjectionExact`.

The rest are races the passing runs contain. The properties are stated so that
they say what does hold beside them:

* *Prompts of another turn* (`bespoke_event_handling.rs:167`, `:197`, `:1227`):
  a started, completed or aborted turn takes back every prompt of its thread,
  also those of a turn that is running by then. That turn's tool then waits
  until it is interrupted; `RequestsReturn` excepts it (`"lost"`).
* *Stale tool* (`session/mod.rs`, the `request_` methods): a tool registers in
  the turn that is active when it gets the lock. A tool of a turn being
  aborted can register in the next one, and a turn-scoped grant then lands
  there: `GrantOrigin` speaks of the turn that held the request, not of the
  one that asked.
* *Late abort* (`session/handlers.rs:200`): an abort decision interrupts the
  turn that is active when it is handled.
* *Shared key of user input*: two MCP approvals of one turn that run in
  parallel replace each other's sender; the prompt left behind can answer a
  later `request_user_input` of that turn. `OwnAnswer` excepts
  `request_user_input` in turns with MCP approvals.
* *Cancelled shutdown* (`live_writer.rs:164`): a caller of `shutdown_thread` that
  is dropped while it waits leaves a live recorder whose writer task is gone.
  Every later operation fails until the recorder is discarded, and nothing
  acknowledged is lost. `OperationReturns` counts the failure as a return.
* *Message to a victim* (`agent/control/residency.rs:154`): an agent that is
  messaged between the evictor's check and its `remove_thread` loses the
  message or is unregistered, and the evictor also removes a runtime that was
  reloaded meanwhile.
* *Release after reload*: a call that found a dead loop removes, forgets and
  releases the agent in separate steps; a reload in between leaves a live agent
  that is no longer registered. `Evictable` speaks of registered agents.
* *Leaked count* (`registry.rs`, `register_spawned_thread`): a V1 resume of an
  agent that is unloaded but still registered replaces its entry and keeps
  both counts. `SlotAccounting` counts it in `leaked`.
* *One place too many*: an evictor that puts a busy candidate back may do so
  after another call took its place. `ResidencyBound` bounds the excess by the
  number of callers. It counts loaded agents: a message to an agent whose
  thread has stopped puts it into the list without a promised place
  (`spawn.rs:348`), and it stays there until an eviction finds it gone.

A write that loses only its newline leaves a complete record whose item is
written again by the retry. `OrdinalsIdentify` and `ProjectionExact` show what
contains it: the copy has the same ordinal and the view shows the item once.

## 5. Proofs

No proof uses more than the named assumption of the module it is about (types
of the constants, disjointness of the sets, distinctness of the null values)
and, where it says so, a condition on the constants that the theorem states as
its hypothesis. Such a condition says which part of the system is used; the
sections below say what TLC finds outside it.

| module | theorems (property) | condition |
|---|---|---|
| `TurnLifecycleProofs` | `TurnInvariance`, `TypeCorrect` (`TypeOK`), `HandleOwnership` (`HandleUnique`), `StartingOwnership`, `EachInOnePlace` (`OnePlace`) | none |
| `TurnSessionProofs` | `SerialInvariance`, `SlotIsFree` (`StartSlotFree`), `OneRunner` (`SingleRunner`), `TerminalOnce` (`OneTerminal`), `TurnsAreReported` (`NoVanishedTurn`) | `Serial` |
| | `NothingIsLost` (`NoSilentLoss`) | `Serial`, no injections |
| | `WorkIsPursued` (`NoStuckWork`) | `Uninterrupted` |
| `RequestSerializationProofs` | `QueueInvariance`, `QueueTypes` (`TypeOK`), `ArrivalOrder` (`SerialOrder`), `NoOrphans` (`NoOrphanedRequest`), `QuietAfterDrain` (`DrainedGateIsQuiet`), `QueuesImplementService` (`ImplementsService`) | none |
| `TurnWaitersProofs` | `WaitersInvariance`, `WaitersTypeCorrect` (`TypeOK`), `AnswersAreOwn` (`OwnAnswer`), `CancelledBeforeDropped` (`CancelBeforeDrop`), `GrantsStayHome` (`GrantOrigin`), `GrantsBeforeReplies` (`GrantBeforeReply`) | none |
| `AgentControlProofs` | `AgentsInvariance`, `AgentsTypeCorrect` (`TypeOK`), `SlotsAccounted` (`SlotAccounting`), `SpawnLimit` (`AgentLimit`), `NamesAreOwned` (`NamesOwned`), `SlotsReturned` (`PendingExact`), `LoadedAreEvictable` (`Evictable`) | none |
| `AgentResidencyProofs` | `ResidencyBounded` (`ResidencyBound`) | some caller exists |
| `RolloutLogProofs` | `LogBasics`, `LogTypeCorrect` (`TypeOK`) | none |
| `RolloutDurableProofs` | `LogInvariance`, `AckedAreDurable` (`AckedDurable`), `FileInOrder` (`FileOrder`), `OrdinalsAreUnique` (`OrdinalsIdentify`), `ProjectionIsExact` (`ProjectionExact`) | `Isolated` |

### Turns: ownership and places

`TurnLifecycleProofs` is about any number of turns, turn states, items,
guardian aborts and routers: a task is installed only inside an active turn
(`TypeOK`), a `RunningTask` belongs to the slot or to exactly one aborting
process, a turn being started belongs to one process and is not yet a task, and
an item is in one place.

`HandleUnique` is not inductive by itself. Installing a task could put a turn
into the slot that an aborter already holds, unless turns being started are
known not to be anyone's victim; taking a task is safe because what is in the
slot was spawned. So

    TurnInv == TypeOK /\ LocalsInUse /\ StartingTurns /\ SpawnedTasks /\ HandleUnique

`LocalsInUse` says that an aborter holds a task and a turn state (otherwise
`StopVictim` and `ClearPending` would not be typed), `StartingTurns` that a
turn in creation has one owner, and `SpawnedTasks` that installed and aborted
turns have been spawned, which keeps them apart from turns in creation.

Four lemmas say how the ownership part survives the shapes of step that occur:
`MoveStep` (a process moves and gives up at most its own), `CreateStep` (a new
turn under an unused id), `TakeStep` (a task goes from the slot to an aborter)
and `StopStep` (an aborter stops its task). Each action has one lemma that
shows types and applies one of the four; `InstallTask`, which may drop a task
already installed, is argued directly. `NextInv` collects them, and the
theorems follow by `PTL`.

`OnePlace` compares the mailbox, the history, what processes carry and the
buffers of turn states in use, two by two. The proof uses one relation instead:
`At(x, a, k)` says that item `x` is at place `k` of kind `a`, where the own
input of a turn is a place too. `Placed` says that no item is at two places
(`Apart`) and that what is anywhere was accepted (`Accepted`). The second part
is needed when an item arrives: `Unsent` then means that it is nowhere yet. A
step empties places (`Quieting`), moves the items of some places to one other
(`Moving`), or brings a new item to one (`Arriving`); a turn state that is
allocated was in use nowhere, so what its buffer held before does not matter.

### Turns: one submission loop

`TurnSessionProofs` proves the properties that `turn_serial` checks, under

    Serial == Guards = {} /\ Routers = {} /\ TriggerMails = {} /\ DurableSleep = FALSE

that is, only the submission loop starts and aborts turns; the number of turns,
states and items, and the kinds of tasks and aborts, are arbitrary. With three
turns, two inputs and no aborts by the loop, TLC violates all five properties
when there is a router, all but `StartSlotFree` when there is a guardian abort,
and `StartSlotFree`, `NoVanishedTurn` and `NoSilentLoss` when there is
triggering mail; durable sleep makes all mail triggering.

The invariant is `SerialInv == Where /\ Charge /\ Reported`: where the loop and
the turns can be; that a running task is either in the slot and not told to stop,
or the loop holds it and has cancelled it, and that the slot has no task while
the loop holds one or fills the slot; and that a turn has no terminal event
while it is in somebody's charge and has one afterwards. `NewHeld`, which holds
for all constants, adds that a process on its way to `start_task` knows the
turn it will start.

`NoSilentLoss` needs to know more about turn states, because an item in a
buffer that nobody refers to any more is lost: `KeepsInv == HoldsState /\
HoldsAlone /\ Empty /\ Kept` says which turn state each process refers to, that
no two refer to the same one except through the slot, that a state is empty when
its holder lets it go, and that every accepted item is somewhere. Injections are
excluded, since `turn_inject_lost` loses one. The part the proof would miss is
`Empty`: a turn that has settled its input stays registered in the slot, and an
injection can still reach its buffer.

### Turns: pending work

`NoStuckWork` is proved under

    Uninterrupted == Guards = {} /\ AbortOps \subseteq {"Shutdown"} /\ DurableSleep = FALSE

with any routers, mails, injections, idle starts, replacements and shutdowns.
All of it is necessary: TLC finds a lost wake-up with a guardian abort, with an
interrupt, with a suspension that fails to persist and with durable sleep
(section 4). The
invariant is that the loop is closing for good (`Closing`), or `WorkInv`:
whoever aborts does it to start the next turn (`Replacing`), the task in the
slot runs and is not cancelled (`LiveTask`), a slot that is taken has a task,
will get one or has a holder who gives it back (`Minded`), triggering mail
finds the slot taken or somebody who will look at the mailbox (`Pursued`), and
the loop does not prepare a turn over triggering mail (`Prepared`), since
refusing it gives the slot back without another look.

### Request queues

`RequestSerializationProofs` is about any requests, keys, connections and
access modes; its assumption says, besides types, that the one handler that
awaits queued work is not serialized itself.

`SerialOrder` speaks of the arrival order and of request states only; a step of
a drain task is about its queue and its batch. The strengthening connects them,
for each key (`LineInv`): the queue is the part of the line not taken yet
(`IsSuffix`), a request stands in one line once (`InLine`), what was not taken
waits and what was taken is in the batch or has ended (`Served`), behind a
request that still runs only reads were taken, and only if it is a read itself
(`ReadsBehindReads`), and a batch of reads holds reads (`ReadBatch`). Then a
request that has begun was taken, everything before it was taken too, and is
either over or a read beside a read: that is `SerialOrder`, and also the guard
`MayBegin` of the abstract service. `TakeFront` and `JoinEnd` are the two facts
about sequences this needs, `LeadingReadsExact` shows that the `CHOOSE` of
`LeadingReads` exists (by a least element of the naturals). Of the drain task's
steps none is visible to the service; arrivals, starts and returns are its
`Arrive`, `Begin` and `End`.

### Waiters

`TurnWaitersProofs` is about any number of turns and requests of any kinds. The
invariant `WaitersInv` has, besides types and what goes with each step of a tool
call (`Types`, `CallShape`):

* `AtHome` and `Held`: a request registered while its turn runs is in that
  turn's state, and a sender is held only by the state it was registered in
  (`home`), one under each key. `GrantOrigin` rests on this;
* `Applying` and `GrantsRecorded`: the response the loop is applying belongs to
  the permissions request it took out of its home, and a grant is recorded
  before it is sent, and stays so. This is `GrantBeforeReply`;
* `Exclusion`, `OnceAnswered`, `OwnReplies`, `AskOne`: the tool gate keeps two
  user-input requests of one turn apart, and a prompt is answered once. Then an
  answer that arrives under a key two requests share can only be for the one
  that is waiting: the other has returned and its answer has been handled. This
  is `OwnAnswer`, with the exception section 4 explains;
* `CancelBeforeDrop` itself.

### Agents

`AgentControlProofs` is about any finite sets of agents and callers, any paths
and limits and both versions. Counts are kept by adding and subtracting; the
properties say what they are counts of. So the induction needs to know which
operation and locals go with each step of a call (`CallShape`, one line for
each group of steps), that V1 agents are registered under their own ids
(`OwnKeys`), and `AgentsInv` joins this to `NamesOwned`, `SlotAccounting`,
`PendingExact` and the limit. The counting lemmas say how a cardinality changes
when one call enters or leaves a set. `Evictable` also needs `Begun`: a
registered agent has had a runtime or was stored by an earlier process, so a
fresh agent id is not registered.

`AgentResidencyProofs` adds the bound on the residency list. The list can hold
more loaded agents than its capacity, because a call may put back an agent that
it took off, or touch a loaded one, without a promised place. `Extra` is the set
of loaded agents that are on the list or in the hands of a call that may return
them, and that no call carries with a promised place; `Room` says that promises
and extra agents together stay below capacity plus callers. Touching a loaded,
registered agent adds nothing new, because by `Evictable` it is on the list or in
hand already. With no callers at all the strict bound
is false for a capacity of zero, hence the condition.

### Rollout log

`RolloutLogProofs` proves the types for every file, fault and interleaving
(`Basics`). `RolloutDurableProofs` proves the four invariants of `rollout`
under

    Isolated == \A m \in Modes : Alone(m) \/ (m = "Legacy" /\ Bounds[m].faults = 0)

for each kind of thread, either one process appends at a time (no discarded
recorder goes on writing, no metadata update beside a recorder), or the thread
has no ordinals and no write fails. Any number of items, faults, crashes,
cancelled callers and recorders is allowed. Outside it section 4 has
violations: a torn metadata append, and a discarded writer. `LogInv` joins

* `Control`: an open handle is at the end of a terminated line, other writers
  are gone where there is one appender, and a command somebody waits for is the
  last in the channel of the live recorder, so its answer is about everything
  accepted before;
* `Stored`: every accepted item of a recorder is in the file, pending or in the
  channel, in this order and in the order of acceptance. From it follow
  `FileOrder` and `AckedDurable`;
* `Numbered`: the next ordinal is beyond those of the file, except that a
  record that lost only its newline has it already and is written again;
* `Viewed`: the checkpoint's next ordinal is beyond those read and is one after
  the last of them, so what is passed over was read before, and what was not
  read is not passed over.

### Only model-checked

Liveness (`CancelAnswered`, `EveryRequestEnds`, `ReadsJoin`,
`OperationReturns`, `CallsReturn`, `RequestsReturn`) needs fairness and
`ENABLED`, which the proof system does not handle.

## 6. Not modelled

Tools, MCP, hooks, sandboxing, authentication, compaction contents, user
interfaces and protocol types: they have no shared state of their own in the
modelled behaviour, or depend on external services; where they decide
something, the models choose. Listing, search and compression of rollouts are
read-only over files. Of the modelled parts these are left out:

* request queues: a handler that panics and takes its drain task with it;
* waiters: dynamic tools and elicitations (the same steps under other keys),
  guardian reviews, which answer in place of the client, and the prompt for MCP
  dependencies. Every turn has one tool gate; code-mode nested calls have a gate
  of their own (`tools/code_mode/delegate.rs:112`) and may outlive the turn's
  drain, so nothing is said of them. `CompleteTurn` sends the terminal event and
  clears the slot in one step, which `TurnLifecycle` takes apart;
* agents: an unlimited `max_threads`, which is a `MaxThreads` no count reaches.
  `ShutdownAgent` leaves out the early return when the flush fails, which ends
  the close with nothing changed; `ShutdownCandidate`
  leaves out the branch for an error of the shutdown, which cannot occur because
  the session swallows a dead loop. An open that loses the insertion looks at
  the runtime that the map holds by then. Also left out: the execution limiter, nicknames, environments kept for evicted
  agents, the spawn tree and its persisted edges, the history a fork copies;
* sessions: the activity watch channel and the settings handlers of the
  submission loop;
* rollout: the check of a subagent's inherited prefix (`ordinal.rs:89`), an
  operation that fails half way through resuming or opening a thread for update,
  and SQLite's own limit of `i64`, which is one limit with `u64::MAX` here;
* thread store: archive, fork, revert and migration, and the SQLite metadata.

`PROJECT.json` has the full list.

## 7. Plan

1. *Done*: `TurnLifecycle`, `RequestSerialization` with the refinement of
   `SerialService`, `RolloutLog`, `AgentControl`, `TurnWaiters`.
2. *Done*: proofs of every safety invariant that a passing run checks.
3. Wider conditions for the turn proofs: `OneRunner` and `TerminalOnce` with
   triggering mail but without guardians and routers, where TLC finds no
   violation on small instances; `NothingIsLost` with injections of the kind
   that insists on an installed task.
4. A durable log that `RolloutLog` implements for acknowledged items, proved as
   a refinement from `LogInv`; fork and revert of paginated threads, which move
   ordinals between files.
5. `TurnWaiters` as an abstraction of the slot of `TurnLifecycle`: the order in
   which a turn leaves the slot, is cancelled, reports and drops its senders.
