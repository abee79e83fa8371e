--------------------------- MODULE TurnLifecycle ---------------------------
(***************************************************************************)
(* The turn lifecycle of one session: how the submission loop, the tokio   *)
(* task of every turn, the guardian's spawned aborts and the realtime text *)
(* router start, steer, abort and finish turns over the shared             *)
(* `active_turn` slot (core/src/tasks/mod.rs, session/turn_input.rs,       *)
(* session/input_queue.rs, session/inject.rs, session/handlers.rs).        *)
(*                                                                         *)
(* One step is what a process does between two awaits that let another     *)
(* process see or change the slot, a turn state or the mailbox.  A         *)
(* rejected submission changes nothing and is a stuttering step.           *)
(***************************************************************************)
EXTENDS Naturals, Sequences

CONSTANTS
    Turns,          \* turn ids (sub_id); each is used once
    TStates,        \* identities of Arc<Mutex<TurnState>>
    UserInputs,     \* user inputs, each submitted once
    Mails,          \* inter-agent communications, each sent once
    TriggerMails,   \* those with trigger_turn
    Injections,     \* response items injected from outside the loop
    OtherKinds,     \* the kinds of non-regular task clients ask for
    IdleStarts,     \* the kinds of start_if_idle clients ask for
    AbortOps,       \* the aborts clients ask for
    Loop,           \* the submission loop
    Guards,         \* tasks spawned by the guardian to abort a turn
    Routers,        \* realtime fan-out tasks routing text input
    DurableSleep,   \* the thread carries an outstanding durable sleep
    None

Items == UserInputs \cup Mails \cup Injections
Procs == {Loop} \cup Guards \cup Routers \cup Turns

ASSUME ConstantsAssumption ==
    /\ TriggerMails \subseteq Mails
    /\ OtherKinds \subseteq {"Shell", "Compact"}
    /\ IdleStarts \subseteq {"User", "Automatic", "Recovery"}
    /\ AbortOps \subseteq {"Interrupted", "Shutdown", "Suspend"}
    /\ DurableSleep \in BOOLEAN
    /\ None \notin Turns \cup TStates \cup Guards \cup Routers \cup {Loop}
    /\ Loop \notin Turns \cup Guards \cup Routers
    /\ Turns \cap (Guards \cup Routers) = {}
    /\ Guards \cap Routers = {}
    /\ UserInputs \cap (Mails \cup Injections) = {}
    /\ Mails \cap Injections = {}

VARIABLES
    active,     \* Session::active_turn; ts = None is Option::None
    pending,    \* TurnState::pending_input of every turn state
    phase,      \* TurnState::mailbox_delivery_phase
    mailbox,    \* InputQueue::mailbox_pending_mails
    pc,         \* where each process is
    loc,        \* the local variables of each process
    turn,       \* per turn: task kind, own input, cancellation token
    events,     \* the lifecycle events sent for each turn, in order
    history,    \* conversation history: the items recorded so far
    sent,       \* the items accepted so far
    dropped     \* items an abort or a failing turn discards by design

vars == <<active, pending, phase, mailbox, pc, loc, turn, events, history,
          sent, dropped>>

TaskKinds == {"Regular", "Shell", "Compact"}
Results   == {"Complete", "Aborted"}
Reasons   == {"Replaced", "Interrupted", "Shutdown"}

SharedPCs == {"idle", "exited", "take", "cancel", "emit", "clear", "suspend",
              "recheck", "prepare", "wake", "reserve", "collect", "fill",
              "drain", "attach", "install"}
BodyPCs   == {"begin", "enter", "loop", "record", "sample", "post", "ret",
              "ended", "finish"}
FinishPCs == {"settle", "terminal", "release"}
PCs       == SharedPCs \cup BodyPCs \cup FinishPCs
             \cup {"unborn", "created", "done"}

Events   == {"Started", "Complete", "Aborted", "Suspended"}
Contexts == [kind : TaskKinds, input : SUBSET Items, cancelled : BOOLEAN,
             drain : BOOLEAN]
Locals   == [ts : TStates \cup {None}, new : Turns \cup {None},
             items : SUBSET Items, victim : Turns \cup {None},
             reason : Reasons]

Blank    == [ts |-> None, new |-> None, items |-> {}, victim |-> None,
             reason |-> "Interrupted"]
NoActive == [ts |-> None, task |-> None]

\* The type of the session state; a task lives inside an active turn.
TypeOK ==
    /\ active \in [ts : TStates \cup {None}, task : Turns \cup {None}]
    /\ active.ts = None => active.task = None
    /\ pending \in [TStates -> SUBSET Items]
    /\ phase \in [TStates -> {"CurrentTurn", "NextTurn"}]
    /\ mailbox \subseteq Mails
    /\ pc \in [Procs -> PCs]
    /\ loc \in [Procs -> Locals]
    /\ turn \in [Turns -> Contexts]
    /\ events \in [Turns -> Seq(Events)]
    /\ history \subseteq Items
    /\ sent \subseteq Items
    /\ dropped \subseteq Items

Init ==
    /\ active = NoActive
    /\ pending = [s \in TStates |-> {}]
    /\ phase = [s \in TStates |-> "CurrentTurn"]
    /\ mailbox = {}
    /\ pc = [p \in Procs |-> IF p \in Turns THEN "unborn" ELSE "idle"]
    /\ loc = [p \in Procs |-> Blank]
    /\ turn = [t \in Turns |-> [kind |-> "Regular", input |-> {},
                                cancelled |-> FALSE, drain |-> FALSE]]
    /\ events = [t \in Turns |-> <<>>]
    /\ history = {}
    /\ sent = {}
    /\ dropped = {}

(***************************************************************************)
(* Helpers.                                                                *)
(***************************************************************************)
\* ActiveTurn::default allocates a turn state nobody refers to yet.
FreeStates == {s \in TStates : s # active.ts /\ \A p \in Procs : loc[p].ts # s}
FreshState == CHOOSE s \in FreeStates : TRUE

\* TStates bounds the turn states in use at a time.
CanFillSlot == active.ts = None => FreeStates # {}

\* A sub_id that was never used.
UnusedTurns == {t \in Turns : pc[t] = "unborn"}
FreshTurn == CHOOSE t \in UnusedTurns : TRUE

HasTask   == active.task # None
Unsent(i) == i \notin sent
Steerable(t) == turn[t].kind \in {"Regular", "Shell"}

HasTrigger == mailbox \cap TriggerMails # {}
WorkWaiting == mailbox # {} /\ (HasTrigger \/ DurableSleep)

\* Reserving the slot: active_turn.get_or_insert_with(ActiveTurn::default).
Reserve ==
    /\ FreeStates # {}
    /\ active' = [ts |-> FreshState, task |-> None]
    /\ pending' = [pending EXCEPT ![FreshState] = {}]
    /\ phase' = [phase EXCEPT ![FreshState] = "CurrentTurn"]

\* extend_pending_input_and_accept_mailbox_delivery_for_turn_state
ExtendAndAccept(s, i) ==
    /\ pending' = [pending EXCEPT ![s] = @ \cup {i}]
    /\ phase' = [phase EXCEPT ![s] = "CurrentTurn"]

\* A new turn context; its task is not spawned yet.
NewTurn(t, kind, input) ==
    /\ UnusedTurns # {}
    /\ t = FreshTurn
    /\ turn' = [turn EXCEPT ![t] = [kind |-> kind, input |-> input,
                                    cancelled |-> FALSE, drain |-> FALSE]]

\* Where a process goes when its handler returns.
Home(p) == IF p \in Turns THEN "done"
           ELSE IF loc[p].reason = "Shutdown" THEN "exited" ELSE "idle"

\* What get_pending_input returns, and whether the active turn accepts mail.
AcceptsMail == active.ts # None => phase[active.ts] = "CurrentTurn"
PendingInput ==
    IF ~AcceptsMail THEN {}
    ELSE (IF active.ts = None THEN {} ELSE pending[active.ts]) \cup mailbox

HasPendingInput == AcceptsMail /\ PendingInput # {}

GetPendingInput(p, next) ==
    /\ loc' = [loc EXCEPT ![p].items = PendingInput]
    /\ pending' = IF AcceptsMail /\ active.ts # None
                  THEN [pending EXCEPT ![active.ts] = {}] ELSE pending
    /\ mailbox' = IF AcceptsMail THEN {} ELSE mailbox
    /\ pc' = [pc EXCEPT ![p] = next]

\* accept_mailbox_delivery_for_current_turn(sub_id = t)
AcceptMailbox(t) ==
    phase' = IF active.task = t
             THEN [phase EXCEPT ![active.ts] = "CurrentTurn"] ELSE phase

(***************************************************************************)
(* Operations of the submission loop (session/handlers.rs) and of the      *)
(* realtime router, up to the first point where they let others run.       *)
(***************************************************************************)

\* Steering: steer_input under the active_turn lock, with or without an
\* expected turn id; only an installed, steerable task accepts input.
Steer(p, u) ==
    /\ pc[p] = "idle" /\ p \in {Loop} \cup Routers
    /\ Unsent(u)
    /\ HasTask /\ Steerable(active.task)
    /\ ExtendAndAccept(active.ts, u)
    /\ sent' = sent \cup {u}
    /\ UNCHANGED <<active, mailbox, pc, loc, turn, events, history, dropped>>

\* start_or_steer when steer_input answers NoActiveTurn: spawn_task follows.
StartTurn(p, u, t) ==
    /\ pc[p] = "idle" /\ p \in {Loop} \cup Routers
    /\ Unsent(u)
    /\ ~HasTask
    /\ NewTurn(t, "Regular", {u})
    /\ sent' = sent \cup {u}
    /\ pc' = [pc EXCEPT ![p] = "take", ![t] = "created"]
    /\ loc' = [loc EXCEPT ![p] = [Blank EXCEPT !.new = t,
                                              !.reason = "Replaced"]]
    /\ UNCHANGED <<active, pending, phase, mailbox, events, history, dropped>>

\* Op::Compact and Op::Review replace whatever runs; a user shell command
\* becomes a task of its own only when no task is installed.
StartOther(kind, t) ==
    /\ pc[Loop] = "idle"
    /\ kind = "Shell" => ~HasTask
    /\ NewTurn(t, kind, {})
    /\ pc' = [pc EXCEPT ![Loop] = "take", ![t] = "created"]
    /\ loc' = [loc EXCEPT ![Loop] = [Blank EXCEPT !.new = t,
                                                 !.reason = "Replaced"]]
    /\ UNCHANGED <<active, pending, phase, mailbox, events, history, sent,
                   dropped>>

\* Op::Interrupt, Op::Shutdown and the approvals answered with Abort.
AbortAll(reason) ==
    /\ pc[Loop] = "idle"
    /\ pc' = [pc EXCEPT ![Loop] = "take"]
    /\ loc' = [loc EXCEPT ![Loop] = [Blank EXCEPT !.reason = reason]]
    /\ UNCHANGED <<active, pending, phase, mailbox, turn, events, history,
                   sent, dropped>>

\* inter_agent_communication: enqueue, then wake an idle session.
Communicate(m) ==
    /\ pc[Loop] = "idle"
    /\ Unsent(m)
    /\ mailbox' = mailbox \cup {m}
    /\ sent' = sent \cup {m}
    /\ pc' = [pc EXCEPT ![Loop] = IF m \in TriggerMails \/ DurableSleep
                                 THEN "wake" ELSE "idle"]
    /\ loc' = [loc EXCEPT ![Loop] = Blank]
    /\ UNCHANGED <<active, pending, phase, turn, events, history, dropped>>

\* start_if_idle up to the reservation of the slot.
ReserveIdle ==
    /\ pc[Loop] = "idle"
    /\ ~HasTrigger
    /\ active.ts = None
    /\ Reserve
    /\ pc' = [pc EXCEPT ![Loop] = "recheck"]
    /\ loc' = [loc EXCEPT ![Loop] = [Blank EXCEPT !.ts = FreshState]]
    /\ UNCHANGED <<mailbox, turn, events, history, sent, dropped>>

\* clear_reserved_idle_turn
ClearReserved(p) ==
    active' = IF active = [ts |-> loc[p].ts, task |-> None]
              THEN NoActive ELSE active

\* start_if_idle looks at the mailbox again once the slot is reserved.  Today
\* only the loop itself enqueues mail, so the second look finds nothing new.
RecheckIdle ==
    /\ pc[Loop] = "recheck"
    /\ IF HasTrigger
       THEN /\ ClearReserved(Loop)
            /\ pc' = [pc EXCEPT ![Loop] = "wake"]
            /\ loc' = [loc EXCEPT ![Loop] = Blank]
       ELSE /\ pc' = [pc EXCEPT ![Loop] = "prepare"]
            /\ UNCHANGED <<active, loc>>
    /\ UNCHANGED <<pending, phase, mailbox, turn, events, history, sent,
                   dropped>>

\* Settings are refused (an error, or Plan mode): give the slot back.
RefuseIdle ==
    /\ pc[Loop] = "prepare"
    /\ ClearReserved(Loop)
    /\ pc' = [pc EXCEPT ![Loop] = "idle"]
    /\ loc' = [loc EXCEPT ![Loop] = Blank]
    /\ UNCHANGED <<pending, phase, mailbox, turn, events, history, sent,
                   dropped>>

\* TurnStartKind::User hands the input to the task; Automatic buffers it in
\* the reserved turn state; Recovery has none.
AcceptIdle(u, kind, t) ==
    /\ pc[Loop] = "prepare"
    /\ kind # "Recovery" => Unsent(u)
    /\ NewTurn(t, "Regular", IF kind = "User" THEN {u} ELSE {})
    /\ sent' = IF kind = "Recovery" THEN sent ELSE sent \cup {u}
    /\ pending' = IF kind = "Automatic"
                  THEN [pending EXCEPT ![loc[Loop].ts] = @ \cup {u}]
                  ELSE pending
    /\ pc' = [pc EXCEPT ![Loop] = "drain", ![t] = "created"]
    /\ loc' = [loc EXCEPT ![Loop].new = t]
    /\ UNCHANGED <<active, phase, mailbox, events, history, dropped>>

\* suspend_turn_and_shutdown: cancel the task without a terminal event.
Suspend ==
    /\ pc[Loop] = "idle"
    /\ HasTask /\ turn[active.task].kind \in {"Regular", "Shell"}
    /\ active' = NoActive
    /\ turn' = [turn EXCEPT ![active.task].cancelled = TRUE]
    /\ pc' = [pc EXCEPT ![Loop] = "suspend"]
    /\ loc' = [loc EXCEPT ![Loop] = [Blank EXCEPT !.victim = active.task,
                                                 !.ts = active.ts,
                                                 !.reason = "Shutdown"]]
    /\ UNCHANGED <<pending, phase, mailbox, events, history, sent, dropped>>

\* The task has stopped or was aborted; its buffered input goes with it, and
\* shutdown_session_runtime runs abort_all_tasks.  The loop exits unless the
\* final flush or the shutdown of the writer fails: then the caller gets the
\* error and the loop goes on.
SuspendDone ==
    /\ pc[Loop] = "suspend"
    /\ LET v == loc[Loop].victim
           s == loc[Loop].ts
       IN /\ pc' = [pc EXCEPT ![Loop] = "take", ![v] = "done"]
          /\ \E reason \in {"Shutdown", "Interrupted"} :
                loc' = [loc EXCEPT ![Loop] = [Blank EXCEPT !.reason = reason],
                                   ![v] = Blank]
          /\ turn' = [turn EXCEPT ![v].input = {}]
          /\ events' = [events EXCEPT ![v] = Append(@, "Suspended")]
          /\ pending' = [pending EXCEPT ![s] = {}]
          /\ dropped' = dropped \cup pending[s] \cup loc[v].items
                          \cup turn[v].input
    /\ UNCHANGED <<active, phase, mailbox, history, sent>>

(***************************************************************************)
(* abort_all_tasks and abort_turn_if_active.  The aborting process owns    *)
(* the RunningTask it took out of the slot until the task is dead.         *)
(***************************************************************************)

\* Mutant: the task is cancelled but stays in the slot.
TakeAndCancelKeeps(p, reason, new) ==
    IF HasTask
    THEN /\ turn' = [turn EXCEPT ![active.task].cancelled = TRUE]
         /\ pc' = [pc EXCEPT ![p] = "cancel"]
         /\ loc' = [loc EXCEPT ![p] = [Blank EXCEPT !.victim = active.task,
                                                    !.ts = active.ts,
                                                    !.new = new,
                                                    !.reason = reason]]
         /\ UNCHANGED active
    ELSE /\ pc' = [pc EXCEPT ![p] = IF reason = "Replaced" THEN "drain"
                                    ELSE Home(p)]
         /\ UNCHANGED <<active, turn, loc>>

\* Mutant: the slot is emptied and its task detached, neither cancelled nor
\* aborted.
TakeAndDetach(p, reason, new) ==
    /\ active' = NoActive
    /\ pc' = [pc EXCEPT ![p] = IF reason = "Replaced" THEN "drain" ELSE Home(p)]
    /\ UNCHANGED <<turn, loc>>

\* The slot is emptied and the token of its task, if any, is cancelled.
TakeAndCancel(p, reason, new) ==
    /\ active' = NoActive
    /\ IF HasTask
       THEN /\ turn' = [turn EXCEPT ![active.task].cancelled = TRUE]
            /\ pc' = [pc EXCEPT ![p] = IF turn[active.task].cancelled
                                       THEN "clear" ELSE "cancel"]
            /\ loc' = [loc EXCEPT ![p] = [Blank EXCEPT !.victim = active.task,
                                                       !.ts = active.ts,
                                                       !.new = new,
                                                       !.reason = reason]]
       ELSE /\ pc' = [pc EXCEPT ![p] = IF reason = "Replaced" THEN "drain"
                                       ELSE Home(p)]
            /\ UNCHANGED <<turn, loc>>

TakeActive(p) ==
    /\ pc[p] = "take"
    /\ TakeAndCancel(p, loc[p].reason, loc[p].new)
    /\ UNCHANGED <<pending, phase, mailbox, events, history, sent, dropped>>

\* The guardian's spawned abort_turn_if_active(turn_id, Interrupted).
GuardianAbort(p) ==
    /\ p \in Guards /\ pc[p] = "idle"
    /\ HasTask
    /\ TakeAndCancel(p, "Interrupted", None)
    /\ UNCHANGED <<pending, phase, mailbox, events, history, sent, dropped>>

\* Mutant: a task that ends by itself in the grace period is not reported.
StopVictimSilently(p) ==
    /\ pc[p] = "cancel"
    /\ LET v == loc[p].victim
       IN /\ pc' = [pc EXCEPT ![p] = IF pc[v] = "done" THEN "clear" ELSE "emit",
                              ![v] = "done"]
          /\ loc' = [loc EXCEPT ![v] = Blank]
          /\ turn' = [turn EXCEPT ![v].input = {}]
          /\ dropped' = dropped \cup loc[v].items \cup turn[v].input
    /\ UNCHANGED <<active, pending, phase, mailbox, events, history, sent>>

\* Mutant: the aborter waits for the task instead of aborting its handle.
StopVictimWaits(p) ==
    /\ pc[p] = "cancel"
    /\ pc[loc[p].victim] = "done"
    /\ pc' = [pc EXCEPT ![p] = "emit"]
    /\ UNCHANGED <<active, pending, phase, mailbox, loc, turn, events, history,
                   sent, dropped>>

\* The task is done, or the grace period ends and handle.abort() stops it at
\* whatever await it has reached.
StopVictim(p) ==
    /\ pc[p] = "cancel"
    /\ LET v == loc[p].victim
       IN /\ pc' = [pc EXCEPT ![p] = "emit", ![v] = "done"]
          /\ loc' = [loc EXCEPT ![v] = Blank]
          /\ turn' = [turn EXCEPT ![v].input = {}]
          /\ dropped' = dropped \cup loc[v].items \cup turn[v].input
    /\ UNCHANGED <<active, pending, phase, mailbox, events, history, sent>>

EmitAborted(p) ==
    /\ pc[p] = "emit"
    /\ events' = [events EXCEPT ![loc[p].victim] = Append(@, "Aborted")]
    /\ pc' = [pc EXCEPT ![p] = "clear"]
    /\ UNCHANGED <<active, pending, phase, mailbox, loc, turn, history, sent,
                   dropped>>

\* clear_pending on the turn that was taken, then spawn_task's start_task or
\* the wake-up of an interrupted session.
ClearPending(p) ==
    /\ pc[p] = "clear"
    /\ pending' = [pending EXCEPT ![loc[p].ts] = {}]
    /\ dropped' = dropped \cup pending[loc[p].ts]
    /\ loc' = [loc EXCEPT ![p].victim = None, ![p].ts = None]
    /\ pc' = [pc EXCEPT ![p] = IF loc[p].reason = "Replaced" THEN "drain"
                               ELSE "wake"]
    /\ UNCHANGED <<active, phase, mailbox, turn, events, history, sent>>

(***************************************************************************)
(* maybe_start_turn_for_pending_work_with_sub_id.                          *)
(***************************************************************************)
Return(p) ==
    /\ pc' = [pc EXCEPT ![p] = Home(p)]
    /\ loc' = [loc EXCEPT ![p] = Blank]

CheckWork(p) ==
    /\ pc[p] = "wake"
    /\ IF WorkWaiting
       THEN pc' = [pc EXCEPT ![p] = "reserve"] /\ UNCHANGED loc
       ELSE Return(p)
    /\ UNCHANGED <<active, pending, phase, mailbox, turn, events, history,
                   sent, dropped>>

ReserveForWork(p) ==
    /\ pc[p] = "reserve"
    /\ \/ /\ active.ts # None
          /\ Return(p)
          /\ UNCHANGED <<active, pending, phase>>
       \/ /\ active.ts = None
          /\ Reserve
          /\ loc' = [loc EXCEPT ![p].ts = FreshState]
          /\ pc' = [pc EXCEPT ![p] = "collect"]
    /\ UNCHANGED <<mailbox, turn, events, history, sent, dropped>>

CollectWork(p) ==
    /\ pc[p] = "collect"
    /\ GetPendingInput(p, "fill")
    /\ UNCHANGED <<active, phase, turn, events, history, sent, dropped>>

FillReserved(p, t) ==
    /\ pc[p] = "fill"
    /\ NewTurn(t, "Regular", {})
    /\ pending' = [pending EXCEPT ![loc[p].ts] = @ \cup loc[p].items]
    /\ loc' = [loc EXCEPT ![p].items = {}, ![p].new = t]
    /\ pc' = [pc EXCEPT ![p] = "drain", ![t] = "created"]
    /\ UNCHANGED <<active, phase, mailbox, events, history, sent, dropped>>

(***************************************************************************)
(* start_task.                                                             *)
(***************************************************************************)
\* Mutant: the mailbox is read but not emptied.
DrainMailboxCopies(p) ==
    /\ pc[p] = "drain"
    /\ loc' = [loc EXCEPT ![p].items = mailbox]
    /\ pc' = [pc EXCEPT ![p] = "attach"]
    /\ UNCHANGED <<active, pending, phase, mailbox, turn, events, history, sent,
                   dropped>>

DrainMailbox(p) ==
    /\ pc[p] = "drain"
    /\ loc' = [loc EXCEPT ![p].items = mailbox]
    /\ mailbox' = {}
    /\ pc' = [pc EXCEPT ![p] = "attach"]
    /\ UNCHANGED <<active, pending, phase, turn, events, history, sent,
                   dropped>>

\* Mutant: an empty slot is used as it is instead of being filled.
SlotStateMissing == active.ts

\* get_or_insert_with(ActiveTurn::default) under the slot's lock.
SlotState == IF active.ts = None THEN FreshState ELSE active.ts

SlotPending == IF active.ts = None THEN {} ELSE pending[active.ts]

SlotPhase == IF active.ts = None THEN "CurrentTurn" ELSE phase[active.ts]

\* The first debug_assert!(turn.task.is_none()), then the drained mail is
\* buffered in the turn state that was found or made.
AttachState(p) ==
    /\ pc[p] = "attach"
    /\ CanFillSlot
    /\ LET s == SlotState
       IN /\ active' = [active EXCEPT !.ts = s]
          /\ loc' = [loc EXCEPT ![p].ts = s, ![p].items = {}]
          /\ pending' = [pending EXCEPT ![s] = SlotPending \cup loc[p].items]
          /\ phase' = [phase EXCEPT ![s] = SlotPhase]
    /\ pc' = [pc EXCEPT ![p] = "install"]
    /\ UNCHANGED <<mailbox, turn, events, history, sent, dropped>>

\* The second debug_assert, tokio::spawn and `turn.task = Some(..)`: dropping
\* a RunningTask that is still installed aborts its tokio task.
InstallTask(p) ==
    /\ pc[p] = "install"
    /\ CanFillSlot
    /\ LET t == loc[p].new
           old == active.task
           s == SlotState
       IN /\ active' = [ts |-> s, task |-> t]
          /\ pending' = [pending EXCEPT ![s] = SlotPending]
          /\ phase' = [phase EXCEPT ![s] = SlotPhase]
          /\ pc' = [q \in Procs |-> CASE q = t -> "begin"
                                      [] q = p -> Home(p)
                                      [] q = old -> "done"
                                      [] OTHER -> pc[q]]
          /\ loc' = [q \in Procs |-> IF q \in {p, old} THEN Blank ELSE loc[q]]
          /\ turn' = [q \in Turns |-> IF q = old
                                      THEN [turn[q] EXCEPT !.input = {}]
                                      ELSE turn[q]]
    /\ UNCHANGED <<mailbox, events, history, sent, dropped>>

(***************************************************************************)
(* Injection from outside the loop (session/inject.rs).                    *)
(***************************************************************************)

\* inject_no_new_turn and inject_client_response_items: any active turn takes
\* the item, task or not; otherwise it is recorded at once.
InjectNoNewTurn(x) ==
    /\ Unsent(x)
    /\ sent' = sent \cup {x}
    /\ IF active.ts # None
       THEN ExtendAndAccept(active.ts, x) /\ UNCHANGED history
       ELSE history' = history \cup {x} /\ UNCHANGED <<pending, phase>>
    /\ UNCHANGED <<active, mailbox, pc, loc, turn, events, dropped>>

\* inject_hook_context_if_running also insists on an installed task.
InjectHookContext(x) ==
    /\ Unsent(x)
    /\ HasTask
    /\ sent' = sent \cup {x}
    /\ ExtendAndAccept(active.ts, x)
    /\ UNCHANGED <<active, mailbox, pc, loc, turn, events, history, dropped>>

(***************************************************************************)
(* The tokio task of a turn: RegularTask::run and run_turn, then           *)
(* on_task_finished.  The model's answers, hooks and errors are choices.   *)
(***************************************************************************)
Step(t, next) == pc' = [pc EXCEPT ![t] = next]

\* run_hooks_and_record_inputs: a hook may refuse user inputs; the rest is
\* recorded.  It answers "stop" when every user input was refused.
RecordInputs(t, items, next, stop) ==
    \E blocked \in SUBSET (items \cap UserInputs) :
       /\ history' = history \cup (items \ blocked)
       /\ dropped' = dropped \cup blocked
       /\ Step(t, IF blocked # {} /\ items \cap UserInputs = blocked
                  THEN stop ELSE next)

\* TurnStarted is sent inline by the task.  Shell and compaction tasks do not
\* read pending input.
BeginTurn(t) ==
    /\ pc[t] = "begin"
    /\ events' = [events EXCEPT ![t] = Append(@, "Started")]
    /\ Step(t, IF turn[t].kind = "Regular" THEN "enter" ELSE "ended")
    /\ UNCHANGED <<active, pending, phase, mailbox, loc, turn, history, sent,
                   dropped>>

\* run_turn records the turn's own input; pending input may be drained first
\* only when there is none.
EnterTurn(t) ==
    /\ pc[t] = "enter"
    /\ RecordInputs(t, turn[t].input, "loop", "ret")
    /\ turn' = [turn EXCEPT ![t].input = {},
                            ![t].drain = (turn[t].input = {})]
    /\ UNCHANGED <<active, pending, phase, mailbox, loc, events, sent>>

\* Prewarming or the steps before sampling see the cancellation: the own input
\* is recorded and the task returns without running the turn.
CancelPrewarm(t) ==
    /\ pc[t] = "enter" /\ turn[t].cancelled
    /\ RecordInputs(t, turn[t].input, "ended", "ended")
    /\ turn' = [turn EXCEPT ![t].input = {}]
    /\ UNCHANGED <<active, pending, phase, mailbox, loc, events, sent>>

\* Pre-turn compaction, context capture or a session-start hook ends run_turn
\* before the own input is recorded: with an error, or with nothing to say.
FailEntry(t) ==
    /\ pc[t] = "enter"
    /\ dropped' = dropped \cup turn[t].input
    /\ turn' = [turn EXCEPT ![t].input = {}]
    /\ \E next \in {"ret", "ended"} : Step(t, next)
    /\ UNCHANGED <<active, pending, phase, mailbox, loc, events, history, sent>>

\* The head of the sampling loop.
DrainPending(t) ==
    /\ pc[t] = "loop"
    /\ IF turn[t].drain
       THEN GetPendingInput(t, "record")
       ELSE Step(t, "record") /\ UNCHANGED <<loc, pending, mailbox>>
    /\ UNCHANGED <<active, phase, turn, events, history, sent, dropped>>

\* What was drained is recorded; refused input breaks out of the loop.
RecordPending(t) ==
    /\ pc[t] = "record"
    /\ RecordInputs(t, loc[t].items, "sample", "ret")
    /\ loc' = [loc EXCEPT ![t].items = {}]
    /\ UNCHANGED <<active, pending, phase, mailbox, turn, events, sent>>

\* Tool calls ask for a follow-up request; after a mid-turn compaction, which
\* may fail, the continuation is sampled before anything pending.
FollowUp(t) ==
    /\ pc[t] = "sample"
    /\ AcceptMailbox(t)
    /\ \E drain \in BOOLEAN, next \in {"loop", "ret", "ended"} :
          /\ next # "loop" => drain
          /\ turn' = [turn EXCEPT ![t].drain = drain]
          /\ Step(t, next)
    /\ UNCHANGED <<active, pending, mailbox, loc, events, history, sent, dropped>>

\* The provider says the context window is exceeded: compact and sample again
\* without draining (once per run_turn; the model does not count).
RecoverWindow(t) ==
    /\ pc[t] = "sample"
    /\ turn' = [turn EXCEPT ![t].drain = FALSE]
    /\ Step(t, "loop")
    /\ UNCHANGED <<active, pending, phase, mailbox, loc, events, history, sent,
                   dropped>>

\* A final answer defers mailbox delivery unless explicit work is pending; one
\* without text, or commentary only, defers nothing.
FinalAnswer(t) ==
    /\ pc[t] = "sample"
    /\ \E defers \in BOOLEAN :
          phase' = IF /\ defers
                      /\ active.task = t
                      /\ pending[active.ts] \subseteq Mails \ TriggerMails
                   THEN [phase EXCEPT ![active.ts] = "NextTurn"] ELSE phase
    /\ Step(t, "post")
    /\ UNCHANGED <<active, pending, mailbox, loc, turn, events, history, sent,
                   dropped>>

\* The sampling request fails for good, with or without a terminal error
\* that keeps RegularTask from running the turn again.
FailSampling(t) ==
    /\ pc[t] = "sample"
    /\ \E next \in {"ret", "ended"} : Step(t, next)
    /\ UNCHANGED <<active, pending, phase, mailbox, loc, turn, events, history,
                   sent, dropped>>

\* After the answer: pending input asks for another request (a compaction in
\* between may fail), a stop hook or the goal judge may force one, else run_turn
\* returns.
AfterAnswer(t) ==
    /\ pc[t] = "post"
    /\ turn' = [turn EXCEPT ![t].drain = TRUE]
    /\ \/ HasPendingInput /\ Step(t, "loop") /\ UNCHANGED phase
       \/ ~HasPendingInput /\ Step(t, "loop") /\ AcceptMailbox(t)
       \/ (\E next \in {"ret", "ended"} : Step(t, next)) /\ UNCHANGED phase
    /\ UNCHANGED <<active, pending, mailbox, loc, events, history, sent,
                   dropped>>

\* RegularTask::run runs the turn again while input is pending.
AfterRunTurn(t) ==
    /\ pc[t] = "ret"
    /\ Step(t, IF HasPendingInput THEN "enter" ELSE "ended")
    /\ UNCHANGED <<active, pending, phase, mailbox, loc, turn, events, history,
                   sent, dropped>>

\* The task body returns; a cancelled task leaves its end to the aborter.
EndTurn(t) ==
    /\ pc[t] = "ended"
    /\ Step(t, IF turn[t].cancelled THEN "done" ELSE "finish")
    /\ UNCHANGED <<active, pending, phase, mailbox, loc, turn, events, history,
                   sent, dropped>>

\* Mutant: the finished task is left in the slot.
FinishTakeKeeps(t) ==
    /\ pc[t] = "finish"
    /\ IF HasTask
       THEN loc' = [loc EXCEPT ![t].ts = active.ts] /\ Step(t, "settle")
       ELSE Step(t, "done") /\ UNCHANGED loc
    /\ UNCHANGED <<active, pending, phase, mailbox, turn, events, history, sent,
                   dropped>>

\* on_task_finished takes the task out of the slot and detaches its handle;
\* with no task there it returns without a word.
FinishTake(t) ==
    /\ pc[t] = "finish"
    /\ IF HasTask
       THEN /\ active' = [active EXCEPT !.task = None]
            /\ loc' = [loc EXCEPT ![t].ts = active.ts]
            /\ Step(t, "settle")
       ELSE Step(t, "done") /\ UNCHANGED <<active, loc>>
    /\ UNCHANGED <<pending, phase, mailbox, turn, events, history, sent,
                   dropped>>

\* Mutant: input left over when a turn finishes is cleared, not recorded.
SettlePendingClears(t) ==
    /\ pc[t] = "settle"
    /\ pending' = [pending EXCEPT ![loc[t].ts] = {}]
    /\ Step(t, "terminal")
    /\ UNCHANGED <<active, phase, mailbox, loc, turn, events, history, sent,
                   dropped>>

\* Input the turn did not get to is recorded before the turn is closed.
SettlePending(t) ==
    /\ pc[t] = "settle"
    /\ RecordInputs(t, pending[loc[t].ts], "terminal", "terminal")
    /\ pending' = [pending EXCEPT ![loc[t].ts] = {}]
    /\ UNCHANGED <<active, phase, mailbox, loc, turn, events, sent>>

\* TurnComplete, or TurnAborted when the task returned Err(TurnAborted).
EmitTerminal(t) ==
    /\ pc[t] = "terminal"
    /\ \E r \in Results : events' = [events EXCEPT ![t] = Append(@, r)]
    /\ Step(t, "release")
    /\ UNCHANGED <<active, pending, phase, mailbox, loc, turn, history, sent,
                   dropped>>

\* Mutant: the slot is released without looking for work that came meanwhile.
ReleaseSlotOnly(t) ==
    /\ pc[t] = "release"
    /\ ClearReserved(t)
    /\ Step(t, "done")
    /\ loc' = [loc EXCEPT ![t] = Blank]
    /\ UNCHANGED <<pending, phase, mailbox, turn, events, history, sent,
                   dropped>>

\* The slot is emptied only if it is still this turn's, and only then is the
\* session woken for pending work.
ReleaseSlot(t) ==
    /\ pc[t] = "release"
    /\ ClearReserved(t)
    /\ Step(t, IF active = [ts |-> loc[t].ts, task |-> None]
               THEN "wake" ELSE "done")
    /\ loc' = [loc EXCEPT ![t] = Blank]
    /\ UNCHANGED <<pending, phase, mailbox, turn, events, history, sent,
                   dropped>>

(***************************************************************************)
(* The specification.                                                      *)
(***************************************************************************)
LoopOp ==
    \/ \E t \in Turns, kind \in OtherKinds : StartOther(kind, t)
    \/ \E reason \in AbortOps \ {"Suspend"} : AbortAll(reason)
    \/ \E m \in Mails : Communicate(m)
    \/ IdleStarts # {} /\ ReserveIdle
    \/ "Suspend" \in AbortOps /\ Suspend

Submit(p) ==
    \/ \E u \in UserInputs : Steer(p, u)
    \/ \E u \in UserInputs, t \in Turns : StartTurn(p, u, t)

IdleStep ==
    \/ RecheckIdle
    \/ RefuseIdle
    \/ \E u \in UserInputs, kind \in IdleStarts, t \in Turns :
          AcceptIdle(u, kind, t)
    \/ SuspendDone

AbortStep(p) == TakeActive(p) \/ StopVictim(p) \/ EmitAborted(p) \/ ClearPending(p)

StartStep(p) ==
    \/ CheckWork(p)
    \/ ReserveForWork(p)
    \/ CollectWork(p)
    \/ \E t \in Turns : FillReserved(p, t)
    \/ DrainMailbox(p)
    \/ AttachState(p)
    \/ InstallTask(p)

TurnStep(t) ==
    \/ BeginTurn(t) \/ CancelPrewarm(t) \/ EnterTurn(t) \/ FailEntry(t)
    \/ DrainPending(t) \/ RecordPending(t) \/ FollowUp(t) \/ RecoverWindow(t)
    \/ FinalAnswer(t) \/ FailSampling(t) \/ AfterAnswer(t) \/ AfterRunTurn(t)
    \/ EndTurn(t)

FinishStep(t) ==
    FinishTake(t) \/ SettlePending(t) \/ EmitTerminal(t) \/ ReleaseSlot(t)

Inject == \E x \in Injections : InjectNoNewTurn(x) \/ InjectHookContext(x)

Next ==
    \/ LoopOp
    \/ IdleStep
    \/ Inject
    \/ \E p \in {Loop} \cup Routers : Submit(p)
    \/ \E p \in Guards : GuardianAbort(p)
    \/ \E p \in Procs : AbortStep(p) \/ StartStep(p)
    \/ \E t \in Turns : TurnStep(t) \/ FinishStep(t)

Spec == Init /\ [][Next]_vars

\* The runtime polls every ready task, and the waits inside a handler are
\* bounded (the grace period of an abort is 100 ms).
Fairness ==
    /\ WF_vars(IdleStep)
    /\ \A p \in Procs : WF_vars(AbortStep(p)) /\ WF_vars(StartStep(p))
    /\ \A t \in Turns : WF_vars(TurnStep(t)) /\ WF_vars(FinishStep(t))

FairSpec == Spec /\ Fairness

(***************************************************************************)
(* Properties.                                                             *)
(***************************************************************************)
IsTerminal(e) == e \in {"Complete", "Aborted", "Suspended"}
Terminals(t) == {k \in DOMAIN events[t] : IsTerminal(events[t][k])}
Victims == {loc[p].victim : p \in Procs}

\* Where an accepted item still is: carried by a process, an input of a turn,
\* waiting in a buffer or the mailbox, recorded or discarded.
Carried == UNION {loc[p].items : p \in Procs}

Owned == UNION {turn[t].input : t \in Turns}

Buffered == UNION {pending[s] : s \in TStates \ FreeStates}

Reachable == mailbox \cup history \cup dropped \cup Carried \cup Owned \cup Buffered

\* The assertion start_task makes twice, debug_assert!(turn.task.is_none()):
\* no task is installed when start_task attaches to the slot or fills it.
StartSlotFree ==
    \A p \in Procs : pc[p] \in {"attach", "install"} => active.task = None

\* A turn gets at most one terminal event, and nothing after it.
OneTerminal ==
    \A t \in Turns : \A k \in Terminals(t) : k = Len(events[t])

\* A turn whose task is gone, and which no aborter still holds, has had its
\* terminal event: clients never wait for a turn that vanished.
NoVanishedTurn ==
    \A t \in Turns : pc[t] = "done" /\ t \notin Victims => Terminals(t) # {}

\* Every accepted item is somewhere it will be recorded from, recorded, or
\* was discarded by an abort or a failing turn.
NoSilentLoss == sent \subseteq Reachable

\* An item is in one place at a time, so it is never delivered twice: what a
\* drain or a take moved is not left behind for another process to take.
OnePlace ==
    /\ mailbox \cap history = {}
    /\ \A p \in Procs : loc[p].items \cap (mailbox \cup history) = {}
    /\ \A p, q \in Procs : p # q => loc[p].items \cap loc[q].items = {}
    /\ \A s \in TStates \ FreeStates :
          /\ pending[s] \cap (mailbox \cup history) = {}
          /\ \A p \in Procs : loc[p].items \cap pending[s] = {}
          /\ \A r \in TStates \ FreeStates :
                r # s => pending[r] \cap pending[s] = {}

\* Work that asks for a turn is never left in the mailbox of a session in
\* which nothing runs: the wake-up that would start the turn is not lost.
Quiet ==
    /\ \A p \in Procs : pc[p] \in {"idle", "exited", "unborn", "created", "done"}
    /\ pc[Loop] = "idle"
NoStuckWork == Quiet => ~WorkWaiting

\* At most one task that was not told to stop is executing a turn.
SingleRunner ==
    \A t, u \in Turns :
        /\ pc[t] \in BodyPCs /\ ~turn[t].cancelled
        /\ pc[u] \in BodyPCs /\ ~turn[u].cancelled
        => t = u

\* A RunningTask has one owner: the slot or one aborting process.
HandleUnique ==
    /\ \A p \in Procs : loc[p].victim # None => loc[p].victim # active.task
    /\ \A p, q \in Procs :
          loc[p].victim # None /\ loc[p].victim = loc[q].victim => p = q

\* A cancelled turn is answered: its terminal event follows.
CancelAnswered ==
    \A t \in Turns : turn[t].cancelled ~> Terminals(t) # {}
=============================================================================
