---------------------------- MODULE TurnWaiters ----------------------------
(***************************************************************************)
(* The questions a turn's tools put to the client (exec and patch          *)
(* approvals, request_permissions, request_user_input, MCP tool approvals) *)
(* and how their answers find the tool that waits: the maps of oneshot     *)
(* senders in TurnState (core/src/state/turn.rs), the request_ and notify_ *)
(* methods of Session (session/mod.rs), the tool gate                      *)
(* (tools/parallel.rs), the ends of a turn that drop the senders           *)
(* (tasks/mod.rs) and the app server's prompts                             *)
(* (app-server/src/bespoke_event_handling.rs).                             *)
(***************************************************************************)
EXTENDS Naturals

CONSTANTS
    MaxTurns,     \* bound: turns of the thread, numbered in the order they start
    MaxRequests,  \* bound: tool calls that ask the client something
    NoTurn, NoRequest

Turns    == 1..MaxTurns
Requests == 1..MaxRequests  \* in the order the calls are made; also their call ids

ASSUME WaitersAssumption ==
    /\ MaxTurns \in Nat \ {0} /\ MaxRequests \in Nat \ {0}
    /\ NoTurn \notin Turns /\ NoRequest \notin Requests

VARIABLES
    slot,     \* active_turn: the turn in it, or NoTurn
    phase,    \* turn -> how far its task is
    waiters,  \* turn -> the requests whose sender its TurnState holds
    tool,     \* request -> the tool call that makes it
    reply,    \* request -> its oneshot channel
    prompt,   \* request -> the server request shown to the client for it
    inbox,    \* the client's answers in the submission queue
    notify,   \* the response the submission loop is applying
    grants,   \* turn -> granted_permissions of its TurnState, by request
    session   \* granted_permissions of the session, by request

turnVars == <<slot, phase>>
grantVars == <<grants, session>>
vars == <<turnVars, waiters, tool, reply, prompt, inbox, notify, grantVars>>

Kinds     == {"approval", "permissions", "ask", "mcp"}
Exclusive == {"permissions", "ask"}
Decisions == {"yes", "session", "no", "abort"}

NoTool   == [pc |-> "idle", kind |-> "none", turn |-> NoTurn, home |-> NoTurn,
             result |-> "none", about |-> NoRequest]
NoNotify == [pc |-> "idle", to |-> NoRequest, state |-> NoTurn,
             answer |-> [about |-> NoRequest, decision |-> "none"]]
Answers  == [about : Requests, decision : Decisions]

\* What a oneshot channel holds: nothing yet, an answer, nothing ever (its sender
\* was dropped), or it has lost its receiver.
Channel(s, a) == [state |-> s, answer |-> a]
Open    == Channel("open", NoNotify.answer)
Closed  == Channel("closed", NoNotify.answer)
Gone    == Channel("gone", NoNotify.answer)
Sent(a) == Channel("sent", a)

Init ==
    /\ slot = NoTurn /\ phase = [t \in Turns |-> "unborn"]
    /\ waiters = [t \in Turns |-> {}]
    /\ tool = [r \in Requests |-> NoTool] /\ reply = [r \in Requests |-> Open]
    /\ prompt = [r \in Requests |-> "none"]
    /\ inbox = {} /\ notify = NoNotify
    /\ grants = [t \in Turns |-> {}] /\ session = {}

-----------------------------------------------------------------------------
(* Requests and their keys. *)

InFlight(r)  == tool[r].pc \in {"called", "announce", "await"}
Asking(t)    == {r \in Requests : InFlight(r) /\ tool[r].turn = t}
Cancelled(t) == phase[t] \in {"cancelled", "stopped", "ended"}

\* Approvals and permission requests are keyed by call id, user input (which MCP
\* approvals use too) by the turn's sub_id.
Key(r) ==
    CASE tool[r].kind = "approval"        -> <<"approvals", r>>
      [] tool[r].kind = "permissions"     -> <<"permissions", r>>
      [] tool[r].kind \in {"ask", "mcp"}  -> <<"user_input", tool[r].turn>>

\* The entries of t's TurnState under the key of r: at most one.
Entry(t, r) == {w \in waiters[t] : Key(w) = Key(r)}

Send(w, a) == reply' = [reply EXCEPT ![w] = IF @ = Open THEN Sent(a) ELSE @]
Drop(rs)   == [r \in Requests |->
                 IF r \in rs /\ reply[r] = Open THEN Closed ELSE reply[r]]

\* The type of the state; a map holds one sender under a key.
TypeOK ==
    /\ slot \in Turns \cup {NoTurn}
    /\ phase \in [Turns -> {"unborn", "running", "finishing", "taken", "cancelled",
                            "stopped", "ended"}]
    /\ waiters \in [Turns -> SUBSET Requests]
    /\ \A t \in Turns : \A r, q \in waiters[t] : Key(r) = Key(q) => r = q
    /\ \A r \in Requests :
         /\ tool[r].pc \in {"idle", "called", "announce", "await", "done"}
         /\ tool[r].kind \in Kinds \cup {"none"}
         /\ {tool[r].turn, tool[r].home} \subseteq Turns \cup {NoTurn}
         /\ tool[r].result \in Decisions \cup {"none"}
         /\ reply[r] \in {Open, Closed, Gone} \cup {Sent(a) : a \in Answers}
    /\ prompt \in [Requests -> {"none", "shown", "closed", "lost"}]
    /\ inbox \subseteq Answers
    /\ notify.pc \in {"idle", "record", "send"}
    /\ grants \in [Turns -> SUBSET Requests] /\ session \subseteq Requests

-----------------------------------------------------------------------------
(* The tool's side. *)

\* handle_tool_call_with_source: admission through the parallel-execution gate,
\* a read lock for tools that may run beside others, else a write lock.
Admitted(t, k) ==
    IF k \in Exclusive
    THEN Asking(t) = {}
    ELSE \A q \in Asking(t) : tool[q].kind \notin Exclusive

Call(r, k) ==
    /\ tool[r] = NoTool /\ \A q \in 1..(r - 1) : tool[q] # NoTool
    /\ slot # NoTurn /\ phase[slot] = "running"
    /\ Admitted(slot, k)
    /\ tool' = [tool EXCEPT ![r] = [NoTool EXCEPT !.pc = "called", !.kind = k,
                                                  !.turn = slot]]
    /\ UNCHANGED <<turnVars, waiters, reply, prompt, inbox, notify, grantVars>>

\* Mutant: the new sender does not replace an entry under its key.
RegisterBeside(r) ==
    /\ tool[r].pc = "called"
    /\ tool' = [tool EXCEPT ![r].pc = "announce", ![r].home = slot]
    /\ IF slot = NoTurn
       THEN reply' = Drop({r}) /\ UNCHANGED waiters
       ELSE waiters' = [waiters EXCEPT ![slot] = @ \cup {r}] /\ UNCHANGED reply
    /\ UNCHANGED <<turnVars, prompt, inbox, notify, grantVars>>

\* Under the lock of active_turn the sender goes into the TurnState of whichever
\* turn is active; an entry it replaces is dropped, and so is the sender itself
\* when there is no turn.
Register(r) ==
    /\ tool[r].pc = "called"
    /\ tool' = [tool EXCEPT ![r].pc = "announce", ![r].home = slot]
    /\ IF slot = NoTurn
       THEN /\ reply' = Drop({r})
            /\ UNCHANGED waiters
       ELSE /\ reply' = Drop(Entry(slot, r))
            /\ waiters' = [waiters EXCEPT ![slot] = (@ \ Entry(slot, r)) \cup {r}]
    /\ UNCHANGED <<turnVars, prompt, inbox, notify, grantVars>>

\* send_event: the app server shows the prompt.
Announce(r) ==
    /\ tool[r].pc = "announce"
    /\ tool' = [tool EXCEPT ![r].pc = "await"]
    /\ prompt' = [prompt EXCEPT ![r] = "shown"]
    /\ UNCHANGED <<turnVars, waiters, reply, inbox, notify, grantVars>>

\* Mutant: an MCP approval takes the first answer it is given for its own.
AcceptsAny(r) == reply[r].state = "sent"

\* What the tool makes of its channel.  An MCP approval looks its own question
\* up in the answers and takes any other answer for an abort.
Accepts(r) ==
    /\ reply[r].state = "sent"
    /\ tool[r].kind = "mcp" => reply[r].answer.about = r

Done(r, result, about) ==
    /\ tool' = [tool EXCEPT ![r].pc = "done", ![r].result = result, ![r].about = about]
    /\ reply' = [reply EXCEPT ![r] = Gone]

\* rx.await.  request_permissions looks at its cancellation token first.
Return(r) ==
    /\ tool[r].pc = "await" /\ reply[r] # Open
    /\ tool[r].kind = "permissions" => ~Cancelled(tool[r].turn)
    /\ IF Accepts(r)
       THEN Done(r, reply[r].answer.decision, reply[r].answer.about)
       ELSE Done(r, "abort", NoRequest)
    /\ UNCHANGED <<turnVars, waiters, prompt, inbox, notify, grantVars>>

\* The cancelled arm of request_permissions: its entry is removed from the turn
\* that is active by now, if it is there.
CancelPermissions(r) ==
    /\ tool[r].pc = "await" /\ tool[r].kind = "permissions"
    /\ Cancelled(tool[r].turn)
    /\ Done(r, "abort", NoRequest)
    /\ waiters' = [t \in Turns |-> waiters[t] \ (IF t = slot THEN {r} ELSE {})]
    /\ UNCHANGED <<turnVars, prompt, inbox, notify, grantVars>>

\* A cancelled turn aborts the tools that have not reached an outcome, wherever
\* they are; the receiver goes, the sender stays where it is.
DropTool(r) ==
    /\ InFlight(r) /\ Cancelled(tool[r].turn)
    /\ Done(r, "abort", NoRequest)
    /\ UNCHANGED <<turnVars, waiters, prompt, inbox, notify, grantVars>>

-----------------------------------------------------------------------------
(* The turn. *)

\* abort_pending_server_requests: every prompt of the thread is taken back, with an
\* error that submits no answer.  "lost" marks those of a turn that goes on.
Withdraw(t) ==
    prompt' = [p \in Requests |->
        IF prompt[p] # "shown" THEN prompt[p]
        ELSE IF tool[p].turn # t /\ InFlight(p) /\ ~Cancelled(tool[p].turn) THEN "lost"
        ELSE "closed"]

\* A task is installed and sends TurnStarted.
StartTurn(t) ==
    /\ slot = NoTurn
    /\ phase[t] = "unborn" /\ \A u \in 1..(t - 1) : phase[u] # "unborn"
    /\ slot' = t /\ phase' = [phase EXCEPT ![t] = "running"]
    /\ Withdraw(t)
    /\ UNCHANGED <<waiters, tool, reply, inbox, notify, grantVars>>

\* on_task_finished, after the last tool: the task leaves the slot, the turn stays.
FinishTask(t) ==
    /\ slot = t /\ phase[t] = "running" /\ Asking(t) = {}
    /\ phase' = [phase EXCEPT ![t] = "finishing"]
    /\ UNCHANGED <<slot, waiters, tool, reply, prompt, inbox, notify, grantVars>>

\* TurnComplete, then the slot is cleared if it still holds this turn; the
\* TurnState goes with the last reference to it.
CompleteTurn(t) ==
    /\ phase[t] = "finishing"
    /\ phase' = [phase EXCEPT ![t] = "ended"]
    /\ slot' = IF slot = t THEN NoTurn ELSE slot
    /\ Withdraw(t)
    /\ reply' = Drop(waiters[t]) /\ waiters' = [waiters EXCEPT ![t] = {}]
    /\ UNCHANGED <<tool, inbox, notify, grantVars>>

\* Mutant: the waiters are dropped before the task is cancelled.
TakeClears(t) ==
    /\ slot = t
    /\ slot' = NoTurn
    /\ phase' = [phase EXCEPT ![t] = IF @ = "running" THEN "taken" ELSE @]
    /\ reply' = Drop(waiters[t]) /\ waiters' = [waiters EXCEPT ![t] = {}]

\* abort_all_tasks or abort_turn_if_active takes the turn out of the slot.  A turn
\* whose task has left already is finished by on_task_finished.
TakeTurn(t) ==
    /\ slot = t
    /\ slot' = NoTurn
    /\ phase' = [phase EXCEPT ![t] = IF @ = "running" THEN "taken" ELSE @]
    /\ UNCHANGED waiters /\ UNCHANGED reply

Interrupt(t) ==
    /\ TakeTurn(t)
    /\ UNCHANGED <<tool, prompt, inbox, notify, grantVars>>

\* handle_task_abort cancels the token ...
CancelTask(t) ==
    /\ phase[t] = "taken"
    /\ phase' = [phase EXCEPT ![t] = "cancelled"]
    /\ UNCHANGED <<slot, waiters, tool, reply, prompt, inbox, notify, grantVars>>

\* ... waits for the task, but not for longer than the grace period, aborts it and
\* sends TurnAborted.
StopTask(t) ==
    /\ phase[t] = "cancelled"
    /\ phase' = [phase EXCEPT ![t] = "stopped"]
    /\ Withdraw(t)
    /\ UNCHANGED <<slot, waiters, tool, reply, inbox, notify, grantVars>>

\* clear_pending: the senders of the turn are dropped.
ClearPending(t) ==
    /\ phase[t] = "stopped"
    /\ phase' = [phase EXCEPT ![t] = "ended"]
    /\ reply' = Drop(waiters[t]) /\ waiters' = [waiters EXCEPT ![t] = {}]
    /\ UNCHANGED <<slot, tool, prompt, inbox, notify, grantVars>>

-----------------------------------------------------------------------------
(* The client and the submission loop. *)

\* What the client may decide: a decision or an answer ("yes"), to cancel a command
\* or patch ("abort"), to grant permissions for the turn ("yes") or the session, or
\* to grant nothing ("no").  A prompt that fails is answered with a refusal; granted
\* paths that cannot be localized are answered with an interrupt ("abort").
Offered(k) ==
    CASE k = "approval"    -> {"yes", "abort"}
      [] k = "permissions" -> {"yes", "session", "no", "abort"}
      [] OTHER             -> {"yes"}

\* Mutant: a prompt that fails submits nothing.
SubmitUnlessFailed(p, d) ==
    /\ prompt[p] = "shown" /\ d \in Offered(tool[p].kind)
    /\ prompt' = [prompt EXCEPT ![p] = "closed"]
    /\ inbox' = IF d = "no" THEN inbox ELSE inbox \cup {[about |-> p, decision |-> d]}
    /\ UNCHANGED <<turnVars, waiters, tool, reply, notify, grantVars>>

Submit(p, d) ==
    /\ prompt[p] = "shown" /\ d \in Offered(tool[p].kind)
    /\ prompt' = [prompt EXCEPT ![p] = "closed"]
    /\ inbox' = inbox \cup {[about |-> p, decision |-> d]}
    /\ UNCHANGED <<turnVars, waiters, tool, reply, notify, grantVars>>

\* Op::ExecApproval or PatchApproval with Abort, Op::Interrupt: interrupt_task,
\* whatever the turn.
NotifyAbort(a) ==
    /\ notify = NoNotify /\ a.decision = "abort"
    /\ inbox' = inbox \ {a}
    /\ IF slot = NoTurn THEN UNCHANGED <<turnVars, waiters, reply>> ELSE TakeTurn(slot)
    /\ UNCHANGED <<tool, prompt, notify, grantVars>>

\* Mutant: a permissions response is sent before it is recorded.
NotifySendsFirst(a) ==
    /\ notify = NoNotify /\ a.decision # "abort"
    /\ inbox' = inbox \ {a}
    /\ IF slot = NoTurn \/ Entry(slot, a.about) = {}
       THEN UNCHANGED <<waiters, reply, notify>>
       ELSE \E w \in Entry(slot, a.about) :
              /\ waiters' = [waiters EXCEPT ![slot] = @ \ {w}]
              /\ Send(w, a)
              /\ notify' = IF tool[w].kind = "permissions"
                           THEN [pc |-> "record", to |-> w, state |-> slot, answer |-> a]
                           ELSE notify
    /\ UNCHANGED <<turnVars, tool, prompt, grantVars>>

\* notify_approval, notify_user_input_response and
\* notify_request_permissions_response: under the lock of active_turn the entry
\* with the answer's key leaves the active turn's TurnState; without one the
\* answer is dropped.  A permissions response is recorded before it is sent.
Notify(a) ==
    /\ notify = NoNotify /\ a.decision # "abort"
    /\ inbox' = inbox \ {a}
    /\ IF slot = NoTurn \/ Entry(slot, a.about) = {}
       THEN UNCHANGED <<waiters, reply, notify>>
       ELSE \E w \in Entry(slot, a.about) :
              /\ waiters' = [waiters EXCEPT ![slot] = @ \ {w}]
              /\ IF tool[w].kind = "permissions"
                 THEN /\ notify' = [pc |-> "record", to |-> w, state |-> slot, answer |-> a]
                      /\ UNCHANGED reply
                 ELSE /\ Send(w, a)
                      /\ UNCHANGED notify
    /\ UNCHANGED <<turnVars, tool, prompt, grantVars>>

\* Mutant: the grant goes to the turn that is active when it is recorded.
RecordInActive ==
    /\ notify.pc = "record"
    /\ grants' = [t \in Turns |->
                    IF t = slot /\ notify.answer.decision = "yes"
                    THEN grants[t] \cup {notify.to} ELSE grants[t]]
    /\ session' = IF notify.answer.decision = "session"
                  THEN session \cup {notify.to} ELSE session
    /\ notify' = [notify EXCEPT !.pc = "send"]
    /\ UNCHANGED <<turnVars, waiters, tool, reply, prompt, inbox>>

\* record_granted_request_permissions_for_turn: into the TurnState the entry was
\* found in, or into the session; an empty grant is not recorded.
RecordGrant ==
    /\ notify.pc = "record"
    /\ grants' = [grants EXCEPT ![notify.state] =
                     IF notify.answer.decision = "yes" THEN @ \cup {notify.to} ELSE @]
    /\ session' = IF notify.answer.decision = "session"
                  THEN session \cup {notify.to} ELSE session
    /\ notify' = [notify EXCEPT !.pc = "send"]
    /\ UNCHANGED <<turnVars, waiters, tool, reply, prompt, inbox>>

SendGrant ==
    /\ notify.pc = "send"
    /\ Send(notify.to, notify.answer)
    /\ notify' = NoNotify
    /\ UNCHANGED <<turnVars, waiters, tool, prompt, inbox, grantVars>>

-----------------------------------------------------------------------------
ToolStep(r) == \/ Register(r) \/ Announce(r) \/ Return(r)
               \/ CancelPermissions(r) \/ DropTool(r)
EndStep(t)  == CompleteTurn(t) \/ CancelTask(t) \/ StopTask(t) \/ ClearPending(t)
LoopStep    == (\E a \in inbox : NotifyAbort(a) \/ Notify(a)) \/ RecordGrant \/ SendGrant
Answer(p)   == \E d \in Decisions : Submit(p, d)

Next ==
    \/ \E r \in Requests, k \in Kinds : Call(r, k)
    \/ \E r \in Requests : ToolStep(r) \/ Answer(r)
    \/ \E t \in Turns : StartTurn(t) \/ FinishTask(t) \/ Interrupt(t) \/ EndStep(t)
    \/ LoopStep

Spec == Init /\ [][Next]_vars

\* Tasks that are ready run: the tools, an abort or finish that has begun, and the
\* submission loop.  The client answers, or fails, every prompt left to it.
Fairness ==
    /\ \A r \in Requests : WF_vars(ToolStep(r)) /\ WF_vars(Answer(r))
    /\ \A t \in Turns : WF_vars(EndStep(t))
    /\ WF_vars(LoopStep)

FairSpec == Spec /\ Fairness

-----------------------------------------------------------------------------
(* Properties. *)

\* A tool acts on the client's answer to its own prompt only: a late answer, one
\* to an earlier request under the same key or one to another call of the turn
\* never passes for its own.  request_user_input is excepted in a turn that also
\* asks for MCP approvals, which leave prompts under the same key behind.
OwnAnswer ==
    \A r \in Requests :
        /\ tool[r].pc = "done" /\ tool[r].result # "abort"
        /\ tool[r].kind = "ask" => \A q \in Requests : tool[q].turn = tool[r].turn
                                                      => tool[q].kind # "mcp"
        => tool[r].about = r

\* An interrupted turn's token is cancelled before its waiters are dropped
\* (abort_all_tasks): a request that its own turn holds is never turned into an
\* abort while that turn still runs uncancelled.  MCP approvals, which replace
\* one another, are not covered.
CancelBeforeDrop ==
    \A r \in Requests :
        tool[r].kind # "mcp" /\ tool[r].home = tool[r].turn /\ reply[r] = Closed
            => Cancelled(tool[r].turn)

\* A turn-scoped grant is recorded in the turn whose TurnState held the request,
\* even if that turn ends between the lookup and the recording.
GrantOrigin ==
    \A t \in Turns : \A r \in grants[t] : tool[r].home = t

\* A tool that is told of a grant finds it recorded: in its turn's state, or in
\* the session's.
GrantBeforeReply ==
    \A r \in Requests :
        tool[r].kind = "permissions" /\ tool[r].pc = "done"
            => /\ tool[r].result = "yes" => r \in grants[tool[r].home]
               /\ tool[r].result = "session" => r \in session

\* Every request comes back: answered, aborted or dropped with its turn, unless
\* the terminal event of another turn took its prompt away.
RequestsReturn ==
    \A r \in Requests : InFlight(r) ~> (tool[r].pc = "done" \/ prompt[r] = "lost")
=============================================================================
