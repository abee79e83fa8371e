------------------------- MODULE TurnWaitersProofs -------------------------
(***************************************************************************)
(* Proofs about TurnWaiters for any number of turns and requests.          *)
(***************************************************************************)
EXTENDS TurnWaiters, TLAPS

(***************************************************************************)
(* The inductive invariant.                                                *)
(***************************************************************************)
TurnPhases == {"unborn", "running", "finishing", "taken", "cancelled", "stopped",
               "ended"}
ToolCalls  == [pc : {"idle", "called", "announce", "await", "done"},
               kind : Kinds \cup {"none"},
               turn : Turns \cup {NoTurn}, home : Turns \cup {NoTurn},
               result : Decisions \cup {"none"}, about : Requests \cup {NoRequest}]
Channels   == {Open, Closed, Gone} \cup {Sent(a) : a \in Answers}
Responses  == [pc : {"idle", "record", "send"}, to : Requests \cup {NoRequest},
               state : Turns \cup {NoTurn},
               answer : Answers \cup {NoNotify.answer}]

\* The type of the state, with the records in full.
Types ==
    /\ slot \in Turns \cup {NoTurn}
    /\ phase \in [Turns -> TurnPhases]
    /\ waiters \in [Turns -> SUBSET Requests]
    /\ tool \in [Requests -> ToolCalls]
    /\ reply \in [Requests -> Channels]
    /\ prompt \in [Requests -> {"none", "shown", "closed", "lost"}]
    /\ inbox \in SUBSET Answers
    /\ notify \in Responses
    /\ grants \in [Turns -> SUBSET Requests] /\ session \in SUBSET Requests

Begun(r)   == tool[r].pc # "idle"
Registered(r) == tool[r].pc \notin {"idle", "called"}
Announced(r) == tool[r].pc \in {"await", "done"}

\* A tool call has a kind and a turn that has started; its channel is open
\* until it is registered and has no receiver once it has returned; only a
\* running turn is in the slot's charge.
CallShape ==
    /\ \A r \in Requests :
         /\ Begun(r) => /\ tool[r].kind \in Kinds /\ tool[r].turn \in Turns
                        /\ phase[tool[r].turn] # "unborn"
         /\ ~Begun(r) => tool[r] = NoTool
         /\ ~Registered(r) => reply[r] = Open
         /\ tool[r].pc = "done" <=> reply[r] = Gone
         /\ prompt[r] # "none" => Announced(r)
    /\ \A t \in Turns : phase[t] = "running" => slot = t

\* A request that is registered while its turn runs is in its turn's state.
AtHome ==
    \A r \in Requests :
        Registered(r) /\ phase[tool[r].turn] = "running" => tool[r].home = tool[r].turn

\* A TurnState holds the requests that were registered in it, one by key.
Held ==
    \A t \in Turns :
        /\ \A r \in waiters[t] : Registered(r) /\ tool[r].home = t
        /\ \A r, q \in waiters[t] : Key(r) = Key(q) => r = q

\* The tool gate: a call that excludes others is the only one of its turn.
Exclusion ==
    \A r, q \in Requests :
        /\ r # q /\ InFlight(r) /\ InFlight(q) /\ tool[r].turn = tool[q].turn
        => tool[r].kind \notin Exclusive

\* A prompt that is no longer shown and whose answer has been handled.
Spent(p) ==
    Announced(p) /\ prompt[p] # "shown" /\ \A a \in inbox : a.about # p

\* A prompt is answered once.
OnceAnswered ==
    /\ \A a \in inbox : Announced(a.about) /\ prompt[a.about] # "shown"
    /\ \A a, b \in inbox : a.about = b.about => a = b
    /\ \A r \in Requests, a \in Answers : reply[r] = Sent(a) => Spent(a.about)
    /\ notify.pc # "idle" => Spent(notify.answer.about)

\* The response being applied is the one to the permissions request it is for;
\* a grant has been recorded before it is sent.
Recorded(r, d) ==
    /\ d = "yes" => tool[r].home \in Turns /\ r \in grants[tool[r].home]
    /\ d = "session" => r \in session

Applying ==
    notify.pc # "idle" =>
        LET r == notify.to
        IN /\ r \in Requests /\ Registered(r) /\ tool[r].kind = "permissions"
           /\ notify.answer \in Answers /\ notify.answer.about = r
           /\ notify.state \in Turns /\ notify.state = tool[r].home
           /\ notify.pc = "send" => Recorded(r, notify.answer.decision)

GrantsRecorded ==
    /\ \A t \in Turns : \A r \in grants[t] : Registered(r) /\ tool[r].home = t
    /\ \A r \in Requests : tool[r].kind = "permissions" =>
         /\ \A a \in Answers : reply[r] = Sent(a) => Recorded(r, a.decision)
         /\ tool[r].pc = "done" => Recorded(r, tool[r].result)

\* A turn without MCP approvals.
NoMcp(t) == \A q \in Requests : tool[q].turn = t => tool[q].kind # "mcp"

\* The requests whose answers cannot be mistaken: all but MCP approvals, which
\* check themselves, and user input of turns with MCP approvals.
Sure(r) == tool[r].kind # "mcp" /\ (tool[r].kind = "ask" => NoMcp(tool[r].turn))

OwnReplies ==
    \A r \in Requests :
        /\ \A a \in Answers : Sure(r) /\ reply[r] = Sent(a) => a.about = r
        /\ tool[r].pc = "done" /\ tool[r].result # "abort"
              /\ (tool[r].kind = "ask" => NoMcp(tool[r].turn)) => tool[r].about = r

\* A returned request of which nothing is left to come.
Quiet(q) == tool[q].pc = "done" /\ prompt[q] # "shown" /\ \A a \in inbox : a.about # q

\* A user-input request that returned in a running turn was answered, and of
\* two in one turn one is over, answer and all.
AskOne ==
    /\ \A q \in Requests :
         tool[q].kind = "ask" /\ NoMcp(tool[q].turn) /\ tool[q].pc = "done"
            /\ phase[tool[q].turn] = "running" => Quiet(q)
    /\ \A q, r \in Requests :
         /\ q # r /\ tool[q].kind = "ask" /\ tool[r].kind = "ask"
         /\ tool[q].turn = tool[r].turn /\ NoMcp(tool[q].turn)
         => Quiet(q) \/ Quiet(r)

WaitersInv ==
    /\ Types /\ CallShape /\ AtHome /\ Held /\ Exclusion
    /\ OnceAnswered /\ Applying /\ GrantsRecorded
    /\ OwnReplies /\ AskOne /\ CancelBeforeDrop

(***************************************************************************)
(* Channels and keys.                                                      *)
(***************************************************************************)

\* The states of a channel are told apart, and a sent answer can be read back.
LEMMA ChannelsDiffer ==
    /\ Open # Closed /\ Open # Gone /\ Closed # Gone
    /\ \A a : Sent(a) \notin {Open, Closed, Gone}
    /\ \A a, b : Sent(a) = Sent(b) => a = b
    /\ \A a : Sent(a).state = "sent" /\ Sent(a).answer = a
    /\ "sent" \notin {Open.state, Closed.state, Gone.state}
BY DEF Open, Closed, Gone, Sent, Channel

\* What a tool accepts is an answer that was sent to it.
LEMMA AcceptedIsSent ==
    ASSUME NEW c \in Channels, c.state = "sent"
    PROVE  \E a \in Answers : c = Sent(a) /\ c.answer = a
BY ChannelsDiffer DEF Channels

\* Two requests share a key only if both are user input of one turn.
LEMMA SharedKey ==
    ASSUME NEW r \in Requests, NEW q \in Requests,
           tool[r].kind \in Kinds, tool[q].kind \in Kinds, Key(r) = Key(q)
    PROVE  \/ r = q /\ tool[r].kind \in {"approval", "permissions"}
                    /\ tool[q].kind = tool[r].kind
           \/ /\ tool[r].kind \in {"ask", "mcp"} /\ tool[q].kind \in {"ask", "mcp"}
              /\ tool[r].turn = tool[q].turn
<1> DEFINE K(k, x, t) == CASE k = "approval"        -> <<"approvals", x>>
                           [] k = "permissions"     -> <<"permissions", x>>
                           [] k \in {"ask", "mcp"}  -> <<"user_input", t>>
<1>1. \A x, t : /\ K("approval", x, t) = <<"approvals", x>>
                /\ K("permissions", x, t) = <<"permissions", x>>
                /\ K("ask", x, t) = <<"user_input", t>>
                /\ K("mcp", x, t) = <<"user_input", t>>
  OBVIOUS
<1>2. \A x : Key(x) = K(tool[x].kind, x, tool[x].turn)
  BY DEF Key
<1> HIDE DEF K
<1>3. tool[r].kind \in {"approval", "permissions", "ask", "mcp"}
      /\ tool[q].kind \in {"approval", "permissions", "ask", "mcp"}
  BY DEF Kinds
<1>4. /\ \A x, y : <<"approvals", x>> = <<"approvals", y>> => x = y
      /\ \A x, y : <<"permissions", x>> = <<"permissions", y>> => x = y
      /\ \A x, y : <<"user_input", x>> = <<"user_input", y>> => x = y
      /\ \A x, y : /\ <<"approvals", x>> # <<"permissions", y>>
                   /\ <<"approvals", x>> # <<"user_input", y>>
                   /\ <<"permissions", x>> # <<"user_input", y>>
  OBVIOUS
<1> QED  BY <1>1, <1>2, <1>3, <1>4

\* The key of a request stays.
LEMMA SameKey ==
    ASSUME NEW r, tool'[r].kind = tool[r].kind, tool'[r].turn = tool[r].turn
    PROVE  Key(r)' = Key(r)
BY DEF Key

(***************************************************************************)
(* Init.                                                                   *)
(***************************************************************************)

\* Nothing has been asked: the invariant holds.
LEMMA InitInv == Init => WaitersInv
<1> SUFFICES ASSUME Init  PROVE WaitersInv
  OBVIOUS
<1>1. NoTool \in ToolCalls /\ NoNotify \in Responses
  BY DEF NoTool, ToolCalls, NoNotify, Responses
<1>2. Types
  BY <1>1 DEF Init, Types, TurnPhases, Channels
<1>3. \A r \in Requests : tool[r].pc = "idle" /\ tool[r].kind = "none"
                          /\ tool[r] = NoTool
  BY DEF Init, NoTool
<1>4. CallShape /\ AtHome /\ Held /\ Exclusion
  BY <1>3, ChannelsDiffer DEF Init, CallShape, AtHome, Held, Exclusion, Begun, Registered, InFlight,
              Announced
<1>5. notify.pc = "idle" /\ \A r \in Requests : reply[r] = Open
  BY DEF Init, NoNotify
<1>6. OnceAnswered /\ Applying /\ GrantsRecorded /\ CancelBeforeDrop
  BY <1>3, <1>5, ChannelsDiffer DEF Init, OnceAnswered, Applying, GrantsRecorded,
     CancelBeforeDrop
<1>7. OwnReplies /\ AskOne
  BY <1>3, <1>5, ChannelsDiffer DEF OwnReplies, AskOne
<1> QED  BY <1>2, <1>4, <1>6, <1>7 DEF WaitersInv

(***************************************************************************)
(* The steps of turns.                                                     *)
(***************************************************************************)

\* What a step of a turn does to the prompts and replies: it takes prompts
\* back, and drops only senders of a turn that has been cancelled or ended.
Retreats ==
    /\ inbox' \subseteq inbox
    /\ \A p \in Requests : \/ prompt'[p] = prompt[p]
                           \/ prompt[p] = "shown" /\ prompt'[p] \in {"closed", "lost"}
    /\ \A t \in Turns : waiters'[t] \subseteq waiters[t]
    /\ \A r \in Requests :
          \/ reply'[r] = reply[r]
          \/ /\ reply[r] = Open /\ reply'[r] = Closed
             /\ \E t \in Turns : r \in waiters[t] /\ Cancelled(t)'

\* How phases move.
Advances ==
    /\ \A t \in Turns :
          \/ phase'[t] = phase[t]
          \/ /\ phase[t] # "unborn" /\ phase'[t] \notin {"unborn", "running"}
             /\ Cancelled(t) => Cancelled(t)'
          \/ phase[t] = "unborn" /\ phase'[t] = "running"
    /\ \A t \in Turns : phase'[t] = "running" => slot' = t

\* A step that only moves turns forward and takes things back keeps the
\* invariant.
LEMMA TurnStep ==
    ASSUME WaitersInv, Types', Retreats, Advances,
           UNCHANGED <<tool, notify, grants, session>>
    PROVE  WaitersInv'
<1> USE DEF Begun, Registered, Announced
<1>1. Types /\ CallShape
  BY DEF WaitersInv
<1>2. CallShape'
  <2>1. ASSUME NEW r \in Requests
        PROVE  /\ ~Registered(r) => reply'[r] = Open
               /\ tool[r].pc = "done" <=> reply'[r] = Gone
    BY <1>1, ChannelsDiffer DEF CallShape, Retreats, WaitersInv, Held
  <2>2. \A t \in Turns : phase[t] # "unborn" => phase'[t] # "unborn"
    BY DEF Advances
  <2>3. \A r \in Requests : prompt'[r] # "none" => prompt[r] # "none"
    BY DEF Retreats
  <2> QED  BY <1>1, <2>1, <2>2, <2>3 DEF CallShape, Advances
<1>3. \A r \in Requests : Begun(r) => tool[r].turn \in Turns /\ phase[tool[r].turn] # "unborn"
  BY <1>1 DEF CallShape
<1>4. AtHome'
  BY <1>3 DEF WaitersInv, AtHome, Advances
<1>5. Held'
  <2>1. Held
    BY DEF WaitersInv
  <2>2. \A r : Key(r)' = Key(r)
    BY DEF Key
  <2> QED  BY <2>1, <2>2 DEF Held, Retreats
<1>6. Exclusion'
  BY DEF WaitersInv, Exclusion, InFlight
<1>7. \A p \in Requests : Spent(p) => Spent(p)'
  BY DEF Spent, Retreats
<1>8. \A p \in Requests : Quiet(p) => Quiet(p)'
  BY DEF Quiet, Retreats
<1>9. \A r \in Requests, a \in Answers : reply'[r] = Sent(a) => reply[r] = Sent(a)
  BY ChannelsDiffer DEF Retreats
<1>10. \A a \in Answers : a.about \in Requests
  BY DEF Answers
<1>11. inbox \subseteq Answers /\ (notify.pc # "idle" => notify.answer \in Answers)
  BY <1>1 DEF Types, WaitersInv, Applying
<1>12. OnceAnswered'
  <2>1. OnceAnswered
    BY DEF WaitersInv
  <2>2. \A a \in inbox' : Announced(a.about)' /\ prompt'[a.about] # "shown"
    BY <1>10, <1>11, <2>1 DEF OnceAnswered, Retreats
  <2>3. \A a, b \in inbox' : a.about = b.about => a = b
    BY <2>1 DEF OnceAnswered, Retreats
  <2>4. \A r \in Requests, a \in Answers : reply'[r] = Sent(a) => Spent(a.about)'
    BY <1>7, <1>9, <1>10, <2>1 DEF OnceAnswered
  <2>5. notify'.pc # "idle" => Spent(notify.answer.about)'
    BY <1>7, <1>10, <1>11, <2>1 DEF OnceAnswered
  <2> QED  BY <2>2, <2>3, <2>4, <2>5 DEF OnceAnswered
<1>13. Applying'
  BY DEF WaitersInv, Applying, Recorded
<1>14. GrantsRecorded'
  BY <1>9 DEF WaitersInv, GrantsRecorded, Recorded
<1>15. OwnReplies'
  BY <1>9 DEF WaitersInv, OwnReplies, Sure, NoMcp
<1>16. AskOne'
  <2>1. AskOne
    BY DEF WaitersInv
  <2>2. \A t \in Turns : NoMcp(t)' <=> NoMcp(t)
    BY DEF NoMcp
  <2>3. \A q \in Requests : tool[q].pc = "done" /\ phase'[tool[q].turn] = "running"
           => phase[tool[q].turn] = "running"
    BY <1>3 DEF Advances
  <2>4. \A q \in Requests : tool[q].kind = "ask" => tool[q].turn \in Turns
    BY <1>1 DEF CallShape, NoTool
  <2> QED  BY <1>8, <2>1, <2>2, <2>3, <2>4 DEF AskOne
<1>17. CancelBeforeDrop'
  <2>1. CancelBeforeDrop /\ Held
    BY DEF WaitersInv
  <2> SUFFICES ASSUME NEW r \in Requests, tool[r].kind # "mcp",
                      tool[r].home = tool[r].turn, reply'[r] = Closed
               PROVE  Cancelled(tool[r].turn)'
    BY DEF CancelBeforeDrop
  <2>2. CASE reply[r] = Closed
    <3>1. Begun(r)
      BY <1>1, <2>2, ChannelsDiffer DEF CallShape
    <3> QED  BY <1>3, <2>1, <2>2, <3>1 DEF CancelBeforeDrop, Cancelled, Advances
  <2>3. CASE \E t \in Turns : r \in waiters[t] /\ Cancelled(t)'
    BY <2>1, <2>3 DEF Held
  <2> QED  BY <2>2, <2>3 DEF Retreats
<1> QED
  BY <1>2, <1>4, <1>5, <1>6, <1>12, <1>13, <1>14, <1>15, <1>16, <1>17 DEF WaitersInv

\* Withdraw takes back prompts and nothing else.
LEMMA WithdrawRetreats ==
    ASSUME Types, NEW t \in Turns, Withdraw(t)
    PROVE  /\ prompt' \in [Requests -> {"none", "shown", "closed", "lost"}]
           /\ \A p \in Requests :
                 \/ prompt'[p] = prompt[p]
                 \/ prompt[p] = "shown" /\ prompt'[p] \in {"closed", "lost"}
BY DEF Types, Withdraw

\* Dropping the senders of one turn.
LEMMA DropOfTurn ==
    ASSUME Types, NEW t \in Turns,
           reply' = Drop(waiters[t]), waiters' = [waiters EXCEPT ![t] = {}]
    PROVE  /\ reply' \in [Requests -> Channels]
           /\ waiters' \in [Turns -> SUBSET Requests]
           /\ \A u \in Turns : waiters'[u] \subseteq waiters[u]
           /\ \A r \in Requests :
                 \/ reply'[r] = reply[r]
                 \/ reply[r] = Open /\ reply'[r] = Closed /\ r \in waiters[t]
<1>1. Closed \in Channels
  BY DEF Channels
<1> QED  BY <1>1 DEF Types, Drop

\* A turn starts.
LEMMA StartTurnInv ==
    ASSUME WaitersInv, NEW t \in Turns, StartTurn(t)
    PROVE  WaitersInv'
<1>1. Types /\ CallShape
  BY DEF WaitersInv
<1>2. slot = NoTurn /\ phase[t] = "unborn" /\ slot' = t
      /\ phase' = [phase EXCEPT ![t] = "running"]
      /\ UNCHANGED <<waiters, tool, reply, inbox, notify, grants, session>>
  BY DEF StartTurn, grantVars
<1>3. Withdraw(t)
  BY DEF StartTurn
<1>4. Types'
  BY <1>1, <1>2, <1>3, WithdrawRetreats DEF Types, TurnPhases
<1>5. Retreats
  BY <1>1, <1>2, <1>3, WithdrawRetreats DEF Retreats
<1>6. Advances
  BY <1>1, <1>2, WaitersAssumption DEF Advances, Types, CallShape
<1> QED  BY <1>2, <1>4, <1>5, <1>6, TurnStep

\* The task of a turn finishes, or its token is cancelled.
LEMMA PhaseInv ==
    ASSUME WaitersInv, NEW t \in Turns, FinishTask(t) \/ CancelTask(t)
    PROVE  WaitersInv'
<1>1. Types /\ CallShape
  BY DEF WaitersInv
<1>2. /\ \/ phase[t] = "running" /\ phase' = [phase EXCEPT ![t] = "finishing"]
         \/ phase[t] = "taken" /\ phase' = [phase EXCEPT ![t] = "cancelled"]
      /\ UNCHANGED <<slot, waiters, tool, reply, prompt, inbox, notify, grants, session>>
  BY DEF FinishTask, CancelTask, grantVars
<1>3. Types'
  BY <1>1, <1>2 DEF Types, TurnPhases
<1>4. Retreats
  BY <1>2 DEF Retreats
<1>5. Advances
  BY <1>1, <1>2 DEF Advances, Types, CallShape, Cancelled
<1> QED  BY <1>2, <1>3, <1>4, <1>5, TurnStep

\* TurnAborted takes the prompts back.
LEMMA StopTaskInv ==
    ASSUME WaitersInv, NEW t \in Turns, StopTask(t)
    PROVE  WaitersInv'
<1>1. Types /\ CallShape
  BY DEF WaitersInv
<1>2. /\ phase[t] = "cancelled" /\ phase' = [phase EXCEPT ![t] = "stopped"]
      /\ UNCHANGED <<slot, waiters, tool, reply, inbox, notify, grants, session>>
  BY DEF StopTask, grantVars
<1>3. Withdraw(t)
  BY DEF StopTask
<1>4. Types'
  BY <1>1, <1>2, <1>3, WithdrawRetreats DEF Types, TurnPhases
<1>5. Retreats
  BY <1>1, <1>2, <1>3, WithdrawRetreats DEF Retreats
<1>6. Advances
  BY <1>1, <1>2 DEF Advances, Types, CallShape, Cancelled
<1> QED  BY <1>2, <1>4, <1>5, <1>6, TurnStep

\* A turn completes: its event takes the prompts back, its senders go with it.
LEMMA CompleteTurnInv ==
    ASSUME WaitersInv, NEW t \in Turns, CompleteTurn(t)
    PROVE  WaitersInv'
<1>1. Types /\ CallShape
  BY DEF WaitersInv
<1>2. /\ phase[t] = "finishing" /\ phase' = [phase EXCEPT ![t] = "ended"]
      /\ slot' = IF slot = t THEN NoTurn ELSE slot
      /\ reply' = Drop(waiters[t]) /\ waiters' = [waiters EXCEPT ![t] = {}]
      /\ UNCHANGED <<tool, inbox, notify, grants, session>>
  BY DEF CompleteTurn, grantVars
<1>3. Withdraw(t)
  BY DEF CompleteTurn
<1>4. Types'
  BY <1>1, <1>2, <1>3, WithdrawRetreats, DropOfTurn DEF Types, TurnPhases
<1>5. Cancelled(t)'
  BY <1>1, <1>2 DEF Cancelled, Types
<1>6. Retreats
  BY <1>1, <1>2, <1>3, <1>5, WithdrawRetreats, DropOfTurn DEF Retreats
<1>7. Advances
  BY <1>1, <1>2 DEF Advances, Types, CallShape, Cancelled
<1> QED  BY <1>2, <1>4, <1>6, <1>7, TurnStep

\* An aborted turn drops its senders.
LEMMA ClearPendingInv ==
    ASSUME WaitersInv, NEW t \in Turns, ClearPending(t)
    PROVE  WaitersInv'
<1>1. Types /\ CallShape
  BY DEF WaitersInv
<1>2. /\ phase[t] = "stopped" /\ phase' = [phase EXCEPT ![t] = "ended"]
      /\ reply' = Drop(waiters[t]) /\ waiters' = [waiters EXCEPT ![t] = {}]
      /\ UNCHANGED <<slot, tool, prompt, inbox, notify, grants, session>>
  BY DEF ClearPending, grantVars
<1>3. Types'
  BY <1>1, <1>2, DropOfTurn DEF Types, TurnPhases
<1>4. Cancelled(t)'
  BY <1>1, <1>2 DEF Cancelled, Types
<1>5. Retreats
  BY <1>1, <1>2, <1>4, DropOfTurn DEF Retreats
<1>6. Advances
  BY <1>1, <1>2 DEF Advances, Types, CallShape, Cancelled
<1> QED  BY <1>2, <1>3, <1>5, <1>6, TurnStep

\* A turn is taken out of the slot, by an interrupt or by an abort decision.
LEMMA TakeTurnInv ==
    ASSUME WaitersInv, TakeTurn(slot) \/ UNCHANGED <<slot, phase, waiters, reply>>,
           slot \in Turns \/ UNCHANGED <<slot, phase, waiters, reply>>,
           inbox' \subseteq inbox,
           UNCHANGED <<tool, prompt, notify, grants, session>>
    PROVE  WaitersInv'
<1>1. Types /\ CallShape
  BY DEF WaitersInv
<1>2. CASE UNCHANGED <<slot, phase, waiters, reply>>
  <2>1. Types' /\ Retreats /\ Advances
    BY <1>1, <1>2 DEF Types, Retreats, Advances, CallShape
  <2> QED  BY <2>1, TurnStep
<1>3. CASE TakeTurn(slot) /\ slot \in Turns
  <2>1. /\ slot' = NoTurn /\ UNCHANGED <<waiters, reply>>
        /\ phase' = [phase EXCEPT ![slot] = IF @ = "running" THEN "taken" ELSE @]
    BY <1>3 DEF TakeTurn
  <2>2. Types'
    BY <1>1, <1>3, <2>1 DEF Types, TurnPhases
  <2>3. Retreats
    BY <2>1 DEF Retreats
  <2>4. Advances
    BY <1>1, <1>3, <2>1 DEF Advances, Types, CallShape, Cancelled
  <2> QED  BY <2>2, <2>3, <2>4, TurnStep
<1> QED  BY <1>2, <1>3

\* The steps of turns, together.
LEMMA TurnsInv ==
    ASSUME WaitersInv, NEW t \in Turns,
           StartTurn(t) \/ FinishTask(t) \/ Interrupt(t) \/ EndStep(t)
    PROVE  WaitersInv'
<1>1. CASE Interrupt(t)
  <2>1. slot = t /\ TakeTurn(slot) /\ UNCHANGED <<tool, prompt, inbox, notify, grants, session>>
    BY <1>1 DEF Interrupt, TakeTurn, grantVars
  <2> QED  BY <2>1, TakeTurnInv
<1> QED
  BY <1>1, StartTurnInv, PhaseInv, StopTaskInv, CompleteTurnInv, ClearPendingInv DEF EndStep

\* An abort decision.
LEMMA NotifyAbortInv ==
    ASSUME WaitersInv, NEW a \in inbox, NotifyAbort(a)
    PROVE  WaitersInv'
<1>1. slot \in Turns \cup {NoTurn} /\ NoTurn \notin Turns
  BY WaitersAssumption DEF WaitersInv, Types
<1> QED  BY <1>1, TakeTurnInv DEF NotifyAbort, turnVars, grantVars

(***************************************************************************)
(* The steps of tools.                                                     *)
(***************************************************************************)

\* What has not been registered is nowhere yet.
LEMMA Unregistered ==
    ASSUME WaitersInv, NEW r \in Requests, ~Registered(r)
    PROVE  /\ reply[r] = Open /\ prompt[r] = "none"
           /\ \A t \in Turns : r \notin waiters[t] /\ r \notin grants[t]
           /\ \A a \in inbox : a.about # r
           /\ notify.pc # "idle" => notify.to # r
BY DEF WaitersInv, CallShape, Held, GrantsRecorded, OnceAnswered, Applying, Registered,
       Announced

\* A tool call begins.
LEMMA CallInv ==
    ASSUME WaitersInv, NEW r \in Requests, NEW k \in Kinds, Call(r, k)
    PROVE  WaitersInv'
<1> DEFINE C == [NoTool EXCEPT !.pc = "called", !.kind = k, !.turn = slot]
<1>1. Types /\ CallShape
  BY DEF WaitersInv
<1>2. /\ tool[r] = NoTool /\ slot # NoTurn /\ phase[slot] = "running"
      /\ Admitted(slot, k) /\ tool' = [tool EXCEPT ![r] = C]
      /\ UNCHANGED <<slot, phase, waiters, reply, prompt, inbox, notify, grants, session>>
  BY DEF Call, turnVars, grantVars
<1>3. slot \in Turns
  BY <1>1, <1>2 DEF Types
<1>4. /\ C.pc = "called" /\ C.kind = k /\ C.turn = slot /\ C.home = NoTurn
      /\ C.result = "none" /\ C \in ToolCalls
  BY <1>3 DEF NoTool, ToolCalls
<1> HIDE DEF C
<1>5. /\ tool'[r] = C /\ \A q \in Requests : q # r => tool'[q] = tool[q]
      /\ tool' \in [Requests -> ToolCalls]
  BY <1>1, <1>2, <1>4 DEF Types
<1>6. tool[r].pc = "idle" /\ tool[r].kind = "none" /\ tool[r].turn = NoTurn
  BY <1>2 DEF NoTool
<1>7. ~Registered(r)
  BY <1>6 DEF Registered
<1>8. /\ reply[r] = Open /\ prompt[r] = "none"
      /\ \A t \in Turns : r \notin waiters[t] /\ r \notin grants[t]
      /\ \A a \in inbox : a.about # r
      /\ notify.pc # "idle" => notify.to # r
  BY <1>7, Unregistered
<1>9. Types'
  BY <1>1, <1>2, <1>5 DEF Types
<1>10. CallShape'
  BY <1>1, <1>2, <1>3, <1>4, <1>5, <1>8, ChannelsDiffer
  DEF CallShape, Begun, Registered, Announced
<1>11. AtHome'
  BY <1>2, <1>4, <1>5 DEF WaitersInv, AtHome, Registered
<1>12. Held'
  <2>1. Held
    BY DEF WaitersInv
  <2>2. \A q \in Requests : q # r => Key(q)' = Key(q)
    BY <1>5, SameKey
  <2>3. \A t \in Turns : waiters[t] \subseteq Requests
    BY <1>1 DEF Types
  <2> QED  BY <1>2, <1>5, <1>8, <2>1, <2>2, <2>3 DEF Held, Registered
<1>13. Exclusion'
  <2>1. SUFFICES ASSUME NEW x \in Requests, NEW q \in Requests, x # q, InFlight(x)',
                        InFlight(q)', tool'[x].turn = tool'[q].turn
                 PROVE  tool'[x].kind \notin Exclusive
    BY DEF Exclusion
  <2>2. CASE x = r
    BY <1>2, <1>4, <1>5, <2>1, <2>2 DEF Admitted, Asking, InFlight
  <2>3. CASE q = r
    BY <1>2, <1>4, <1>5, <2>1, <2>3 DEF Admitted, Asking, InFlight
  <2>4. CASE x # r /\ q # r
    BY <1>5, <2>1, <2>4 DEF WaitersInv, Exclusion, InFlight
  <2> QED  BY <2>2, <2>3, <2>4
<1>14. \A q \in Requests : q # r => /\ Registered(q)' = Registered(q)
                                   /\ Announced(q)' = Announced(q)
  BY <1>5 DEF Registered, Announced
<1>15. \A p \in Requests : Spent(p) => Spent(p)'
  BY <1>2, <1>5, <1>6 DEF Spent, Announced
<1>16. \A a \in Answers : a.about \in Requests
  BY DEF Answers
<1>17. inbox \subseteq Answers /\ (notify.pc # "idle" => notify.answer \in Answers)
  BY <1>1 DEF Types, WaitersInv, Applying
<1>18. OnceAnswered'
  <2>1. OnceAnswered
    BY DEF WaitersInv
  <2>2. \A a \in inbox : Announced(a.about)' /\ prompt[a.about] # "shown"
    BY <1>8, <1>14, <1>16, <1>17, <2>1 DEF OnceAnswered
  <2>3. \A a, b \in inbox : a.about = b.about => a = b
    BY <2>1 DEF OnceAnswered
  <2>4. \A q \in Requests, a \in Answers : reply[q] = Sent(a) => Spent(a.about)'
    BY <1>15, <1>16, <2>1 DEF OnceAnswered
  <2>5. notify.pc # "idle" => Spent(notify.answer.about)'
    BY <1>2, <1>15, <1>16, <1>17, <2>1 DEF OnceAnswered
  <2> QED  BY <1>2, <2>2, <2>3, <2>4, <2>5 DEF OnceAnswered
<1>19. Applying'
  BY <1>2, <1>5, <1>8, <1>14 DEF WaitersInv, Applying, Recorded
<1>20. GrantsRecorded'
  <2>1. GrantsRecorded
    BY DEF WaitersInv
  <2>2. \A t \in Turns : grants[t] \subseteq Requests
    BY <1>1 DEF Types
  <2>3. \A t \in Turns : \A q \in grants'[t] : Registered(q)' /\ tool'[q].home = t
    BY <1>2, <1>5, <1>8, <1>14, <2>1, <2>2 DEF GrantsRecorded
  <2>4. \A q \in Requests : q # r => \A d : Recorded(q, d)' = Recorded(q, d)
    BY <1>2, <1>5 DEF Recorded
  <2>5. \A a : reply[r] # Sent(a)
    BY <1>8, ChannelsDiffer
  <2>6. ASSUME NEW q \in Requests, tool'[q].kind = "permissions"
        PROVE  /\ \A a \in Answers : reply'[q] = Sent(a) => Recorded(q, a.decision)'
               /\ tool'[q].pc = "done" => Recorded(q, tool[q].result)'
    <3>1. CASE q = r
      BY <1>2, <1>4, <1>5, <2>5, <3>1
    <3>2. CASE q # r
      BY <1>2, <1>5, <2>1, <2>4, <2>6, <3>2 DEF GrantsRecorded
    <3> QED  BY <3>1, <3>2
  <2> QED  BY <2>3, <2>6 DEF GrantsRecorded
<1>21. \A t \in Turns : NoMcp(t)' => NoMcp(t)
  BY <1>3, <1>5, <1>6, WaitersAssumption DEF NoMcp
<1>22. \A q \in Requests : q # r /\ tool[q].kind = "ask" => tool[q].turn \in Turns
  BY <1>1 DEF CallShape, NoTool
<1>23. OwnReplies'
  <2>1. OwnReplies
    BY DEF WaitersInv
  <2>2. \A q \in Requests : q # r /\ Sure(q)' => Sure(q)
    BY <1>5, <1>21, <1>22 DEF Sure
  <2>3. \A a : reply[r] # Sent(a)
    BY <1>8, ChannelsDiffer
  <2> QED  BY <1>2, <1>4, <1>5, <1>21, <1>22, <2>1, <2>2, <2>3 DEF OwnReplies
<1>24. AskOne'
  <2>1. AskOne
    BY DEF WaitersInv
  <2>2. \A q \in Requests : q # r => Quiet(q)' = Quiet(q)
    BY <1>2, <1>5 DEF Quiet
  <2>3. ASSUME NEW q \in Requests, q # r, tool[q].kind = "ask", k = "ask",
               tool[q].turn = slot, NoMcp(slot)'
        PROVE  Quiet(q)'
    <3>1. tool[q].pc \in {"idle", "called", "announce", "await", "done"} /\ tool[q].pc # "idle"
      BY <1>1, <2>3 DEF Types, ToolCalls, CallShape, Begun, NoTool
    <3>2. ~InFlight(q)
      BY <1>2, <2>3 DEF Admitted, Exclusive, Asking
    <3>3. tool[q].pc = "done"
      BY <3>1, <3>2 DEF InFlight
    <3> QED  BY <1>2, <1>3, <1>21, <2>1, <2>2, <2>3, <3>3 DEF AskOne
  <2>4. ASSUME NEW q \in Requests, tool'[q].kind = "ask", NoMcp(tool[q].turn)',
               tool'[q].pc = "done", phase'[tool'[q].turn] = "running"
        PROVE  Quiet(q)'
    <3>1. q # r
      BY <1>4, <1>5, <2>4
    <3> QED  BY <1>2, <1>5, <1>21, <1>22, <2>1, <2>2, <2>4, <3>1 DEF AskOne
  <2>5. ASSUME NEW q \in Requests, NEW x \in Requests, q # x, tool'[q].kind = "ask",
               tool'[x].kind = "ask", tool'[q].turn = tool'[x].turn, NoMcp(tool[q].turn)'
        PROVE  Quiet(q)' \/ Quiet(x)'
    <3>1. CASE q = r
      <4>1. NoMcp(slot)' /\ tool'[q].turn = slot
        BY <1>2, <1>4, <1>5, <2>5, <3>1 DEF NoMcp
      <4> QED  BY <1>4, <1>5, <2>3, <2>5, <3>1, <4>1
    <3>2. CASE x = r
      <4>1. NoMcp(slot)' /\ tool'[q].turn = slot
        BY <1>2, <1>4, <1>5, <2>5, <3>2 DEF NoMcp
      <4> QED  BY <1>4, <1>5, <2>3, <2>5, <3>2, <4>1
    <3>3. CASE q # r /\ x # r
      BY <1>5, <1>21, <1>22, <2>1, <2>2, <2>5, <3>3 DEF AskOne
    <3> QED  BY <3>1, <3>2, <3>3
  <2> QED  BY <2>4, <2>5 DEF AskOne
<1>25. CancelBeforeDrop'
  BY <1>2, <1>3, <1>4, <1>5, WaitersAssumption DEF WaitersInv, CancelBeforeDrop, Cancelled
<1> QED
  BY <1>9, <1>10, <1>11, <1>12, <1>13, <1>18, <1>19, <1>20, <1>23, <1>24, <1>25
  DEF WaitersInv

\* Calls that keep their kind and turn keep what is said by kind and turn.
LEMMA SameCalls ==
    ASSUME \A q \in Requests : tool'[q].kind = tool[q].kind /\ tool'[q].turn = tool[q].turn
    PROVE  /\ \A q \in Requests : Key(q)' = Key(q)
           /\ \A q \in Requests : NoMcp(tool[q].turn)' <=> NoMcp(tool[q].turn)
           /\ \A q \in Requests : Sure(q)' <=> Sure(q)
<1>1. \A q \in Requests : Key(q)' = Key(q)
  BY SameKey
<1>2. \A q \in Requests : NoMcp(tool[q].turn)' <=> NoMcp(tool[q].turn)
  BY DEF NoMcp
<1> QED  BY <1>1, <1>2 DEF Sure

\* Answers are about requests.
LEMMA AboutRequests ==
    ASSUME WaitersInv
    PROVE  /\ \A a \in Answers : a.about \in Requests
           /\ inbox \subseteq Answers
           /\ notify.pc # "idle" => notify.answer \in Answers
BY DEF Answers, Types, WaitersInv, Applying

\* The prompt is shown.
LEMMA AnnounceInv ==
    ASSUME WaitersInv, NEW r \in Requests, Announce(r)
    PROVE  WaitersInv'
<1>1. Types /\ CallShape
  BY DEF WaitersInv
<1>2. /\ tool[r].pc = "announce" /\ tool' = [tool EXCEPT ![r].pc = "await"]
      /\ prompt' = [prompt EXCEPT ![r] = "shown"]
      /\ UNCHANGED <<slot, phase, waiters, reply, inbox, notify, grants, session>>
  BY DEF Announce, turnVars, grantVars
<1>3. /\ tool'[r].pc = "await" /\ \A q \in Requests : q # r => tool'[q] = tool[q]
      /\ \A q \in Requests : /\ tool'[q].kind = tool[q].kind
                             /\ tool'[q].turn = tool[q].turn
                             /\ tool'[q].home = tool[q].home
                             /\ tool'[q].result = tool[q].result
                             /\ tool'[q].about = tool[q].about
      /\ tool' \in [Requests -> ToolCalls]
  BY <1>1, <1>2 DEF Types, ToolCalls
<1>4. prompt'[r] = "shown" /\ \A q \in Requests : q # r => prompt'[q] = prompt[q]
  BY <1>1, <1>2 DEF Types
<1>5. Types'
  BY <1>1, <1>2, <1>3 DEF Types
<1>6. \A q \in Requests : /\ (Begun(q)' <=> Begun(q)) /\ (Registered(q)' <=> Registered(q))
                          /\ Announced(q) => Announced(q)'
                          /\ InFlight(q)' <=> InFlight(q)
                          /\ tool'[q].pc = "done" <=> tool[q].pc = "done"
  BY <1>2, <1>3 DEF Begun, Registered, Announced, InFlight
<1>7. ~Announced(r) /\ Announced(r)' /\ Begun(r)
  BY <1>2, <1>3 DEF Announced, Begun
<1>8. CallShape'
  BY <1>1, <1>2, <1>3, <1>4, <1>6, <1>7 DEF CallShape
<1>9. AtHome'
  BY <1>2, <1>3, <1>6 DEF WaitersInv, AtHome
<1>10. /\ \A q \in Requests : Key(q)' = Key(q)
       /\ \A q \in Requests : NoMcp(tool[q].turn)' <=> NoMcp(tool[q].turn)
       /\ \A q \in Requests : Sure(q)' <=> Sure(q)
  BY <1>3, SameCalls
<1>11. Held'
  <2>1. Held /\ \A t \in Turns : waiters[t] \subseteq Requests
    BY <1>1 DEF WaitersInv, Types
  <2> QED  BY <1>2, <1>3, <1>6, <1>10, <2>1 DEF Held
<1>12. Exclusion'
  <2>1. Exclusion
    BY DEF WaitersInv
  <2> QED  BY <1>3, <1>6, <2>1 DEF Exclusion
<1>13. \A p \in Requests : Spent(p) => Spent(p)'
  BY <1>2, <1>4, <1>6, <1>7 DEF Spent
<1>14. OnceAnswered'
  <2>1. OnceAnswered
    BY DEF WaitersInv
  <2>2. \A a \in inbox : Announced(a.about)' /\ prompt'[a.about] # "shown"
    BY <1>4, <1>6, <1>7, <2>1, AboutRequests DEF OnceAnswered
  <2>3. \A a, b \in inbox : a.about = b.about => a = b
    BY <2>1 DEF OnceAnswered
  <2>4. \A q \in Requests, a \in Answers : reply[q] = Sent(a) => Spent(a.about)'
    BY <1>13, <2>1, AboutRequests DEF OnceAnswered
  <2>5. notify.pc # "idle" => Spent(notify.answer.about)'
    BY <1>2, <1>13, <2>1, AboutRequests DEF OnceAnswered
  <2> QED  BY <1>2, <2>2, <2>3, <2>4, <2>5 DEF OnceAnswered
<1>15. \A q \in Requests : \A d : Recorded(q, d)' <=> Recorded(q, d)
  BY <1>2, <1>3 DEF Recorded
<1>16. Applying'
  BY <1>2, <1>3, <1>6, <1>15 DEF WaitersInv, Applying
<1>17. GrantsRecorded'
  <2>1. GrantsRecorded /\ \A t \in Turns : grants[t] \subseteq Requests
    BY <1>1 DEF WaitersInv, Types
  <2>2. \A t \in Turns : \A q \in grants'[t] : Registered(q)' /\ tool'[q].home = t
    BY <1>2, <1>3, <1>6, <2>1 DEF GrantsRecorded
  <2>3. ASSUME NEW q \in Requests, tool'[q].kind = "permissions"
        PROVE  /\ \A a \in Answers : reply'[q] = Sent(a) => Recorded(q, a.decision)'
               /\ tool'[q].pc = "done" => Recorded(q, tool[q].result)'
    BY <1>2, <1>3, <1>6, <1>15, <2>1, <2>3 DEF GrantsRecorded
  <2> QED  BY <2>2, <2>3 DEF GrantsRecorded
<1>18. OwnReplies'
  BY <1>2, <1>3, <1>6, <1>10 DEF WaitersInv, OwnReplies
<1>19. \A q \in Requests : Quiet(q) => Quiet(q)'
  BY <1>2, <1>3, <1>4, <1>6 DEF Quiet
<1>20. AskOne'
  BY <1>2, <1>3, <1>6, <1>10, <1>19 DEF WaitersInv, AskOne
<1>21. CancelBeforeDrop'
  BY <1>2, <1>3 DEF WaitersInv, CancelBeforeDrop, Cancelled
<1> QED
  BY <1>5, <1>8, <1>9, <1>11, <1>12, <1>14, <1>16, <1>17, <1>18, <1>20, <1>21
  DEF WaitersInv

\* The home of one call is written.
LEMMA WriteHome ==
    ASSUME NEW f \in [Requests -> ToolCalls], NEW r \in Requests,
           NEW h \in Turns \cup {NoTurn}
    PROVE  [f EXCEPT ![r].home = h] \in [Requests -> ToolCalls]
BY DEF ToolCalls

\* The result of one call is written.
LEMMA WriteResult ==
    ASSUME NEW f \in [Requests -> ToolCalls], NEW r \in Requests,
           NEW d \in Decisions \cup {"none"}
    PROVE  [f EXCEPT ![r].result = d] \in [Requests -> ToolCalls]
BY DEF ToolCalls

\* What the answer was about is written.
LEMMA WriteAbout ==
    ASSUME NEW f \in [Requests -> ToolCalls], NEW r \in Requests,
           NEW q \in Requests \cup {NoRequest}
    PROVE  [f EXCEPT ![r].about = q] \in [Requests -> ToolCalls]
BY DEF ToolCalls

\* A sender is registered: what it displaces is not a request that its turn
\* still waits for, unless it is an MCP approval.
LEMMA RegisterInv ==
    ASSUME WaitersInv, NEW r \in Requests, Register(r)
    PROVE  WaitersInv'
<1> DEFINE D == IF slot = NoTurn THEN {r} ELSE Entry(slot, r)
<1>1. Types /\ CallShape
  BY DEF WaitersInv
<1>2. /\ tool[r].pc = "called"
      /\ tool' = [tool EXCEPT ![r].pc = "announce", ![r].home = slot]
      /\ reply' = Drop(D)
      /\ slot = NoTurn => waiters' = waiters
      /\ slot # NoTurn => waiters' = [waiters EXCEPT ![slot] = (@ \ Entry(slot, r)) \cup {r}]
      /\ UNCHANGED <<slot, phase, prompt, inbox, notify, grants, session>>
  BY DEF Register, turnVars, grantVars
<1>3. /\ tool'[r].pc = "announce" /\ tool'[r].home = slot
      /\ \A q \in Requests : q # r => tool'[q] = tool[q]
      /\ \A q \in Requests : /\ tool'[q].kind = tool[q].kind
                             /\ tool'[q].turn = tool[q].turn
                             /\ tool'[q].result = tool[q].result
                             /\ tool'[q].about = tool[q].about
      /\ tool' \in [Requests -> ToolCalls]
  <2> DEFINE T1 == [tool EXCEPT ![r].pc = "announce"]
  <2>1. /\ T1 \in [Requests -> ToolCalls] /\ T1[r] = [tool[r] EXCEPT !.pc = "announce"]
        /\ \A q \in Requests : q # r => T1[q] = tool[q]
    BY <1>1 DEF Types, ToolCalls
  <2>2. tool' = [T1 EXCEPT ![r].home = slot]
    BY <1>2
  <2> HIDE DEF T1
  <2>3. /\ tool' \in [Requests -> ToolCalls] /\ tool'[r] = [T1[r] EXCEPT !.home = slot]
        /\ \A q \in Requests : q # r => tool'[q] = tool[q]
    <3>1. slot \in Turns \cup {NoTurn}
      BY <1>1 DEF Types
    <3>2. tool' \in [Requests -> ToolCalls]
      BY <2>1, <2>2, <3>1, WriteHome
    <3> QED  BY <2>1, <2>2, <3>2
  <2>4. tool[r] \in ToolCalls
    BY <1>1 DEF Types
  <2>5. /\ tool'[r].pc = "announce" /\ tool'[r].home = slot
        /\ tool'[r].kind = tool[r].kind /\ tool'[r].turn = tool[r].turn
        /\ tool'[r].result = tool[r].result /\ tool'[r].about = tool[r].about
    BY <2>1, <2>3, <2>4 DEF ToolCalls
  <2> QED  BY <2>3, <2>5
<1>4. ~Registered(r) /\ InFlight(r) /\ Begun(r)
  BY <1>2 DEF Registered, InFlight, Begun
<1>5. /\ reply[r] = Open /\ prompt[r] = "none"
      /\ \A t \in Turns : r \notin waiters[t] /\ r \notin grants[t]
      /\ \A a \in inbox : a.about # r
      /\ notify.pc # "idle" => notify.to # r
  BY <1>4, Unregistered
<1>6. \A q \in D : \/ q = r /\ slot = NoTurn
                   \/ slot \in Turns /\ q \in waiters[slot] /\ Key(q) = Key(r) /\ q # r
  BY <1>1, <1>5 DEF Types, Entry
<1>7. /\ reply' \in [Requests -> Channels]
      /\ \A q \in Requests : \/ reply'[q] = reply[q]
                             \/ reply[q] = Open /\ reply'[q] = Closed /\ q \in D
  BY <1>1, <1>2 DEF Types, Drop, Channels
<1>8. /\ waiters' \in [Turns -> SUBSET Requests]
      /\ \A t \in Turns : \A q \in waiters'[t] : q # r => q \in waiters[t]
      /\ \A t \in Turns : r \in waiters'[t] =>
            t = slot /\ \A q \in waiters'[t] : q # r => Key(q) # Key(r)
  BY <1>1, <1>2, <1>5 DEF Types, Entry
<1> HIDE DEF D
<1>9. Types'
  BY <1>1, <1>2, <1>3, <1>7, <1>8 DEF Types
<1>10. \A q \in Requests : /\ Begun(q)' <=> Begun(q)
                           /\ Registered(q) => Registered(q)'
                           /\ q # r => (Registered(q)' <=> Registered(q))
                           /\ Announced(q)' <=> Announced(q)
                           /\ InFlight(q)' <=> InFlight(q)
                           /\ tool'[q].pc = "done" <=> tool[q].pc = "done"
  BY <1>2, <1>3 DEF Begun, Registered, Announced, InFlight
<1>11. Registered(r)'
  BY <1>3 DEF Registered
<1>12. \A q \in Requests : ~Registered(q)' => reply'[q] = reply[q]
  BY <1>6, <1>7, <1>10, <1>11 DEF WaitersInv, Held
<1>13. \A q \in Requests : \A a : reply'[q] = Sent(a) => reply[q] = Sent(a)
  BY <1>7, ChannelsDiffer
<1>14. CallShape'
  <2>1. \A q \in Requests : ~Registered(q)' => reply'[q] = Open
    BY <1>1, <1>10, <1>12 DEF CallShape
  <2>2. \A q \in Requests : reply'[q] = Gone <=> reply[q] = Gone
    BY <1>7, ChannelsDiffer
  <2>3. \A q \in Requests : ~Begun(q) => q # r
    BY <1>4
  <2> QED  BY <1>1, <1>2, <1>3, <1>10, <2>1, <2>2, <2>3 DEF CallShape
<1>15. tool[r].turn \in Turns /\ tool[r].kind \in Kinds
  BY <1>1, <1>4 DEF CallShape
<1>16. AtHome'
  <2>1. phase[tool[r].turn] = "running" => slot = tool[r].turn
    BY <1>1, <1>15 DEF CallShape
  <2> QED  BY <1>2, <1>3, <1>10, <2>1 DEF WaitersInv, AtHome
<1>17. /\ \A q \in Requests : Key(q)' = Key(q)
       /\ \A q \in Requests : NoMcp(tool[q].turn)' <=> NoMcp(tool[q].turn)
       /\ \A q \in Requests : Sure(q)' <=> Sure(q)
  BY <1>3, SameCalls
<1>18. Held'
  <2>1. Held /\ \A t \in Turns : waiters'[t] \subseteq Requests
    BY <1>8 DEF WaitersInv
  <2>2. ASSUME NEW t \in Turns, NEW q \in waiters'[t]
        PROVE  Registered(q)' /\ tool'[q].home = t
    BY <1>3, <1>8, <1>10, <1>11, <2>1 DEF Held
  <2>3. ASSUME NEW t \in Turns, NEW q \in waiters'[t], NEW x \in waiters'[t],
               Key(q)' = Key(x)'
        PROVE  q = x
    <3>1. Key(q) = Key(x)
      BY <1>17, <2>1, <2>3
    <3> QED  BY <1>8, <2>1, <3>1 DEF Held
  <2> QED  BY <2>2, <2>3 DEF Held
<1>19. Exclusion'
  <2>1. Exclusion
    BY DEF WaitersInv
  <2> QED  BY <1>3, <1>10, <2>1 DEF Exclusion
<1>20. \A p \in Requests : Spent(p) => Spent(p)'
  BY <1>2, <1>10 DEF Spent
<1>21. OnceAnswered'
  <2>1. OnceAnswered
    BY DEF WaitersInv
  <2>2. \A a \in inbox : Announced(a.about)' /\ prompt[a.about] # "shown"
    BY <1>10, <2>1, AboutRequests DEF OnceAnswered
  <2>3. \A a, b \in inbox : a.about = b.about => a = b
    BY <2>1 DEF OnceAnswered
  <2>4. \A q \in Requests, a \in Answers : reply'[q] = Sent(a) => Spent(a.about)'
    BY <1>13, <1>20, <2>1, AboutRequests DEF OnceAnswered
  <2>5. notify.pc # "idle" => Spent(notify.answer.about)'
    BY <1>2, <1>20, <2>1, AboutRequests DEF OnceAnswered
  <2> QED  BY <1>2, <2>2, <2>3, <2>4, <2>5 DEF OnceAnswered
<1>22. \A q \in Requests : q # r => \A d : Recorded(q, d)' <=> Recorded(q, d)
  BY <1>2, <1>3 DEF Recorded
<1>23. Applying'
  BY <1>2, <1>3, <1>5, <1>10, <1>22 DEF WaitersInv, Applying
<1>24. GrantsRecorded'
  <2>1. GrantsRecorded /\ \A t \in Turns : grants[t] \subseteq Requests
    BY <1>1 DEF WaitersInv, Types
  <2>2. \A t \in Turns : \A q \in grants'[t] : Registered(q)' /\ tool'[q].home = t
    BY <1>2, <1>3, <1>5, <1>10, <2>1 DEF GrantsRecorded
  <2>3. \A a : reply'[r] # Sent(a)
    BY <1>5, <1>13, ChannelsDiffer
  <2>4. ASSUME NEW q \in Requests, tool'[q].kind = "permissions"
        PROVE  /\ \A a \in Answers : reply'[q] = Sent(a) => Recorded(q, a.decision)'
               /\ tool'[q].pc = "done" => Recorded(q, tool[q].result)'
    <3>1. CASE q = r
      BY <1>3, <2>3, <3>1
    <3>2. CASE q # r
      BY <1>2, <1>3, <1>13, <1>22, <2>1, <2>4, <3>2 DEF GrantsRecorded
    <3> QED  BY <3>1, <3>2
  <2> QED  BY <2>2, <2>4 DEF GrantsRecorded
<1>25. OwnReplies'
  BY <1>2, <1>3, <1>10, <1>13, <1>17 DEF WaitersInv, OwnReplies
<1>26. \A q \in Requests : Quiet(q) => Quiet(q)'
  BY <1>2, <1>10 DEF Quiet
<1>27. AskOne'
  BY <1>2, <1>3, <1>10, <1>17, <1>26 DEF WaitersInv, AskOne
<1>28. CancelBeforeDrop'
  <2>1. SUFFICES ASSUME NEW q \in Requests, tool'[q].kind # "mcp",
                        tool'[q].home = tool'[q].turn, reply'[q] = Closed
                 PROVE  Cancelled(tool[q].turn)
    BY <1>2, <1>3 DEF CancelBeforeDrop, Cancelled
  <2>2. CASE q = r
    <3>1. slot \in Turns
      BY <1>3, <1>15, <2>1, <2>2
    <3>2. q \notin D
      BY <1>6, <2>2, <3>1, WaitersAssumption
    <3> QED  BY <1>5, <1>7, <2>1, <2>2, <3>2, ChannelsDiffer
  <2>3. CASE q # r /\ reply[q] = Closed
    BY <1>3, <2>1, <2>3 DEF WaitersInv, CancelBeforeDrop
  <2>4. CASE q # r /\ q \in D /\ reply[q] = Open
    <3>1. slot \in Turns /\ q \in waiters[slot] /\ Key(q) = Key(r)
      BY <1>6, <2>4
    <3>2. Registered(q)
      BY <3>1 DEF WaitersInv, Held
    <3>3. tool[q].pc # "done" /\ tool[q].kind \in Kinds
      BY <1>1, <2>4, <3>2, ChannelsDiffer DEF CallShape, Registered, Begun
    <3>4. InFlight(q)
      BY <1>1, <3>2, <3>3 DEF InFlight, Registered, Types, ToolCalls
    <3>5. tool[q].kind = "ask" /\ tool[q].turn = tool[r].turn
      BY <1>3, <1>15, <2>1, <2>4, <3>1, <3>3, SharedKey
    <3>6. tool[q].kind \notin Exclusive
      BY <1>4, <2>4, <3>4, <3>5 DEF WaitersInv, Exclusion
    <3> QED  BY <3>5, <3>6 DEF Exclusive
  <2> QED  BY <1>7, <2>1, <2>2, <2>3, <2>4
<1> QED
  BY <1>9, <1>14, <1>16, <1>18, <1>19, <1>21, <1>23, <1>24, <1>25, <1>27, <1>28
  DEF WaitersInv

\* A call that is over.  Its result is the answer to its own prompt or an abort,
\* a grant it is told of is recorded, and a user-input request that returns in a
\* running turn leaves nothing behind.
LEMMA DoneInv ==
    ASSUME WaitersInv, NEW r \in Requests, NEW res \in Decisions,
           NEW abt \in Requests \cup {NoRequest}, Done(r, res, abt), InFlight(r),
           waiters' \in [Turns -> SUBSET Requests],
           \A t \in Turns : waiters'[t] \subseteq waiters[t],
           UNCHANGED <<slot, phase, prompt, inbox, notify, grants, session>>,
           phase[tool[r].turn] = "running" => Registered(r),
           res # "abort" /\ (tool[r].kind = "ask" => NoMcp(tool[r].turn)) => abt = r,
           tool[r].kind = "permissions" => Recorded(r, res),
           tool[r].kind = "ask" /\ NoMcp(tool[r].turn) /\ phase[tool[r].turn] = "running"
              => prompt[r] # "shown" /\ \A a \in inbox : a.about # r
    PROVE  WaitersInv'
<1>1. Types /\ CallShape
  BY DEF WaitersInv
<1>2. /\ tool' = [tool EXCEPT ![r].pc = "done", ![r].result = res, ![r].about = abt]
      /\ reply' = [reply EXCEPT ![r] = Gone]
  BY DEF Done
<1>3. /\ tool'[r].pc = "done" /\ tool'[r].result = res /\ tool'[r].about = abt
      /\ \A q \in Requests : q # r => tool'[q] = tool[q]
      /\ \A q \in Requests : /\ tool'[q].kind = tool[q].kind
                             /\ tool'[q].turn = tool[q].turn
                             /\ tool'[q].home = tool[q].home
      /\ tool' \in [Requests -> ToolCalls]
  <2> DEFINE T1 == [tool EXCEPT ![r].pc = "done"]
             T2 == [T1 EXCEPT ![r].result = res]
  <2>1. /\ T1 \in [Requests -> ToolCalls] /\ T1[r] = [tool[r] EXCEPT !.pc = "done"]
        /\ \A q \in Requests : q # r => T1[q] = tool[q]
    BY <1>1 DEF Types, ToolCalls
  <2>2. tool' = [T2 EXCEPT ![r].about = abt]
    BY <1>2
  <2> HIDE DEF T1
  <2>3. /\ T2 \in [Requests -> ToolCalls] /\ T2[r] = [T1[r] EXCEPT !.result = res]
        /\ \A q \in Requests : q # r => T2[q] = tool[q]
    <3>1. T2 \in [Requests -> ToolCalls]
      BY <2>1, WriteResult
    <3> QED  BY <2>1, <3>1
  <2> HIDE DEF T2
  <2>4. /\ tool' \in [Requests -> ToolCalls] /\ tool'[r] = [T2[r] EXCEPT !.about = abt]
        /\ \A q \in Requests : q # r => tool'[q] = tool[q]
    <3>1. tool' \in [Requests -> ToolCalls]
      BY <2>2, <2>3, WriteAbout
    <3> QED  BY <2>2, <2>3, <3>1
  <2>5. tool[r] \in ToolCalls
    BY <1>1 DEF Types
  <2>6. /\ tool'[r].pc = "done" /\ tool'[r].result = res /\ tool'[r].about = abt
        /\ tool'[r].kind = tool[r].kind /\ tool'[r].turn = tool[r].turn
        /\ tool'[r].home = tool[r].home
    BY <2>1, <2>3, <2>4, <2>5 DEF ToolCalls
  <2> QED  BY <2>4, <2>6
<1>4. /\ reply'[r] = Gone /\ \A q \in Requests : q # r => reply'[q] = reply[q]
      /\ reply' \in [Requests -> Channels]
  BY <1>1, <1>2 DEF Types, Channels
<1>5. Types'
  BY <1>1, <1>3, <1>4 DEF Types
<1>6. Begun(r) /\ tool[r].pc # "done" /\ Begun(r)' /\ Registered(r)' /\ Announced(r)'
      /\ ~InFlight(r)'
  BY <1>3 DEF Begun, InFlight, Registered, Announced
<1>7. \A q \in Requests : /\ Begun(q)' <=> Begun(q)
                          /\ Registered(q) => Registered(q)'
                          /\ Announced(q) => Announced(q)'
                          /\ InFlight(q)' => InFlight(q)
                          /\ q # r => (Registered(q)' <=> Registered(q))
  BY <1>3, <1>6 DEF Begun, Registered, Announced, InFlight
<1>8. CallShape'
  BY <1>1, <1>3, <1>4, <1>6, <1>7 DEF CallShape
<1>9. AtHome'
  BY <1>3, <1>7 DEF WaitersInv, AtHome
<1>10. /\ \A q \in Requests : Key(q)' = Key(q)
       /\ \A q \in Requests : NoMcp(tool[q].turn)' <=> NoMcp(tool[q].turn)
       /\ \A q \in Requests : Sure(q)' <=> Sure(q)
  BY <1>3, SameCalls
<1>11. Held'
  <2>1. Held /\ \A t \in Turns : waiters'[t] \subseteq Requests
    BY DEF WaitersInv
  <2> QED  BY <1>3, <1>7, <1>10, <2>1 DEF Held
<1>12. Exclusion'
  <2>1. Exclusion
    BY DEF WaitersInv
  <2> QED  BY <1>3, <1>7, <2>1 DEF Exclusion
<1>13. \A q \in Requests : \A a : reply'[q] = Sent(a) => q # r /\ reply[q] = Sent(a)
  BY <1>4, ChannelsDiffer
<1>14. \A p \in Requests : Spent(p) => Spent(p)'
  BY <1>7 DEF Spent
<1>15. OnceAnswered'
  <2>1. OnceAnswered
    BY DEF WaitersInv
  <2>2. \A a \in inbox : Announced(a.about)' /\ prompt[a.about] # "shown"
    BY <1>7, <2>1, AboutRequests DEF OnceAnswered
  <2>3. \A a, b \in inbox : a.about = b.about => a = b
    BY <2>1 DEF OnceAnswered
  <2>4. \A q \in Requests, a \in Answers : reply'[q] = Sent(a) => Spent(a.about)'
    BY <1>13, <1>14, <2>1, AboutRequests DEF OnceAnswered
  <2>5. notify.pc # "idle" => Spent(notify.answer.about)'
    BY <1>14, <2>1, AboutRequests DEF OnceAnswered
  <2> QED  BY <2>2, <2>3, <2>4, <2>5 DEF OnceAnswered
<1>16. \A q \in Requests : \A d : Recorded(q, d)' <=> Recorded(q, d)
  BY <1>3 DEF Recorded
<1>17. Applying'
  BY <1>3, <1>7, <1>16 DEF WaitersInv, Applying
<1>18. GrantsRecorded'
  <2>1. GrantsRecorded /\ \A t \in Turns : grants[t] \subseteq Requests
    BY <1>1 DEF WaitersInv, Types
  <2>2. \A t \in Turns : \A q \in grants'[t] : Registered(q)' /\ tool'[q].home = t
    BY <1>3, <1>7, <2>1 DEF GrantsRecorded
  <2>3. ASSUME NEW q \in Requests, tool'[q].kind = "permissions"
        PROVE  /\ \A a \in Answers : reply'[q] = Sent(a) => Recorded(q, a.decision)'
               /\ tool'[q].pc = "done" => Recorded(q, tool[q].result)'
    <3>1. CASE q = r
      <4>1. Recorded(r, res)'
        BY <1>3, <1>16, <2>3, <3>1
      <4> QED  BY <1>3, <1>13, <3>1, <4>1 DEF Recorded
    <3>2. CASE q # r
      BY <1>3, <1>13, <1>16, <2>1, <2>3, <3>2 DEF GrantsRecorded
    <3> QED  BY <3>1, <3>2
  <2> QED  BY <2>2, <2>3 DEF GrantsRecorded
<1>19. OwnReplies'
  <2>1. OwnReplies
    BY DEF WaitersInv
  <2> QED  BY <1>3, <1>10, <1>13, <2>1 DEF OwnReplies
<1>20. \A q \in Requests : Quiet(q) => Quiet(q)'
  BY <1>3 DEF Quiet
<1>21. AskOne'
  <2>1. AskOne
    BY DEF WaitersInv
  <2>2. tool[r].kind = "ask" /\ NoMcp(tool[r].turn) /\ phase[tool[r].turn] = "running"
           => Quiet(r)'
    BY <1>3 DEF Quiet
  <2> QED  BY <1>3, <1>10, <1>20, <2>1, <2>2 DEF AskOne
<1>22. CancelBeforeDrop'
  BY <1>3, <1>4, ChannelsDiffer DEF WaitersInv, CancelBeforeDrop, Cancelled
<1> QED
  BY <1>5, <1>8, <1>9, <1>11, <1>12, <1>15, <1>17, <1>18, <1>19, <1>21, <1>22
  DEF WaitersInv

\* A call returns what its channel holds.
LEMMA ReturnInv ==
    ASSUME WaitersInv, NEW r \in Requests, Return(r)
    PROVE  WaitersInv'
<1>1. Types /\ CallShape
  BY DEF WaitersInv
<1>2. /\ tool[r].pc = "await" /\ reply[r] # Open
      /\ UNCHANGED <<slot, phase, waiters, prompt, inbox, notify, grants, session>>
  BY DEF Return, turnVars, grantVars
<1>3. InFlight(r) /\ Registered(r)
  BY <1>2 DEF InFlight, Registered
<1>4. /\ waiters' \in [Turns -> SUBSET Requests]
      /\ \A t \in Turns : waiters'[t] \subseteq waiters[t]
      /\ reply[r] \in Channels
  BY <1>1, <1>2 DEF Types
<1>5. CASE Accepts(r)
  <2>1. PICK a \in Answers : reply[r] = Sent(a) /\ reply[r].answer = a
    BY <1>4, <1>5, AcceptedIsSent DEF Accepts
  <2>2. a.about \in Requests /\ a.decision \in Decisions
    BY DEF Answers
  <2>3. Done(r, a.decision, a.about)
    BY <1>5, <2>1 DEF Return
  <2>4. tool[r].kind = "mcp" => a.about = r
    BY <1>5, <2>1 DEF Accepts
  <2>5. Sure(r) => a.about = r
    BY <2>1 DEF WaitersInv, OwnReplies
  <2>6. (tool[r].kind = "ask" => NoMcp(tool[r].turn)) => a.about = r
    BY <2>4, <2>5 DEF Sure
  <2>7. Spent(a.about)
    BY <2>1 DEF WaitersInv, OnceAnswered
  <2>8. tool[r].kind = "permissions" => Recorded(r, a.decision)
    BY <2>1 DEF WaitersInv, GrantsRecorded
  <2>9. tool[r].kind = "ask" /\ NoMcp(tool[r].turn)
           => prompt[r] # "shown" /\ \A b \in inbox : b.about # r
    BY <2>6, <2>7 DEF Spent
  <2> QED  BY <1>2, <1>3, <1>4, <2>2, <2>3, <2>6, <2>8, <2>9, DoneInv
<1>6. CASE ~Accepts(r)
  <2>1. Done(r, "abort", NoRequest)
    BY <1>6 DEF Return
  <2>2. tool[r].kind = "ask" => phase[tool[r].turn] # "running"
    <3> SUFFICES ASSUME tool[r].kind = "ask", phase[tool[r].turn] = "running"
                 PROVE  FALSE
      OBVIOUS
    <3>1. reply[r].state # "sent"
      BY <1>6 DEF Accepts
    <3>2. reply[r] # Gone
      BY <1>1, <1>2 DEF CallShape
    <3>3. reply[r] = Closed
      BY <1>2, <1>4, <3>1, <3>2, ChannelsDiffer DEF Channels
    <3>4. tool[r].home = tool[r].turn
      BY <1>3 DEF WaitersInv, AtHome
    <3>5. Cancelled(tool[r].turn)
      BY <3>3, <3>4 DEF WaitersInv, CancelBeforeDrop
    <3> QED  BY <3>5 DEF Cancelled
  <2>3. "abort" \in Decisions /\ Recorded(r, "abort")
    BY DEF Decisions, Recorded
  <2> QED  BY <1>2, <1>3, <1>4, <2>1, <2>2, <2>3, DoneInv
<1> QED  BY <1>5, <1>6

\* A call of a cancelled turn is given up.
LEMMA GiveUpInv ==
    ASSUME WaitersInv, NEW r \in Requests, CancelPermissions(r) \/ DropTool(r)
    PROVE  WaitersInv'
<1>1. Types
  BY DEF WaitersInv
<1>2. /\ InFlight(r) /\ Cancelled(tool[r].turn) /\ Done(r, "abort", NoRequest)
      /\ UNCHANGED <<slot, phase, prompt, inbox, notify, grants, session>>
      /\ \/ waiters' = [t \in Turns |-> waiters[t] \ (IF t = slot THEN {r} ELSE {})]
         \/ waiters' = waiters
  BY DEF CancelPermissions, DropTool, InFlight, turnVars, grantVars
<1>3. /\ waiters' \in [Turns -> SUBSET Requests]
      /\ \A t \in Turns : waiters'[t] \subseteq waiters[t]
  BY <1>1, <1>2 DEF Types
<1>4. phase[tool[r].turn] # "running"
  BY <1>2 DEF Cancelled
<1>5. "abort" \in Decisions /\ Recorded(r, "abort")
  BY DEF Decisions, Recorded
<1> QED  BY <1>2, <1>3, <1>4, <1>5, DoneInv

(***************************************************************************)
(* The client and the submission loop.                                     *)
(***************************************************************************)

\* The client answers: the prompt was shown, so no other answer to it is about.
LEMMA SubmitInv ==
    ASSUME WaitersInv, NEW p \in Requests, NEW d \in Decisions, Submit(p, d)
    PROVE  WaitersInv'
<1> DEFINE b == [about |-> p, decision |-> d]
<1>1. Types /\ CallShape
  BY DEF WaitersInv
<1>2. /\ prompt[p] = "shown" /\ prompt' = [prompt EXCEPT ![p] = "closed"]
      /\ inbox' = inbox \cup {b}
      /\ UNCHANGED <<slot, phase, waiters, tool, reply, notify, grants, session>>
  BY DEF Submit, turnVars, grantVars
<1>3. b \in Answers /\ b.about = p
  BY DEF Answers
<1> HIDE DEF b
<1>4. prompt'[p] = "closed" /\ \A q \in Requests : q # p => prompt'[q] = prompt[q]
  BY <1>1, <1>2 DEF Types
<1>5. Types'
  BY <1>1, <1>2, <1>3 DEF Types
<1>6. Announced(p)
  BY <1>1, <1>2 DEF CallShape
<1>7. \A r : Announced(r)' = Announced(r) /\ Registered(r)' = Registered(r) /\ Begun(r)' = Begun(r)
             /\ InFlight(r)' = InFlight(r) /\ Key(r)' = Key(r)
  BY <1>2 DEF Announced, Registered, Begun, InFlight, Key
<1>8. CallShape'
  BY <1>1, <1>2, <1>4, <1>6, <1>7 DEF CallShape
<1>9. AtHome' /\ Held' /\ Exclusion' /\ CancelBeforeDrop'
  BY <1>2, <1>7 DEF WaitersInv, AtHome, Held, Exclusion, CancelBeforeDrop, Cancelled
<1>10. \A q \in Requests : Spent(q) => Spent(q)'
  BY <1>2, <1>3, <1>4, <1>7 DEF Spent
<1>11. \A q \in Requests : Quiet(q) => Quiet(q)'
  BY <1>2, <1>3, <1>4 DEF Quiet
<1>12. OnceAnswered'
  <2>1. OnceAnswered
    BY DEF WaitersInv
  <2>2. \A a \in inbox : a.about # p /\ a.about \in Requests
    BY <1>2, <2>1, AboutRequests DEF OnceAnswered
  <2>3. \A a \in inbox' : Announced(a.about)' /\ prompt'[a.about] # "shown"
    BY <1>2, <1>3, <1>4, <1>6, <1>7, <2>1, <2>2 DEF OnceAnswered
  <2>4. \A a, c \in inbox' : a.about = c.about => a = c
    BY <1>2, <1>3, <2>1, <2>2 DEF OnceAnswered
  <2>5. \A r \in Requests, a \in Answers : reply[r] = Sent(a) => Spent(a.about)'
    BY <1>10, <2>1, AboutRequests DEF OnceAnswered
  <2>6. notify.pc # "idle" => Spent(notify.answer.about)'
    BY <1>2, <1>10, <2>1, AboutRequests DEF OnceAnswered
  <2> QED  BY <1>2, <2>3, <2>4, <2>5, <2>6 DEF OnceAnswered
<1>13. Applying' /\ GrantsRecorded'
  BY <1>2, <1>7 DEF WaitersInv, Applying, GrantsRecorded, Recorded
<1>14. \A q : (NoMcp(tool[q].turn)' <=> NoMcp(tool[q].turn)) /\ (Sure(q)' <=> Sure(q))
  BY <1>2 DEF NoMcp, Sure
<1>15. OwnReplies'
  BY <1>2, <1>14 DEF WaitersInv, OwnReplies
<1>16. AskOne'
  BY <1>2, <1>11, <1>14 DEF WaitersInv, AskOne
<1> QED
  BY <1>5, <1>8, <1>9, <1>12, <1>13, <1>15, <1>16 DEF WaitersInv

\* What the submission loop does to a channel: it sends an answer to whom it is
\* for, with the grant recorded.
Delivers(q) ==
    \E a \in Answers :
        /\ reply[q] = Open /\ reply'[q] = Sent(a) /\ Registered(q)
        /\ Spent(a.about)'
        /\ Sure(q) => a.about = q
        /\ tool[q].kind = "permissions" => Recorded(q, a.decision)'

\* A step of the submission loop that delivers so keeps the invariant.
LEMMA LoopInv ==
    ASSUME WaitersInv, Types', Applying',
           notify'.pc # "idle" => Spent(notify.answer.about)',
           UNCHANGED <<slot, phase, tool, prompt>>, inbox' \subseteq inbox,
           \A t \in Turns : waiters'[t] \subseteq waiters[t],
           \A t \in Turns : grants[t] \subseteq grants'[t], session \subseteq session',
           \A t \in Turns : \A r \in grants'[t] : Registered(r) /\ tool[r].home = t,
           \A q \in Requests : reply'[q] = reply[q] \/ Delivers(q)
    PROVE  WaitersInv'
<1>1. Types /\ CallShape
  BY DEF WaitersInv
<1>2. \A r : Announced(r)' = Announced(r) /\ Registered(r)' = Registered(r) /\ Begun(r)' = Begun(r)
             /\ InFlight(r)' = InFlight(r) /\ Key(r)' = Key(r)
  BY DEF Announced, Registered, Begun, InFlight, Key
<1>3. \A r : (NoMcp(tool[r].turn)' <=> NoMcp(tool[r].turn)) /\ (Sure(r)' <=> Sure(r))
  BY DEF NoMcp, Sure
<1>4. \A q \in Requests : Spent(q) => Spent(q)'
  BY <1>2 DEF Spent
<1>5. \A q \in Requests : Quiet(q) => Quiet(q)'
  BY DEF Quiet
<1>6. \A r \in Requests, a \in Answers : reply'[r] = Sent(a) =>
         \/ reply[r] = Sent(a)
         \/ /\ Spent(a.about)' /\ (Sure(r) => a.about = r)
            /\ tool[r].kind = "permissions" => Recorded(r, a.decision)'
  BY ChannelsDiffer DEF Delivers
<1>7. \A r \in Requests : reply'[r] \in {Open, Closed, Gone} => reply'[r] = reply[r]
  BY ChannelsDiffer DEF Delivers
<1>8. \A r \in Requests : reply[r] # Open \/ ~Registered(r) => reply'[r] = reply[r]
  BY DEF Delivers
<1>9. CallShape'
  <2>1. ASSUME NEW r \in Requests
        PROVE  (~Registered(r) => reply'[r] = Open) /\ (tool[r].pc = "done" <=> reply'[r] = Gone)
    BY <1>1, <1>7, <1>8, ChannelsDiffer DEF CallShape
  <2> QED  BY <1>1, <1>2, <2>1 DEF CallShape
<1>10. AtHome' /\ Held' /\ Exclusion'
  BY <1>2 DEF WaitersInv, AtHome, Held, Exclusion
<1>11. CancelBeforeDrop'
  BY <1>7 DEF WaitersInv, CancelBeforeDrop, Cancelled
<1>12. OnceAnswered'
  <2>1. OnceAnswered
    BY DEF WaitersInv
  <2>2. \A a \in inbox' : Announced(a.about)' /\ prompt'[a.about] # "shown"
    BY <1>2, <2>1 DEF OnceAnswered
  <2>3. \A a, c \in inbox' : a.about = c.about => a = c
    BY <2>1 DEF OnceAnswered
  <2>4. \A r \in Requests, a \in Answers : reply'[r] = Sent(a) => Spent(a.about)'
    BY <1>4, <1>6, <2>1, AboutRequests DEF OnceAnswered
  <2> QED  BY <2>2, <2>3, <2>4 DEF OnceAnswered
<1>13. GrantsRecorded'
  <2>1. GrantsRecorded
    BY DEF WaitersInv
  <2>2. \A t \in Turns : \A r \in grants'[t] : Registered(r)' /\ tool'[r].home = t
    BY <1>2
  <2>3. \A r \in Requests : \A d : Recorded(r, d) => Recorded(r, d)'
    BY DEF Recorded
  <2>4. ASSUME NEW r \in Requests, tool[r].kind = "permissions"
        PROVE  /\ \A a \in Answers : reply'[r] = Sent(a) => Recorded(r, a.decision)'
               /\ tool'[r].pc = "done" => Recorded(r, tool[r].result)'
    <3>1. \A a \in Answers : reply'[r] = Sent(a) => Recorded(r, a.decision)'
      BY <1>6, <2>1, <2>3, <2>4 DEF GrantsRecorded
    <3>2. tool[r].pc = "done" => Recorded(r, tool[r].result)
      BY <2>1, <2>4 DEF GrantsRecorded
    <3> QED  BY <3>1, <3>2 DEF Recorded
  <2> QED  BY <2>2, <2>4 DEF GrantsRecorded
<1>14. OwnReplies'
  BY <1>3, <1>6 DEF WaitersInv, OwnReplies
<1>15. AskOne'
  BY <1>3, <1>5 DEF WaitersInv, AskOne
<1> QED
  BY <1>9, <1>10, <1>11, <1>12, <1>13, <1>14, <1>15 DEF WaitersInv

\* Sending to one channel.
LEMMA SendOne ==
    ASSUME Types, NEW w \in Requests, NEW a \in Answers, Send(w, a)
    PROVE  /\ reply' \in [Requests -> Channels]
           /\ \A q \in Requests : \/ reply'[q] = reply[q]
                                  \/ q = w /\ reply[q] = Open /\ reply'[q] = Sent(a)
<1>1. Sent(a) \in Channels
  BY DEF Channels
<1>2. reply \in [Requests -> Channels]
        /\ reply' = [reply EXCEPT ![w] = IF @ = Open THEN Sent(a) ELSE @]
  BY DEF Types, Send
<1> QED  BY <1>1, <1>2

\* A response is applied: the sender with its key is the one of the request it
\* answers, unless MCP approvals share the key.
LEMMA NotifyInv ==
    ASSUME WaitersInv, NEW a \in inbox, Notify(a)
    PROVE  WaitersInv'
<1>1. Types /\ CallShape /\ OnceAnswered /\ Held
  BY DEF WaitersInv
<1>2. /\ notify = NoNotify /\ inbox' = inbox \ {a}
      /\ UNCHANGED <<slot, phase, tool, prompt, grants, session>>
  BY DEF Notify, turnVars, grantVars
<1>3. a \in Answers /\ a.about \in Requests /\ notify.pc = "idle"
  BY <1>2, AboutRequests DEF NoNotify
<1>4. CASE UNCHANGED <<waiters, reply, notify>>
  <2>1. Types' /\ Retreats /\ Advances
    BY <1>1, <1>2, <1>4 DEF Types, Retreats, Advances, CallShape
  <2> QED  BY <1>2, <1>4, <2>1, TurnStep
<1>5. CASE slot # NoTurn /\ \E w \in Entry(slot, a.about) :
              /\ waiters' = [waiters EXCEPT ![slot] = @ \ {w}]
              /\ IF tool[w].kind = "permissions"
                 THEN /\ notify' = [pc |-> "record", to |-> w, state |-> slot, answer |-> a]
                      /\ UNCHANGED reply
                 ELSE /\ Send(w, a)
                      /\ UNCHANGED notify
  <2>1. PICK w \in Entry(slot, a.about) :
              /\ waiters' = [waiters EXCEPT ![slot] = @ \ {w}]
              /\ IF tool[w].kind = "permissions"
                 THEN /\ notify' = [pc |-> "record", to |-> w, state |-> slot, answer |-> a]
                      /\ UNCHANGED reply
                 ELSE /\ Send(w, a)
                      /\ UNCHANGED notify
    BY <1>5
  <2>2. slot \in Turns /\ w \in waiters[slot] /\ Key(w) = Key(a.about) /\ w \in Requests
    BY <1>1, <1>5 DEF Types, Entry
  <2>3. Registered(w) /\ tool[w].home = slot
    BY <1>1, <2>2 DEF Held
  <2>4. Announced(a.about) /\ prompt[a.about] # "shown"
    BY <1>1 DEF OnceAnswered
  <2>5. tool[w].kind \in Kinds /\ tool[a.about].kind \in Kinds
    BY <1>1, <1>3, <2>2, <2>3, <2>4 DEF CallShape, Begun, Registered, Announced
  <2>6. \/ w = a.about /\ tool[w].kind \in {"approval", "permissions"}
        \/ /\ tool[w].kind \in {"ask", "mcp"} /\ tool[a.about].kind \in {"ask", "mcp"}
           /\ tool[w].turn = tool[a.about].turn
    BY <1>3, <2>2, <2>5, SharedKey
  <2>7. Spent(a.about)'
    BY <1>1, <1>2, <2>4 DEF OnceAnswered, Spent, Announced
  <2>8. /\ waiters' \in [Turns -> SUBSET Requests]
        /\ \A t \in Turns : waiters'[t] \subseteq waiters[t]
    BY <1>1, <2>1, <2>2 DEF Types
  <2>9. \A t \in Turns : /\ grants[t] \subseteq grants'[t]
                         /\ \A r \in grants'[t] : Registered(r) /\ tool[r].home = t
    BY <1>2 DEF WaitersInv, GrantsRecorded
  <2>10. session \subseteq session' /\ inbox' \subseteq inbox
    BY <1>2
  <2>11. CASE tool[w].kind = "permissions"
    <3>1. w = a.about
      BY <2>6, <2>11
    <3>2. notify' = [pc |-> "record", to |-> w, state |-> slot, answer |-> a] /\ reply' = reply
      BY <2>1, <2>11
    <3>3. notify' \in Responses
      BY <1>3, <2>2, <3>2 DEF Responses
    <3>4. notify'.pc = "record" /\ notify'.to = w /\ notify'.state = slot /\ notify'.answer = a
      BY <3>2
    <3>5. Types'
      BY <1>1, <1>2, <2>8, <3>2, <3>3 DEF Types
    <3>6. Applying'
      BY <1>2, <1>3, <2>2, <2>3, <2>11, <3>1, <3>4 DEF Applying, Registered
    <3>7. Spent(notify.answer.about)'
      BY <2>7, <3>4 DEF Spent, Announced
    <3> QED  BY <1>2, <2>8, <2>9, <2>10, <3>2, <3>5, <3>6, <3>7, LoopInv
  <2>12. CASE tool[w].kind # "permissions"
    <3>1. Send(w, a) /\ notify' = notify
      BY <2>1, <2>12
    <3>2. /\ reply' \in [Requests -> Channels]
          /\ \A q \in Requests : \/ reply'[q] = reply[q]
                                 \/ q = w /\ reply[q] = Open /\ reply'[q] = Sent(a)
      BY <1>1, <1>3, <2>2, <3>1, SendOne
    <3>3. Types'
      BY <1>1, <1>2, <2>8, <3>1, <3>2 DEF Types
    <3>4. notify'.pc = "idle" /\ Applying'
      BY <1>3, <3>1 DEF Applying
    <3>5. reply[w] = Open /\ Sure(w) => a.about = w
      <4> SUFFICES ASSUME reply[w] = Open, Sure(w), a.about # w  PROVE FALSE
        OBVIOUS
      <4>1. /\ tool[w].kind = "ask" /\ tool[a.about].kind = "ask"
            /\ tool[w].turn = tool[a.about].turn /\ NoMcp(tool[w].turn)
        BY <1>3, <2>6 DEF Sure, NoMcp
      <4>2. Quiet(w) \/ Quiet(a.about)
        BY <1>3, <2>2, <4>1 DEF WaitersInv, AskOne
      <4>3. ~Quiet(a.about)
        BY DEF Quiet
      <4>4. reply[w] = Gone
        BY <1>1, <2>2, <4>2, <4>3 DEF Quiet, CallShape
      <4> QED  BY <4>4, ChannelsDiffer
    <3>6. \A q \in Requests : reply'[q] = reply[q] \/ Delivers(q)
      BY <1>3, <2>3, <2>7, <2>12, <3>2, <3>5 DEF Delivers
    <3> QED  BY <1>2, <2>8, <2>9, <2>10, <3>3, <3>4, <3>6, LoopInv
  <2> QED  BY <2>11, <2>12
<1> QED  BY <1>4, <1>5 DEF Notify

\* A grant is recorded where its request was found.
LEMMA RecordGrantInv ==
    ASSUME WaitersInv, RecordGrant
    PROVE  WaitersInv'
<1>0. Types /\ Applying /\ OnceAnswered
  BY DEF WaitersInv
<1>1. PICK r, t, d : r = notify.to /\ t = notify.state /\ d = notify.answer.decision
  OBVIOUS
<1>2. /\ notify.pc = "record" /\ notify' = [notify EXCEPT !.pc = "send"]
      /\ grants' = [grants EXCEPT ![t] = IF d = "yes" THEN @ \cup {r} ELSE @]
      /\ session' = IF d = "session" THEN session \cup {r} ELSE session
      /\ UNCHANGED <<slot, phase, waiters, tool, reply, prompt, inbox>>
  BY <1>1 DEF RecordGrant, turnVars
<1>3. /\ r \in Requests /\ Registered(r) /\ tool[r].kind = "permissions"
      /\ notify.answer \in Answers /\ notify.answer.about = r
      /\ t \in Turns /\ t = tool[r].home
  BY <1>0, <1>1, <1>2 DEF Applying
<1>4. /\ notify' \in Responses /\ notify'.pc = "send" /\ notify'.to = r
      /\ notify'.state = t /\ notify'.answer = notify.answer
  BY <1>0, <1>1, <1>2 DEF Types, Responses
<1>5. notify'.answer.decision = d
  BY <1>1, <1>4
<1>6. /\ grants' \in [Turns -> SUBSET Requests] /\ session' \in SUBSET Requests
      /\ \A u \in Turns : grants[u] \subseteq grants'[u]
      /\ \A u \in Turns : \A q \in grants'[u] : q \in grants[u] \/ (u = t /\ q = r)
      /\ d = "yes" => r \in grants'[t]
      /\ session \subseteq session' /\ (d = "session" => r \in session')
  BY <1>0, <1>2, <1>3 DEF Types
<1>7. Types'
  BY <1>0, <1>2, <1>4, <1>6 DEF Types
<1>8. Registered(r)'
  BY <1>2, <1>3 DEF Registered
<1>9. Recorded(r, d)'
  BY <1>2, <1>3, <1>6 DEF Recorded
<1>10. Recorded(notify.to, notify.answer.decision)'
  BY <1>4, <1>5, <1>9 DEF Recorded
<1>11. Applying'
  BY <1>2, <1>3, <1>4, <1>8, <1>10 DEF Applying
<1>12. Spent(notify.answer.about)'
  BY <1>0, <1>2, <1>4 DEF OnceAnswered, Spent, Announced
<1>13. \A u \in Turns : \A q \in grants'[u] : Registered(q) /\ tool[q].home = u
  BY <1>3, <1>6 DEF WaitersInv, GrantsRecorded
<1>14. \A u \in Turns : waiters'[u] \subseteq waiters[u]
  BY <1>2
<1> QED  BY <1>2, <1>6, <1>7, <1>11, <1>12, <1>13, <1>14, LoopInv

\* A recorded grant is sent.
LEMMA SendGrantInv ==
    ASSUME WaitersInv, SendGrant
    PROVE  WaitersInv'
<1>0. Types /\ Applying /\ OnceAnswered
  BY DEF WaitersInv
<1>1. PICK r, a : r = notify.to /\ a = notify.answer
  OBVIOUS
<1>2. /\ notify.pc = "send" /\ notify' = NoNotify /\ Send(r, a)
      /\ UNCHANGED <<slot, phase, waiters, tool, prompt, inbox, grants, session>>
  BY <1>1 DEF SendGrant, turnVars, grantVars
<1>3. /\ r \in Requests /\ Registered(r) /\ a \in Answers /\ a.about = r
      /\ Recorded(r, a.decision)
  BY <1>0, <1>1, <1>2 DEF Applying
<1>4. Spent(a.about)
  BY <1>0, <1>1, <1>2 DEF OnceAnswered
<1>5. /\ reply' \in [Requests -> Channels]
      /\ \A q \in Requests : \/ reply'[q] = reply[q]
                             \/ q = r /\ reply[q] = Open /\ reply'[q] = Sent(a)
  BY <1>0, <1>2, <1>3, SendOne
<1>6. NoNotify \in Responses /\ NoNotify.pc = "idle"
  BY DEF NoNotify, Responses
<1>7. Types'
  BY <1>0, <1>2, <1>5, <1>6 DEF Types
<1>8. notify'.pc = "idle" /\ Applying'
  BY <1>2, <1>6 DEF Applying
<1>9. \A x, d : (Spent(x) => Spent(x)') /\ (Recorded(x, d) => Recorded(x, d)')
  BY <1>2 DEF Spent, Announced, Recorded
<1>10. Spent(a.about)' /\ Recorded(r, a.decision)'
  BY <1>3, <1>4, <1>9
<1>11. \A q \in Requests : reply'[q] = reply[q] \/ Delivers(q)
  BY <1>3, <1>5, <1>10 DEF Delivers
<1>12. \A t \in Turns : /\ waiters'[t] \subseteq waiters[t] /\ grants[t] \subseteq grants'[t]
                        /\ \A q \in grants'[t] : Registered(q) /\ tool[q].home = t
  BY <1>2 DEF WaitersInv, GrantsRecorded
<1> QED  BY <1>2, <1>7, <1>8, <1>11, <1>12, LoopInv

(***************************************************************************)
(* The theorems.                                                           *)
(***************************************************************************)

\* Every step keeps the invariant.
LEMMA NextInv == WaitersInv /\ [Next]_vars => WaitersInv'
<1> SUFFICES ASSUME WaitersInv, [Next]_vars  PROVE WaitersInv'
  OBVIOUS
<1>1. CASE UNCHANGED vars
  <2>1. Types' /\ Retreats /\ Advances
    BY <1>1 DEF WaitersInv, Types, Retreats, Advances, CallShape, vars, turnVars, grantVars
  <2> QED  BY <1>1, <2>1, TurnStep DEF vars, grantVars
<1>2. CASE \E r \in Requests, k \in Kinds : Call(r, k)
  BY <1>2, CallInv
<1>3. CASE \E r \in Requests : ToolStep(r) \/ Answer(r)
  BY <1>3, RegisterInv, AnnounceInv, ReturnInv, GiveUpInv, SubmitInv DEF ToolStep, Answer
<1>4. CASE \E t \in Turns : StartTurn(t) \/ FinishTask(t) \/ Interrupt(t) \/ EndStep(t)
  BY <1>4, TurnsInv
<1>5. CASE LoopStep
  BY <1>5, NotifyAbortInv, NotifyInv, RecordGrantInv, SendGrantInv DEF LoopStep
<1> QED  BY <1>1, <1>2, <1>3, <1>4, <1>5 DEF Next

\* The invariant holds in every reachable state.
THEOREM WaitersInvariance == Spec => []WaitersInv
<1> QED  BY InitInv, NextInv, PTL DEF Spec

\* The state is well typed, and a TurnState holds one sender under a key.
THEOREM WaitersTypeCorrect == Spec => []TypeOK
<1>1. WaitersInv => TypeOK
  <2> SUFFICES ASSUME Types, Held  PROVE TypeOK
    BY DEF WaitersInv
  <2>1. \A r \in Requests :
         /\ tool[r].pc \in {"idle", "called", "announce", "await", "done"}
         /\ tool[r].kind \in Kinds \cup {"none"}
         /\ {tool[r].turn, tool[r].home} \subseteq Turns \cup {NoTurn}
         /\ tool[r].result \in Decisions \cup {"none"}
         /\ reply[r] \in {Open, Closed, Gone} \cup {Sent(a) : a \in Answers}
    BY DEF Types, ToolCalls, Channels
  <2>2. notify.pc \in {"idle", "record", "send"}
    BY DEF Types, Responses
  <2> QED  BY <2>1, <2>2 DEF TypeOK, Types, Held, TurnPhases
<1> QED  BY <1>1, WaitersInvariance, PTL

\* A tool acts on the answer to its own prompt: no late answer, and no answer
\* to another call of the turn, passes for its own.
THEOREM AnswersAreOwn == Spec => []OwnAnswer
<1>1. WaitersInv => OwnAnswer
  BY DEF WaitersInv, OwnReplies, OwnAnswer, NoMcp
<1> QED  BY <1>1, WaitersInvariance, PTL

\* A turn's waiters are dropped only after its token is cancelled.
THEOREM CancelledBeforeDropped == Spec => []CancelBeforeDrop
<1>1. WaitersInv => CancelBeforeDrop
  BY DEF WaitersInv
<1> QED  BY <1>1, WaitersInvariance, PTL

\* A turn-scoped grant is recorded in the turn that held the request.
THEOREM GrantsStayHome == Spec => []GrantOrigin
<1>1. WaitersInv => GrantOrigin
  BY DEF WaitersInv, GrantsRecorded, GrantOrigin
<1> QED  BY <1>1, WaitersInvariance, PTL

\* A tool that is told of a grant finds it recorded.
THEOREM GrantsBeforeReplies == Spec => []GrantBeforeReply
<1>1. WaitersInv => GrantBeforeReply
  BY DEF WaitersInv, GrantsRecorded, GrantBeforeReply, Recorded
<1> QED  BY <1>1, WaitersInvariance, PTL
=============================================================================
