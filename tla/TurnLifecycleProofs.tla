------------------------ MODULE TurnLifecycleProofs ------------------------
(***************************************************************************)
(* Proofs about TurnLifecycle for any number of turns, inputs, aborting    *)
(* processes and routers.                                                  *)
(***************************************************************************)
EXTENDS TurnLifecycle, TLAPS

(***************************************************************************)
(* The inductive invariant.                                                *)
(***************************************************************************)

\* A process that is aborting a turn holds its task and its turn state; a
\* finishing turn holds its turn state.
LocalsInUse ==
    \A p \in Procs :
        /\ pc[p] \in {"suspend", "cancel", "emit", "clear"} =>
              loc[p].victim \in Turns /\ loc[p].ts \in TStates
        /\ pc[p] = "settle" => loc[p].ts \in TStates

\* A turn that is being started belongs to one process and has no task yet.
StartingTurns ==
    /\ \A p \in Procs : loc[p].new # None => pc[loc[p].new] = "created"
    /\ \A p, q \in Procs : loc[p].new # None /\ loc[p].new = loc[q].new
           => p = q

\* A task that is installed or being aborted has been spawned.
SpawnedTasks ==
    /\ active.task # None => pc[active.task] \notin {"unborn", "created"}
    /\ \A p \in Procs : loc[p].victim # None =>
          pc[loc[p].victim] \notin {"unborn", "created"}

TurnInv ==
    /\ TypeOK
    /\ LocalsInUse
    /\ StartingTurns
    /\ SpawnedTasks
    /\ HandleUnique

(***************************************************************************)
(* Lemmas about the helpers and about typed updates.                       *)
(***************************************************************************)

\* ActiveTurn::default yields a turn state.
LEMMA FreshStateIn == FreeStates # {} => FreshState \in TStates
BY DEF FreshState, FreeStates

\* A new turn has an id nobody used.
LEMMA NewTurnUnborn ==
    ASSUME NEW t, NEW kind, NEW input, NewTurn(t, kind, input)
    PROVE  pc[t] = "unborn"
BY DEF NewTurn, FreshTurn, UnusedTurns

\* The type invariant, conjunct by conjunct.
LEMMA Types ==
    ASSUME TurnInv
    PROVE  /\ active \in [ts : TStates \cup {None}, task : Turns \cup {None}]
           /\ active.ts = None => active.task = None
           /\ pending \in [TStates -> SUBSET Items]
           /\ phase \in [TStates -> {"CurrentTurn", "NextTurn"}]
           /\ mailbox \subseteq Mails
           /\ pc \in [Procs -> PCs]
           /\ loc \in [Procs -> Locals]
           /\ turn \in [Turns -> Contexts]
           /\ events \in [Turns -> Seq(Events)]
           /\ history \subseteq Items /\ sent \subseteq Items
           /\ dropped \subseteq Items
BY DEF TurnInv, TypeOK

\* Assigning fields of a process's locals keeps them locals.
LEMMA WithItems ==
    ASSUME NEW l \in [Procs -> Locals], NEW p, NEW x \in SUBSET Items
    PROVE  [l EXCEPT ![p].items = x] \in [Procs -> Locals]
BY DEF Locals

\* Referring to another turn state.
LEMMA WithState ==
    ASSUME NEW l \in [Procs -> Locals], NEW p, NEW s \in TStates \cup {None}
    PROVE  [l EXCEPT ![p].ts = s] \in [Procs -> Locals]
BY DEF Locals

\* Starting another turn.
LEMMA WithNew ==
    ASSUME NEW l \in [Procs -> Locals], NEW p, NEW n \in Turns \cup {None}
    PROVE  [l EXCEPT ![p].new = n] \in [Procs -> Locals]
BY DEF Locals

\* The turn state and the items together.
LEMMA WithStateAndItems ==
    ASSUME NEW l \in [Procs -> Locals], NEW p, NEW s \in TStates \cup {None}, NEW x \in SUBSET Items
    PROVE  [l EXCEPT ![p].ts = s, ![p].items = x] \in [Procs -> Locals]
BY DEF Locals

\* The items and the turn together.
LEMMA WithItemsAndNew ==
    ASSUME NEW l \in [Procs -> Locals], NEW p, NEW n \in Turns \cup {None}, NEW x \in SUBSET Items
    PROVE  [l EXCEPT ![p].items = x, ![p].new = n] \in [Procs -> Locals]
BY DEF Locals

\* Letting go of a task and its turn state.
LEMMA WithoutVictim ==
    ASSUME NEW l \in [Procs -> Locals], NEW p
    PROVE  [l EXCEPT ![p].victim = None, ![p].ts = None] \in [Procs -> Locals]
BY DEF Locals

\* The locals of a process outside any handler are locals.
LEMMA BlankLocals == Blank \in Locals
BY DEF Blank, Locals, Reasons

\* Assigning fields of a turn's context keeps it a context.
LEMMA ContextsUpdate ==
    ASSUME NEW c \in [Turns -> Contexts], NEW t, NEW x \in SUBSET Items,
           NEW b \in BOOLEAN
    PROVE  /\ [c EXCEPT ![t].input = x] \in [Turns -> Contexts]
           /\ [c EXCEPT ![t].cancelled = TRUE] \in [Turns -> Contexts]
           /\ [c EXCEPT ![t].drain = b] \in [Turns -> Contexts]
           /\ [c EXCEPT ![t].input = x, ![t].drain = b] \in [Turns -> Contexts]
BY DEF Contexts

(***************************************************************************)
(* How the ownership invariants survive the four shapes of step that touch *)
(* them: a move, a new turn, the taking of a task and the stopping of it.  *)
(***************************************************************************)
Ownership == LocalsInUse /\ StartingTurns /\ SpawnedTasks /\ HandleUnique

\* The places where a process must hold something, or is not yet a task.
OwnerPCs == {"unborn", "created", "suspend", "cancel", "emit", "clear",
             "settle"}

\* A process moves to a place where it need hold nothing, and gives up at
\* most what it holds itself: nobody else's ownership is disturbed.
LEMMA MoveStep ==
    ASSUME TurnInv, NEW p \in Procs, NEW next \in PCs \ OwnerPCs,
           pc[p] \notin {"unborn", "created"},
           pc' = [pc EXCEPT ![p] = next],
           active'.task \in {active.task, None},
           \A q \in Procs : /\ loc'[q].new \in {loc[q].new, None}
                            /\ loc'[q].victim \in {loc[q].victim, None},
           \A q \in Procs \ {p} : /\ loc'[q].ts = loc[q].ts
                                  /\ loc'[q].victim = loc[q].victim
    PROVE  Ownership'
<1>0. /\ pc \in [Procs -> PCs] /\ loc \in [Procs -> Locals]
      /\ active \in [ts : TStates \cup {None}, task : Turns \cup {None}]
  BY Types
<1>1. LocalsInUse'
  BY <1>0 DEF TurnInv, LocalsInUse, OwnerPCs
<1>2. StartingTurns'
  BY <1>0 DEF TurnInv, StartingTurns, OwnerPCs, Locals, Procs
<1>3. SpawnedTasks'
  BY <1>0 DEF TurnInv, SpawnedTasks, OwnerPCs, Locals, Procs
<1>4. HandleUnique'
  BY DEF TurnInv, HandleUnique
<1> QED BY <1>1, <1>2, <1>3, <1>4 DEF Ownership

\* A process creates a turn, under an id nobody used, and is the only one
\* that will start it.
LEMMA CreateStep ==
    ASSUME TurnInv, NEW p \in Procs, NEW t \in Turns,
           NEW next \in PCs \ OwnerPCs,
           pc[p] \notin {"unborn", "created"}, pc[t] = "unborn",
           pc' = [pc EXCEPT ![p] = next, ![t] = "created"],
           active' = active,
           loc'[p].new = t, loc'[p].victim \in {loc[p].victim, None},
           \A q \in Procs \ {p} : loc'[q] = loc[q]
    PROVE  Ownership'
<1>0. /\ pc \in [Procs -> PCs] /\ loc \in [Procs -> Locals]
      /\ active \in [ts : TStates \cup {None}, task : Turns \cup {None}]
      /\ t \in Procs /\ None \notin Turns
  BY Types, ConstantsAssumption DEF Procs
<1>1. LocalsInUse'
  BY <1>0 DEF TurnInv, LocalsInUse, OwnerPCs
<1>2. StartingTurns'
  BY <1>0 DEF TurnInv, StartingTurns, OwnerPCs, Locals, Procs
<1>3. SpawnedTasks'
  BY <1>0 DEF TurnInv, SpawnedTasks, OwnerPCs, Locals, Procs
<1>4. HandleUnique'
  BY DEF TurnInv, HandleUnique
<1> QED BY <1>1, <1>2, <1>3, <1>4 DEF Ownership

\* A process takes the task out of the slot and becomes its only owner.
LEMMA TakeStep ==
    ASSUME TurnInv, NEW p \in Procs,
           NEW next \in {"cancel", "clear", "suspend"},
           pc[p] \notin {"unborn", "created"}, active.task # None,
           pc' = [pc EXCEPT ![p] = next],
           active'.task = None,
           loc'[p].victim = active.task, loc'[p].ts = active.ts,
           loc'[p].new \in {loc[p].new, None},
           \A q \in Procs \ {p} : loc'[q] = loc[q]
    PROVE  Ownership'
<1>0. /\ pc \in [Procs -> PCs] /\ loc \in [Procs -> Locals]
      /\ active \in [ts : TStates \cup {None}, task : Turns \cup {None}]
      /\ active.ts = None => active.task = None
      /\ None \notin Turns
  BY Types, ConstantsAssumption
<1>1. LocalsInUse'
  BY <1>0 DEF TurnInv, LocalsInUse
<1>2. StartingTurns'
  BY <1>0 DEF TurnInv, StartingTurns, Locals, Procs
<1>3. SpawnedTasks'
  BY <1>0 DEF TurnInv, SpawnedTasks, Locals, Procs
<1>4. HandleUnique'
  BY <1>0 DEF TurnInv, HandleUnique
<1> QED BY <1>1, <1>2, <1>3, <1>4 DEF Ownership

\* A process stops the task it owns: the task is dead, its locals are gone.
LEMMA StopStep ==
    ASSUME TurnInv, NEW p \in Procs, NEW v \in Turns,
           NEW next \in {"emit", "take"},
           pc[p] \in {"cancel", "suspend"}, loc[p].victim = v,
           pc' = [pc EXCEPT ![p] = next, ![v] = "done"],
           active' = active,
           \A q \in Procs : /\ loc'[q].new \in {loc[q].new, None}
                            /\ loc'[q].victim \in {loc[q].victim, None},
           \A q \in Procs \ {p, v} : loc'[q] = loc[q],
           next = "emit" /\ p # v => loc'[p] = loc[p]
    PROVE  Ownership'
<1>0. /\ pc \in [Procs -> PCs] /\ loc \in [Procs -> Locals]
      /\ active \in [ts : TStates \cup {None}, task : Turns \cup {None}]
      /\ v \in Procs /\ None \notin Turns
  BY Types, ConstantsAssumption DEF Procs
<1>1. LocalsInUse'
  BY <1>0 DEF TurnInv, LocalsInUse
<1>2. StartingTurns'
  BY <1>0 DEF TurnInv, StartingTurns, SpawnedTasks, Locals, Procs
<1>3. SpawnedTasks'
  BY <1>0 DEF TurnInv, SpawnedTasks, Locals, Procs
<1>4. HandleUnique'
  BY <1>0 DEF TurnInv, HandleUnique
<1> QED BY <1>1, <1>2, <1>3, <1>4 DEF Ownership

(***************************************************************************)
(* One lemma per action.                                                   *)
(***************************************************************************)
\* Steering changes only the buffered input.
LEMMA SteerInv ==
    ASSUME TurnInv, NEW p \in Procs, NEW u \in UserInputs, Steer(p, u)
    PROVE  TurnInv'
<1>1. TypeOK'
  BY Types, ConstantsAssumption
     DEF TypeOK, Steer, ExtendAndAccept, HasTask, Items
<1>2. Ownership'
  BY DEF Steer, ExtendAndAccept, HasTask, TurnInv, Ownership, LocalsInUse,
         StartingTurns, SpawnedTasks, HandleUnique
<1> QED BY <1>1, <1>2 DEF TurnInv, Ownership

\* Hook context goes into the turn state of an installed task.
LEMMA InjectHookContextInv ==
    ASSUME TurnInv, NEW x \in Injections, InjectHookContext(x)
    PROVE  TurnInv'
<1>1. TypeOK'
  BY Types, ConstantsAssumption
     DEF TypeOK, InjectHookContext, ExtendAndAccept, HasTask, Items
<1>2. Ownership'
  BY DEF InjectHookContext, ExtendAndAccept, HasTask, TurnInv, Ownership,
         LocalsInUse, StartingTurns, SpawnedTasks, HandleUnique
<1> QED BY <1>1, <1>2 DEF TurnInv, Ownership

\* The turn body moves a task that owns nothing but its input.
LEMMA BeginTurnInv ==
    ASSUME TurnInv, NEW t \in Turns, BeginTurn(t)
    PROVE  TurnInv'
<1>1. TypeOK'
  BY Types DEF TypeOK, BeginTurn, Step, Events, PCs, BodyPCs, Procs
<1>2. Ownership'
  BY MoveStep, Types DEF BeginTurn, Step, Events, PCs, BodyPCs, OwnerPCs, Procs
<1> QED BY <1>1, <1>2 DEF TurnInv, Ownership

\* A final answer changes the delivery phase of the slot's turn state only.
LEMMA FinalAnswerInv ==
    ASSUME TurnInv, NEW t \in Turns, FinalAnswer(t)
    PROVE  TurnInv'
<1>1. TypeOK'
  BY Types DEF TypeOK, FinalAnswer, Step, PCs, BodyPCs, Procs
<1>2. Ownership'
  BY MoveStep, Types DEF FinalAnswer, Step, PCs, BodyPCs, OwnerPCs, Procs
<1> QED BY <1>1, <1>2 DEF TurnInv, Ownership

\* A sampling request that fails for good moves the task only.
LEMMA FailSamplingInv ==
    ASSUME TurnInv, NEW t \in Turns, FailSampling(t)
    PROVE  TurnInv'
<1>1. TypeOK'
  BY Types DEF TypeOK, FailSampling, Step, PCs, BodyPCs, Procs
<1>2. Ownership'
  BY MoveStep, Types DEF FailSampling, Step, PCs, BodyPCs, OwnerPCs, Procs
<1> QED BY <1>1, <1>2 DEF TurnInv, Ownership

\* Running the turn again, or not, moves the task only.
LEMMA AfterRunTurnInv ==
    ASSUME TurnInv, NEW t \in Turns, AfterRunTurn(t)
    PROVE  TurnInv'
<1>1. TypeOK'
  BY Types DEF TypeOK, AfterRunTurn, Step, PCs, BodyPCs, Procs
<1>2. Ownership'
  BY MoveStep, Types DEF AfterRunTurn, Step, PCs, BodyPCs, OwnerPCs, Procs
<1> QED BY <1>1, <1>2 DEF TurnInv, Ownership

\* The end of the body moves the task; its handle stays where it is.
LEMMA EndTurnInv ==
    ASSUME TurnInv, NEW t \in Turns, EndTurn(t)
    PROVE  TurnInv'
<1>1. TypeOK'
  BY Types DEF TypeOK, EndTurn, Step, PCs, BodyPCs, Procs
<1>2. Ownership'
  BY MoveStep, Types DEF EndTurn, Step, PCs, BodyPCs, OwnerPCs, Procs
<1> QED BY <1>1, <1>2 DEF TurnInv, Ownership

\* The terminal event of a finished turn is a lifecycle event.
LEMMA EmitTerminalInv ==
    ASSUME TurnInv, NEW t \in Turns, EmitTerminal(t)
    PROVE  TurnInv'
<1>1. TypeOK'
  BY Types
     DEF TypeOK, EmitTerminal, Step, PCs, FinishPCs, Events, Results, Procs
<1>2. Ownership'
  BY MoveStep, Types
     DEF EmitTerminal, Step, PCs, FinishPCs, Events, Results, OwnerPCs, Procs
<1> QED BY <1>1, <1>2 DEF TurnInv, Ownership

\* Recording inputs keeps the history typed and moves the task one step.
LEMMA RecordInputsStep ==
    ASSUME TurnInv, NEW t \in Turns, NEW items \in SUBSET Items, NEW next,
           NEW stop, RecordInputs(t, items, next, stop)
    PROVE  /\ history' \subseteq Items /\ dropped' \subseteq Items
           /\ \E n \in {next, stop} : pc' = [pc EXCEPT ![t] = n]
<1>1. PICK blocked \in SUBSET (items \cap UserInputs) :
         /\ history' = history \cup (items \ blocked)
         /\ dropped' = dropped \cup blocked
         /\ pc' = [pc EXCEPT ![t] = IF /\ blocked # {}
                                       /\ items \cap UserInputs = blocked
                                    THEN stop ELSE next]
  BY DEF RecordInputs, Step
<1> QED BY <1>1, Types

\* A finishing turn still holds the turn state it settles.
LEMMA SettlePendingInv ==
    ASSUME TurnInv, NEW t \in Turns, SettlePending(t)
    PROVE  TurnInv'
<1>0. pending' \in [TStates -> SUBSET Items] /\ pending[loc[t].ts] \in SUBSET Items
  BY Types DEF SettlePending, TurnInv, LocalsInUse, Procs
<1>1. PICK next \in {"terminal"} : pc' = [pc EXCEPT ![t] = next]
  BY <1>0, RecordInputsStep DEF SettlePending
<1>2. TypeOK'
  <2>1. history' \subseteq Items /\ dropped' \subseteq Items
    BY <1>0, RecordInputsStep DEF SettlePending
  <2> QED BY <1>0, <1>1, <2>1, Types
             DEF TypeOK, SettlePending, PCs, FinishPCs, Procs
<1>3. Ownership'
  BY <1>1, MoveStep, Types DEF SettlePending, PCs, FinishPCs, OwnerPCs, Procs
<1> QED BY <1>2, <1>3 DEF TurnInv, Ownership

\* The turn's own input goes to the history or is discarded.
LEMMA EnterTurnInv ==
    ASSUME TurnInv, NEW t \in Turns, EnterTurn(t)
    PROVE  TurnInv'
<1>0. turn[t].input \in SUBSET Items
  BY Types DEF Contexts
<1>1. PICK next \in {"loop", "ret"} : pc' = [pc EXCEPT ![t] = next]
  BY <1>0, RecordInputsStep DEF EnterTurn
<1>2. TypeOK'
  <2>1. turn' \in [Turns -> Contexts]
    BY Types, ContextsUpdate DEF EnterTurn
  <2>2. history' \subseteq Items /\ dropped' \subseteq Items
    BY <1>0, RecordInputsStep DEF EnterTurn
  <2> QED BY <1>1, <2>1, <2>2, Types DEF TypeOK, EnterTurn, PCs, BodyPCs, Procs
<1>3. Ownership'
  BY <1>1, MoveStep, Types DEF EnterTurn, PCs, BodyPCs, OwnerPCs, Procs
<1> QED BY <1>2, <1>3 DEF TurnInv, Ownership

\* A turn cancelled while prewarming records its own input.
LEMMA CancelPrewarmInv ==
    ASSUME TurnInv, NEW t \in Turns, CancelPrewarm(t)
    PROVE  TurnInv'
<1>0. turn[t].input \in SUBSET Items
  BY Types DEF Contexts
<1>1. PICK next \in {"ended"} : pc' = [pc EXCEPT ![t] = next]
  BY <1>0, RecordInputsStep DEF CancelPrewarm
<1>2. TypeOK'
  <2>1. turn' \in [Turns -> Contexts]
    BY Types, ContextsUpdate DEF CancelPrewarm
  <2>2. history' \subseteq Items /\ dropped' \subseteq Items
    BY <1>0, RecordInputsStep DEF CancelPrewarm
  <2> QED BY <1>1, <2>1, <2>2, Types DEF TypeOK, CancelPrewarm, PCs, BodyPCs, Procs
<1>3. Ownership'
  BY <1>1, MoveStep, Types DEF CancelPrewarm, PCs, BodyPCs, OwnerPCs, Procs
<1> QED BY <1>2, <1>3 DEF TurnInv, Ownership

\* A turn that fails at its entry discards its own input.
LEMMA FailEntryInv ==
    ASSUME TurnInv, NEW t \in Turns, FailEntry(t)
    PROVE  TurnInv'
<1>1. PICK next \in {"ret", "ended"} : pc' = [pc EXCEPT ![t] = next]
  BY DEF FailEntry, Step
<1>2. TypeOK'
  <2>1. turn' \in [Turns -> Contexts]
    BY Types, ContextsUpdate DEF FailEntry
  <2>2. dropped' \subseteq Items
    BY Types DEF FailEntry, Contexts
  <2> QED BY <1>1, <2>1, <2>2, Types DEF TypeOK, FailEntry, PCs, BodyPCs, Procs
<1>3. Ownership'
  BY <1>1, MoveStep, Types DEF FailEntry, PCs, BodyPCs, OwnerPCs, Procs
<1> QED BY <1>2, <1>3 DEF TurnInv, Ownership

\* An injected item is buffered in the active turn or recorded.
LEMMA InjectNoNewTurnInv ==
    ASSUME TurnInv, NEW x \in Injections, InjectNoNewTurn(x)
    PROVE  TurnInv'
<1>1. TypeOK'
  <2>0. x \in Items
    BY DEF Items
  <2>1. CASE active.ts = None
    BY <2>0, <2>1, Types DEF TypeOK, InjectNoNewTurn
  <2>2. CASE active.ts # None
    <3>1. /\ pending' = [pending EXCEPT ![active.ts] = @ \cup {x}]
          /\ phase' = [phase EXCEPT ![active.ts] = "CurrentTurn"]
          /\ history' = history /\ sent' = sent \cup {x}
      BY <2>2 DEF InjectNoNewTurn, ExtendAndAccept
    <3>2. /\ pending' \in [TStates -> SUBSET Items]
          /\ phase' \in [TStates -> {"CurrentTurn", "NextTurn"}]
      BY <3>1, <2>0, Types
    <3> QED BY <3>1, <3>2, <2>0, Types DEF TypeOK, InjectNoNewTurn
  <2> QED BY <2>1, <2>2
<1>2. Ownership'
  BY DEF InjectNoNewTurn, TurnInv, Ownership, LocalsInUse, StartingTurns,
         SpawnedTasks, HandleUnique
<1> QED BY <1>1, <1>2 DEF TurnInv, Ownership

\* A follow-up request sets the drain flag and the delivery phase.
LEMMA FollowUpInv ==
    ASSUME TurnInv, NEW t \in Turns, FollowUp(t)
    PROVE  TurnInv'
<1>1. PICK drain \in BOOLEAN, next \in {"loop", "ret", "ended"} :
         turn' = [turn EXCEPT ![t].drain = drain] /\ pc' = [pc EXCEPT ![t] = next]
  BY DEF FollowUp, Step
<1>2. TypeOK'
  <2>1. turn' \in [Turns -> Contexts]
    BY <1>1, Types, ContextsUpdate
  <2> QED BY <1>1, <2>1, Types
             DEF TypeOK, FollowUp, AcceptMailbox, PCs, BodyPCs, Procs
<1>3. Ownership'
  BY <1>1, MoveStep, Types DEF FollowUp, PCs, BodyPCs, OwnerPCs, Procs
<1> QED BY <1>2, <1>3 DEF TurnInv, Ownership

\* Recovering from an exceeded window only clears the drain flag.
LEMMA RecoverWindowInv ==
    ASSUME TurnInv, NEW t \in Turns, RecoverWindow(t)
    PROVE  TurnInv'
<1>1. TypeOK'
  <2>1. turn' \in [Turns -> Contexts]
    BY Types, ContextsUpdate DEF RecoverWindow
  <2> QED BY <2>1, Types DEF TypeOK, RecoverWindow, Step, PCs, BodyPCs, Procs
<1>2. Ownership'
  BY MoveStep, Types DEF RecoverWindow, Step, PCs, BodyPCs, OwnerPCs, Procs
<1> QED BY <1>1, <1>2 DEF TurnInv, Ownership

\* After an answer the next request drains pending input.
LEMMA AfterAnswerInv ==
    ASSUME TurnInv, NEW t \in Turns, AfterAnswer(t)
    PROVE  TurnInv'
<1>1. PICK next \in {"loop", "ret", "ended"} : pc' = [pc EXCEPT ![t] = next]
  BY DEF AfterAnswer, Step
<1>2. TypeOK'
  <2>1. turn' \in [Turns -> Contexts]
    BY Types, ContextsUpdate DEF AfterAnswer
  <2>2. phase' \in [TStates -> {"CurrentTurn", "NextTurn"}]
    BY Types DEF AfterAnswer, AcceptMailbox
  <2> QED BY <1>1, <2>1, <2>2, Types DEF TypeOK, AfterAnswer, PCs, BodyPCs, Procs
<1>3. Ownership'
  BY <1>1, MoveStep, Types DEF AfterAnswer, PCs, BodyPCs, OwnerPCs, Procs
<1> QED BY <1>2, <1>3 DEF TurnInv, Ownership

\* Assigning the carried items leaves the other locals alone.
LEMMA ItemsOnly ==
    ASSUME NEW l \in [Procs -> Locals], NEW p, NEW x, NEW q \in Procs
    PROVE  /\ [l EXCEPT ![p].items = x][q].ts = l[q].ts
           /\ [l EXCEPT ![p].items = x][q].new = l[q].new
           /\ [l EXCEPT ![p].items = x][q].victim = l[q].victim
BY DEF Locals

\* What get_pending_input returns consists of items.
LEMMA PendingInputItems ==
    ASSUME TurnInv
    PROVE  PendingInput \subseteq Items
BY Types DEF PendingInput, Items

\* get_pending_input keeps the state typed.
LEMMA GetPendingInputTypes ==
    ASSUME TurnInv, NEW p \in Procs, NEW next \in PCs, GetPendingInput(p, next)
    PROVE  /\ loc' \in [Procs -> Locals]
           /\ pending' \in [TStates -> SUBSET Items]
           /\ mailbox' \subseteq Mails
           /\ pc' \in [Procs -> PCs]
<1>1. loc' = [loc EXCEPT ![p].items = PendingInput]
  BY DEF GetPendingInput
<1>2. loc' \in [Procs -> Locals]
  BY <1>1, Types, WithItems, PendingInputItems
<1> QED BY <1>2, Types DEF GetPendingInput

\* The two drains of pending input.
LEMMA CollectWorkInv ==
    ASSUME TurnInv, NEW p \in Procs, CollectWork(p)
    PROVE  TurnInv'
<1>1. TypeOK'
  <2>1. "fill" \in PCs
    BY DEF PCs, SharedPCs
  <2> QED BY <2>1, Types, GetPendingInputTypes DEF TypeOK, CollectWork
<1>2. Ownership'
  <2>1. /\ loc' = [loc EXCEPT ![p].items = PendingInput]
        /\ pc' = [pc EXCEPT ![p] = "fill"]
        /\ pc[p] = "collect" /\ active' = active
    BY DEF CollectWork, GetPendingInput
  <2>2. \A q \in Procs : /\ loc'[q].ts = loc[q].ts
                         /\ loc'[q].new = loc[q].new
                         /\ loc'[q].victim = loc[q].victim
    BY <2>1, Types, ItemsOnly
  <2>3. "fill" \in PCs \ OwnerPCs
    BY DEF PCs, SharedPCs, OwnerPCs
  <2> QED BY <2>1, <2>2, <2>3, MoveStep
<1> QED BY <1>1, <1>2 DEF TurnInv, Ownership

\* The head of the sampling loop drains pending input or keeps it.
LEMMA DrainPendingInv ==
    ASSUME TurnInv, NEW t \in Turns, DrainPending(t)
    PROVE  TurnInv'
<1>1. TypeOK'
  <2>0. "record" \in PCs /\ t \in Procs
    BY DEF PCs, BodyPCs, Procs
  <2>1. CASE turn[t].drain
    BY <2>0, <2>1, Types, GetPendingInputTypes DEF TypeOK, DrainPending
  <2>2. CASE ~turn[t].drain
    BY <2>0, <2>2, Types DEF TypeOK, DrainPending, Step
  <2> QED BY <2>1, <2>2
<1>2. Ownership'
  <2>0. "record" \in PCs \ OwnerPCs /\ t \in Procs
    BY DEF PCs, BodyPCs, OwnerPCs, Procs
  <2>1. CASE turn[t].drain
    <3>1. /\ loc' = [loc EXCEPT ![t].items = PendingInput]
          /\ pc' = [pc EXCEPT ![t] = "record"]
          /\ pc[t] = "loop" /\ active' = active
      BY <2>1 DEF DrainPending, GetPendingInput
    <3>2. \A q \in Procs : /\ loc'[q].ts = loc[q].ts
                           /\ loc'[q].new = loc[q].new
                           /\ loc'[q].victim = loc[q].victim
      BY <3>1, Types, ItemsOnly
    <3> QED BY <2>0, <3>1, <3>2, MoveStep
  <2>2. CASE ~turn[t].drain
    BY <2>0, <2>2, MoveStep, Types DEF DrainPending, Step
  <2> QED BY <2>1, <2>2
<1> QED BY <1>1, <1>2 DEF TurnInv, Ownership

\* The drained items are recorded and no longer carried.
LEMMA RecordPendingInv ==
    ASSUME TurnInv, NEW t \in Turns, RecordPending(t)
    PROVE  TurnInv'
<1>0. loc[t].items \in SUBSET Items
  BY Types DEF Locals, Procs
<1>1. PICK next \in {"sample", "ret"} : pc' = [pc EXCEPT ![t] = next]
  BY <1>0, RecordInputsStep DEF RecordPending
<1>2. TypeOK'
  <2>1. loc' = [loc EXCEPT ![t].items = {}]
    BY DEF RecordPending
  <2>2. loc' \in [Procs -> Locals]
    BY <2>1, Types, WithItems
  <2>3. history' \subseteq Items /\ dropped' \subseteq Items
    BY <1>0, RecordInputsStep DEF RecordPending
  <2> QED BY <1>1, <2>2, <2>3, Types
             DEF TypeOK, RecordPending, PCs, BodyPCs, Procs
<1>3. Ownership'
  <2>1. \A q \in Procs : /\ loc'[q].ts = loc[q].ts
                         /\ loc'[q].new = loc[q].new
                         /\ loc'[q].victim = loc[q].victim
    BY Types, ItemsOnly DEF RecordPending
  <2> QED BY <1>1, <2>1, MoveStep
             DEF RecordPending, OwnerPCs, PCs, BodyPCs, Procs
<1> QED BY <1>2, <1>3 DEF TurnInv, Ownership

\* start_task drains the mailbox into its own locals.
LEMMA DrainMailboxInv ==
    ASSUME TurnInv, NEW p \in Procs, DrainMailbox(p)
    PROVE  TurnInv'
<1>1. TypeOK'
  <2>1. loc' = [loc EXCEPT ![p].items = mailbox] /\ mailbox \subseteq Items
    BY Types DEF DrainMailbox, Items
  <2>2. loc' \in [Procs -> Locals]
    BY <2>1, Types, WithItems
  <2> QED BY <2>2, Types DEF TypeOK, DrainMailbox, PCs, SharedPCs
<1>2. Ownership'
  <2>1. /\ loc' = [loc EXCEPT ![p].items = mailbox]
        /\ pc' = [pc EXCEPT ![p] = "attach"]
        /\ pc[p] = "drain" /\ active' = active
    BY DEF DrainMailbox
  <2>2. \A q \in Procs : /\ loc'[q].ts = loc[q].ts
                         /\ loc'[q].new = loc[q].new
                         /\ loc'[q].victim = loc[q].victim
    BY <2>1, Types, ItemsOnly
  <2> QED BY <2>1, <2>2, MoveStep DEF OwnerPCs, PCs, SharedPCs
<1> QED BY <1>1, <1>2 DEF TurnInv, Ownership

\* The four operations that create a turn.
LEMMA StartTurnInv ==
    ASSUME TurnInv, NEW p \in Procs, NEW u \in UserInputs, NEW t \in
           Turns, StartTurn(p, u, t)
    PROVE  TurnInv'
<1>1. TypeOK'
  <2>1. loc' \in [Procs -> Locals]
    BY Types DEF StartTurn, Locals, Blank, Reasons
  <2>2. turn' \in [Turns -> Contexts]
    BY Types DEF StartTurn, NewTurn, Contexts, TaskKinds, Items
  <2> QED BY <2>1, <2>2, Types
             DEF TypeOK, StartTurn, Items, PCs, SharedPCs, Procs
<1>2. Ownership'
  <2>1. pc[t] = "unborn"
    BY NewTurnUnborn DEF StartTurn
  <2> QED BY <2>1, CreateStep, Types
             DEF StartTurn, OwnerPCs, PCs, SharedPCs, Blank
<1> QED BY <1>1, <1>2 DEF TurnInv, Ownership

\* Shell and compaction turns are created like regular ones.
LEMMA StartOtherInv ==
    ASSUME TurnInv, NEW kind \in OtherKinds, NEW t \in Turns,
           StartOther(kind, t)
    PROVE  TurnInv'
<1>1. TypeOK'
  <2>1. loc' \in [Procs -> Locals]
    BY Types DEF StartOther, Locals, Blank, Reasons
  <2>2. turn' \in [Turns -> Contexts]
    BY Types, ConstantsAssumption DEF StartOther, NewTurn, Contexts, TaskKinds
  <2> QED BY <2>1, <2>2, Types DEF TypeOK, StartOther, PCs, SharedPCs, Procs
<1>2. Ownership'
  <2>1. pc[t] = "unborn"
    BY NewTurnUnborn DEF StartOther
  <2> QED BY <2>1, CreateStep, Types
             DEF StartOther, OwnerPCs, PCs, SharedPCs, Blank, Procs
<1> QED BY <1>1, <1>2 DEF TurnInv, Ownership

\* start_if_idle creates a turn for the slot it reserved.
LEMMA AcceptIdleInv ==
    ASSUME TurnInv, NEW u \in UserInputs,
           NEW kind \in IdleStarts, NEW t \in
                  Turns, AcceptIdle(u, kind, t)
    PROVE  TurnInv'
<1>1. TypeOK'
  <2>0. loc' = [loc EXCEPT ![Loop].new = t]
    BY DEF AcceptIdle
  <2>1. loc' \in [Procs -> Locals]
    BY <2>0, Types, WithNew
  <2>2. turn' \in [Turns -> Contexts]
    BY Types DEF AcceptIdle, NewTurn, Contexts, TaskKinds, Items
  <2>3. pending' \in [TStates -> SUBSET Items] /\ sent' \subseteq Items
    BY Types DEF AcceptIdle, Items
  <2> QED BY <2>1, <2>2, <2>3, Types
             DEF TypeOK, AcceptIdle, PCs, SharedPCs, Procs
<1>2. Ownership'
  <2>1. pc[t] = "unborn"
    BY NewTurnUnborn DEF AcceptIdle
  <2>2. /\ loc'[Loop].new = t /\ loc'[Loop].victim = loc[Loop].victim
        /\ \A q \in Procs \ {Loop} : loc'[q] = loc[q]
    BY Types DEF AcceptIdle, Locals, Procs
  <2> QED BY <2>1, <2>2, CreateStep
             DEF AcceptIdle, OwnerPCs, PCs, SharedPCs, Procs
<1> QED BY <1>1, <1>2 DEF TurnInv, Ownership

\* The wake-up for pending work creates a turn for its reservation.
LEMMA FillReservedInv ==
    ASSUME TurnInv, NEW p \in Procs, NEW t \in Turns, FillReserved(p, t)
    PROVE  TurnInv'
<1>1. TypeOK'
  <2>1. loc' \in [Procs -> Locals]
    <3>1. loc' = [loc EXCEPT ![p].items = {}, ![p].new = t]
      BY DEF FillReserved
    <3> QED BY <3>1, Types, WithItemsAndNew
  <2>2. turn' \in [Turns -> Contexts]
    BY Types DEF FillReserved, NewTurn, Contexts, TaskKinds
  <2>3. pending' \in [TStates -> SUBSET Items]
    BY Types DEF FillReserved, Locals
  <2> QED BY <2>1, <2>2, <2>3, Types
             DEF TypeOK, FillReserved, PCs, SharedPCs, Procs
<1>2. Ownership'
  <2>1. pc[t] = "unborn"
    BY NewTurnUnborn DEF FillReserved
  <2>2. /\ loc'[p].new = t /\ loc'[p].victim = loc[p].victim
        /\ \A q \in Procs \ {p} : loc'[q] = loc[q]
    BY Types DEF FillReserved, Locals
  <2> QED BY <2>1, <2>2, CreateStep DEF FillReserved, OwnerPCs, PCs, SharedPCs
<1> QED BY <1>1, <1>2 DEF TurnInv, Ownership

\* Submissions that only move the loop.
LEMMA AbortAllInv ==
    ASSUME TurnInv, NEW reason \in AbortOps \ {"Suspend"}, AbortAll(reason)
    PROVE  TurnInv'
<1>1. TypeOK'
  <2>1. loc' \in [Procs -> Locals]
    BY Types, ConstantsAssumption DEF AbortAll, Locals, Blank, Reasons
  <2> QED BY <2>1, Types DEF TypeOK, AbortAll, PCs, SharedPCs, Procs
<1>2. Ownership'
  BY MoveStep, Types DEF AbortAll, OwnerPCs, PCs, SharedPCs, Procs, Blank
<1> QED BY <1>1, <1>2 DEF TurnInv, Ownership

\* Mail goes to the mailbox and may send the loop to the wake-up.
LEMMA CommunicateInv ==
    ASSUME TurnInv, NEW m \in Mails, Communicate(m)
    PROVE  TurnInv'
<1>1. TypeOK'
  <2>1. loc' \in [Procs -> Locals]
    BY Types, BlankLocals DEF Communicate
  <2> QED BY <2>1, Types DEF TypeOK, Communicate, Items, PCs, SharedPCs, Procs
<1>2. Ownership'
  BY MoveStep, Types DEF Communicate, OwnerPCs, PCs, SharedPCs, Procs, Blank
<1> QED BY <1>1, <1>2 DEF TurnInv, Ownership

\* Reserving the slot, and giving the reservation back.
LEMMA ReserveIdleInv ==
    ASSUME TurnInv, ReserveIdle
    PROVE  TurnInv'
<1>1. TypeOK'
  <2>0. FreshState \in TStates
    BY FreshStateIn DEF ReserveIdle, Reserve
  <2>1. loc' \in [Procs -> Locals]
    BY <2>0, Types DEF ReserveIdle, Locals, Blank, Reasons
  <2> QED BY <2>0, <2>1, Types, ConstantsAssumption
             DEF TypeOK, ReserveIdle, Reserve, PCs, SharedPCs, Procs
<1>2. Ownership'
  BY MoveStep, Types
     DEF ReserveIdle, Reserve, OwnerPCs, PCs, SharedPCs, Procs, Blank
<1> QED BY <1>1, <1>2 DEF TurnInv, Ownership

\* The second look at the mailbox keeps or returns the reservation.
LEMMA RecheckIdleInv ==
    ASSUME TurnInv, RecheckIdle
    PROVE  TurnInv'
<1>1. TypeOK'
  <2>1. loc' \in [Procs -> Locals]
    BY Types, BlankLocals DEF RecheckIdle
  <2> QED BY <2>1, Types
             DEF TypeOK, RecheckIdle, ClearReserved, NoActive, PCs, SharedPCs,
                 Procs
<1>2. Ownership'
  <2>1. CASE HasTrigger
    BY <2>1, MoveStep, Types
       DEF RecheckIdle, ClearReserved, NoActive, OwnerPCs, PCs, SharedPCs,
           Procs, Blank
  <2>2. CASE ~HasTrigger
    BY <2>2, MoveStep, Types DEF RecheckIdle, OwnerPCs, PCs, SharedPCs, Procs
  <2> QED BY <2>1, <2>2
<1> QED BY <1>1, <1>2 DEF TurnInv, Ownership

\* A refused idle start returns the reservation.
LEMMA RefuseIdleInv ==
    ASSUME TurnInv, RefuseIdle
    PROVE  TurnInv'
<1>1. TypeOK'
  <2>1. loc' \in [Procs -> Locals]
    BY Types, BlankLocals DEF RefuseIdle
  <2> QED BY <2>1, Types
             DEF TypeOK, RefuseIdle, ClearReserved, NoActive, PCs, SharedPCs,
                 Procs
<1>2. Ownership'
  BY MoveStep, Types
     DEF RefuseIdle, ClearReserved, NoActive, OwnerPCs, PCs, SharedPCs, Procs,
         Blank
<1> QED BY <1>1, <1>2 DEF TurnInv, Ownership

\* A finished turn gives the slot back if it is still its own.
LEMMA ReleaseSlotInv ==
    ASSUME TurnInv, NEW t \in Turns, ReleaseSlot(t)
    PROVE  TurnInv'
<1>1. TypeOK'
  <2>1. loc' \in [Procs -> Locals]
    BY Types, BlankLocals DEF ReleaseSlot
  <2> QED BY <2>1, Types
             DEF TypeOK, ReleaseSlot, Step, ClearReserved, NoActive, PCs,
                 SharedPCs, Procs
<1>2. Ownership'
  BY MoveStep, Types
     DEF ReleaseSlot, Step, ClearReserved, NoActive, OwnerPCs, PCs, SharedPCs,
         Procs, Blank
<1> QED BY <1>1, <1>2 DEF TurnInv, Ownership

\* A handler returns to a place where nothing is held.
LEMMA HomePlace ==
    ASSUME NEW p \in Procs
    PROVE  Home(p) \in PCs \ OwnerPCs
BY DEF Home, PCs, SharedPCs, OwnerPCs

\* A wake-up that finds nothing to do gives up its locals.
LEMMA ReturnStep ==
    ASSUME TurnInv, NEW p \in Procs, pc[p] \in {"wake", "reserve"}, Return(p),
           active' = active
    PROVE  Ownership'
<1>1. /\ pc' = [pc EXCEPT ![p] = Home(p)]
      /\ loc' = [loc EXCEPT ![p] = Blank]
      /\ Home(p) \in PCs \ OwnerPCs
  BY HomePlace DEF Return
<1>2. /\ \A q \in Procs : /\ loc'[q].new \in {loc[q].new, None}
                          /\ loc'[q].victim \in {loc[q].victim, None}
      /\ \A q \in Procs \ {p} : loc'[q] = loc[q]
  BY <1>1, Types DEF Blank
<1>3. \A next \in PCs \ OwnerPCs :
          pc' = [pc EXCEPT ![p] = next] => Ownership'
  BY <1>2, MoveStep
<1> QED BY <1>1, <1>3

\* The wake-up for pending work.
LEMMA CheckWorkInv ==
    ASSUME TurnInv, NEW p \in Procs, CheckWork(p)
    PROVE  TurnInv'
<1>1. TypeOK'
  <2>1. CASE WorkWaiting
    BY <2>1, Types DEF TypeOK, CheckWork, PCs, SharedPCs
  <2>2. CASE ~WorkWaiting
    BY <2>2, Types, HomePlace, BlankLocals DEF TypeOK, CheckWork, Return
  <2> QED BY <2>1, <2>2
<1>2. Ownership'
  <2>1. CASE WorkWaiting
    BY <2>1, MoveStep, Types DEF CheckWork, OwnerPCs, PCs, SharedPCs
  <2>2. CASE ~WorkWaiting
    BY <2>2, ReturnStep DEF CheckWork
  <2> QED BY <2>1, <2>2
<1> QED BY <1>1, <1>2 DEF TurnInv, Ownership

\* The wake-up reserves an empty slot and respects a filled one.
LEMMA ReserveForWorkInv ==
    ASSUME TurnInv, NEW p \in Procs, ReserveForWork(p)
    PROVE  TurnInv'
<1>1. TypeOK'
  <2>1. CASE active.ts # None
    BY <2>1, Types, HomePlace, BlankLocals DEF TypeOK, ReserveForWork, Return
  <2>2. CASE active.ts = None
    <3>0. Reserve /\ FreshState \in TStates
      BY <2>2, FreshStateIn DEF ReserveForWork, Reserve
    <3>1. loc' = [loc EXCEPT ![p].ts = FreshState]
      BY <2>2 DEF ReserveForWork
    <3>2. loc' \in [Procs -> Locals]
      BY <3>0, <3>1, Types, WithState
    <3>3. pc' \in [Procs -> PCs]
      BY <2>2, Types DEF ReserveForWork, PCs, SharedPCs
    <3> QED BY <3>0, <3>2, <3>3, Types, ConstantsAssumption
               DEF TypeOK, ReserveForWork, Reserve
  <2> QED BY <2>1, <2>2
<1>2. Ownership'
  <2>1. CASE active.ts # None
    BY <2>1, ReturnStep DEF ReserveForWork
  <2>2. CASE active.ts = None
    <3>1. /\ loc' = [loc EXCEPT ![p].ts = FreshState] /\ active'.task = None
          /\ pc' = [pc EXCEPT ![p] = "collect"] /\ pc[p] = "reserve"
      BY <2>2 DEF ReserveForWork, Reserve
    <3>2. /\ \A q \in Procs : /\ loc'[q].new = loc[q].new
                              /\ loc'[q].victim = loc[q].victim
          /\ \A q \in Procs \ {p} : loc'[q] = loc[q]
      BY <3>1, Types DEF Locals
    <3> QED BY <3>1, <3>2, MoveStep DEF OwnerPCs, PCs, SharedPCs
  <2> QED BY <2>1, <2>2
<1> QED BY <1>1, <1>2 DEF TurnInv, Ownership

\* start_task finds or makes the turn state of the slot.
LEMMA AttachStateInv ==
    ASSUME TurnInv, NEW p \in Procs, AttachState(p)
    PROVE  TurnInv'
<1>1. TypeOK'
  <2>0. SlotState \in TStates
    BY Types, FreshStateIn DEF AttachState, CanFillSlot, SlotState
  <2>1. loc' = [loc EXCEPT ![p].ts = SlotState, ![p].items = {}]
    BY DEF AttachState
  <2>2. loc' \in [Procs -> Locals]
    BY <2>0, <2>1, Types, WithStateAndItems
  <2>3. /\ pending' \in [TStates -> SUBSET Items]
        /\ phase' \in [TStates -> {"CurrentTurn", "NextTurn"}]
    BY <2>0, Types DEF AttachState, SlotPending, SlotPhase, Locals
  <2> QED BY <2>0, <2>2, <2>3, Types, ConstantsAssumption
             DEF TypeOK, AttachState, PCs, SharedPCs
<1>2. Ownership'
  <2>1. loc' = [loc EXCEPT ![p].ts = SlotState, ![p].items = {}]
    BY DEF AttachState
  <2>2. /\ \A q \in Procs : /\ loc'[q].new = loc[q].new
                            /\ loc'[q].victim = loc[q].victim
        /\ \A q \in Procs \ {p} : loc'[q] = loc[q]
    BY <2>1, Types DEF Locals
  <2> QED BY <2>2, MoveStep, Types DEF AttachState, OwnerPCs, PCs, SharedPCs
<1> QED BY <1>1, <1>2 DEF TurnInv, Ownership

\* The aborter lets go of the task it stopped.
LEMMA ClearPendingInv ==
    ASSUME TurnInv, NEW p \in Procs, ClearPending(p)
    PROVE  TurnInv'
<1>1. TypeOK'
  <2>0. loc' = [loc EXCEPT ![p].victim = None, ![p].ts = None]
    BY DEF ClearPending
  <2>1. loc' \in [Procs -> Locals]
    BY <2>0, Types, WithoutVictim
  <2>2. pending' \in [TStates -> SUBSET Items] /\ dropped' \subseteq Items
    BY Types DEF ClearPending, TurnInv, LocalsInUse
  <2> QED BY <2>1, <2>2, Types DEF TypeOK, ClearPending, PCs, SharedPCs
<1>2. Ownership'
  <2>1. loc' = [loc EXCEPT ![p].victim = None, ![p].ts = None]
    BY DEF ClearPending
  <2>2. /\ \A q \in Procs : /\ loc'[q].new = loc[q].new
                            /\ loc'[q].victim \in {loc[q].victim, None}
        /\ \A q \in Procs \ {p} : loc'[q] = loc[q]
    BY <2>1, Types DEF Locals
  <2>3. PICK next \in {"drain", "wake"} : pc' = [pc EXCEPT ![p] = next]
    BY DEF ClearPending
  <2>4. /\ next \in PCs \ OwnerPCs /\ pc[p] \notin {"unborn", "created"}
        /\ active'.task = active.task
    BY <2>3 DEF ClearPending, OwnerPCs, PCs, SharedPCs
  <2> QED BY <2>2, <2>3, <2>4, MoveStep
<1> QED BY <1>1, <1>2 DEF TurnInv, Ownership

\* A finishing turn takes the task out of the slot and detaches it.
LEMMA FinishTakeInv ==
    ASSUME TurnInv, NEW t \in Turns, FinishTake(t)
    PROVE  TurnInv'
<1>1. TypeOK'
  <2>1. CASE HasTask
    <3>1. loc' = [loc EXCEPT ![t].ts = active.ts]
      BY <2>1 DEF FinishTake
    <3>2. loc' \in [Procs -> Locals]
      BY <3>1, Types, WithState
    <3> QED BY <2>1, <3>2, Types
               DEF TypeOK, FinishTake, Step, PCs, FinishPCs, Procs
  <2>2. CASE ~HasTask
    BY <2>2, Types DEF TypeOK, FinishTake, Step, PCs, Procs
  <2> QED BY <2>1, <2>2
<1>2. Ownership'
  <2>1. CASE HasTask
    <3>0. /\ loc' = [loc EXCEPT ![t].ts = active.ts]
          /\ pc' = [pc EXCEPT ![t] = "settle"] /\ pc[t] = "finish"
          /\ active'.task = None
          /\ active.ts \in TStates /\ t \in Procs
      BY <2>1, Types DEF FinishTake, Step, HasTask, Procs
    <3>1. \A q \in Procs : /\ loc'[q].new = loc[q].new
                           /\ loc'[q].victim = loc[q].victim
                           /\ q # t => loc'[q].ts = loc[q].ts
                           /\ q = t => loc'[q].ts = active.ts
      BY <3>0, Types DEF Locals
    <3>2. LocalsInUse'
      BY <3>0, <3>1, Types DEF TurnInv, LocalsInUse
    <3>3. StartingTurns'
      BY <3>0, <3>1, Types DEF TurnInv, StartingTurns
    <3>4. SpawnedTasks'
      BY <3>0, <3>1, Types DEF TurnInv, SpawnedTasks
    <3>5. HandleUnique'
      BY <3>0, <3>1 DEF TurnInv, HandleUnique
    <3> QED BY <3>2, <3>3, <3>4, <3>5 DEF Ownership
  <2>2. CASE ~HasTask
    BY <2>2, MoveStep, Types DEF FinishTake, Step, OwnerPCs, PCs, Procs
  <2> QED BY <2>1, <2>2
<1> QED BY <1>1, <1>2 DEF TurnInv, Ownership

\* The aborter still owns the task whose abort it reports.
LEMMA EmitAbortedInv ==
    ASSUME TurnInv, NEW p \in Procs, EmitAborted(p)
    PROVE  TurnInv'
<1>1. TypeOK'
  BY Types
     DEF TypeOK, EmitAborted, Events, PCs, SharedPCs, TurnInv, LocalsInUse
<1>2. Ownership'
  BY Types
     DEF EmitAborted, TurnInv, Ownership, LocalsInUse, StartingTurns,
         SpawnedTasks, HandleUnique
<1> QED BY <1>1, <1>2 DEF TurnInv, Ownership

\* Taking the active turn keeps the state typed.
LEMMA TakeAndCancelTypes ==
    ASSUME TurnInv, NEW p \in Procs, NEW reason \in Reasons,
           NEW new \in Turns \cup {None}, TakeAndCancel(p, reason, new)
    PROVE  /\ active' = NoActive
           /\ pc' \in [Procs -> PCs]
           /\ loc' \in [Procs -> Locals]
           /\ turn' \in [Turns -> Contexts]
<1>1. CASE HasTask
  <2>1. turn' = [turn EXCEPT ![active.task].cancelled = TRUE]
    BY <1>1 DEF TakeAndCancel
  <2>2. turn' \in [Turns -> Contexts]
    BY <2>1, Types, ContextsUpdate
  <2>3. loc' = [loc EXCEPT ![p] = [Blank EXCEPT !.victim = active.task,
                                               !.ts = active.ts,
                                               !.new = new,
                                               !.reason = reason]]
    BY <1>1 DEF TakeAndCancel
  <2>4. loc' \in [Procs -> Locals]
    BY <2>3, Types DEF Locals, Blank
  <2>5. pc' \in [Procs -> PCs]
    BY <1>1, Types DEF TakeAndCancel, PCs, SharedPCs
  <2> QED BY <2>2, <2>4, <2>5 DEF TakeAndCancel
<1>2. CASE ~HasTask
  <2>1. pc' \in [Procs -> PCs]
    BY <1>2, Types, HomePlace DEF TakeAndCancel, PCs, SharedPCs
  <2> QED BY <1>2, <2>1, Types DEF TakeAndCancel
<1> QED BY <1>1, <1>2

\* Taking the active turn makes the taker its only owner.
LEMMA TakeAndCancelOwners ==
    ASSUME TurnInv, NEW p \in Procs, pc[p] \notin {"unborn", "created"},
           NEW reason, NEW new \in {loc[p].new, None},
           TakeAndCancel(p, reason, new)
    PROVE  Ownership'
<1>0. active'.task = None
  BY DEF TakeAndCancel, NoActive
<1>1. CASE HasTask
  <2>1. PICK next \in {"cancel", "clear"} : pc' = [pc EXCEPT ![p] = next]
    BY <1>1 DEF TakeAndCancel
  <2>2. loc' = [loc EXCEPT ![p] = [Blank EXCEPT !.victim = active.task,
                                               !.ts = active.ts,
                                               !.new = new,
                                               !.reason = reason]]
    BY <1>1 DEF TakeAndCancel
  <2>3. /\ loc'[p].victim = active.task /\ loc'[p].ts = active.ts
        /\ loc'[p].new = new
        /\ \A q \in Procs \ {p} : loc'[q] = loc[q]
    BY <2>2, Types DEF Blank
  <2> QED BY <1>0, <1>1, <2>1, <2>3, TakeStep DEF HasTask
<1>2. CASE ~HasTask
  <2>1. PICK next \in PCs \ OwnerPCs : pc' = [pc EXCEPT ![p] = next]
    BY <1>2, HomePlace DEF TakeAndCancel, PCs, SharedPCs, OwnerPCs
  <2>2. loc' = loc
    BY <1>2 DEF TakeAndCancel
  <2> QED BY <1>0, <2>1, <2>2, MoveStep
<1> QED BY <1>1, <1>2

\* The three operations that take the active turn.
LEMMA TakeActiveInv ==
    ASSUME TurnInv, NEW p \in Procs, TakeActive(p)
    PROVE  TurnInv'
<1>1. TypeOK'
  <2>1. loc[p].reason \in Reasons /\ loc[p].new \in Turns \cup {None}
    BY Types DEF Locals
  <2>2. TakeAndCancel(p, loc[p].reason, loc[p].new)
    BY DEF TakeActive
  <2> QED BY <2>1, <2>2, Types, TakeAndCancelTypes
             DEF TypeOK, TakeActive, NoActive
<1>2. Ownership'
  BY TakeAndCancelOwners DEF TakeActive
<1> QED BY <1>1, <1>2 DEF TurnInv, Ownership

\* The guardian becomes the owner of the task it aborts.
LEMMA GuardianAbortInv ==
    ASSUME TurnInv, NEW p \in Procs, GuardianAbort(p)
    PROVE  TurnInv'
<1>1. TypeOK'
  <2>1. "Interrupted" \in Reasons
    BY DEF Reasons
  <2> QED BY <2>1, Types, TakeAndCancelTypes
             DEF TypeOK, GuardianAbort, NoActive
<1>2. Ownership'
  BY TakeAndCancelOwners DEF GuardianAbort
<1> QED BY <1>1, <1>2 DEF TurnInv, Ownership

\* Suspension takes the task like an abort does.
LEMMA SuspendInv ==
    ASSUME TurnInv, Suspend
    PROVE  TurnInv'
<1>1. TypeOK'
  <2>1. turn' \in [Turns -> Contexts]
    BY Types, ContextsUpdate DEF Suspend
  <2>2. loc' \in [Procs -> Locals]
    BY Types DEF Suspend, Locals, Blank, Reasons
  <2> QED BY <2>1, <2>2, Types DEF TypeOK, Suspend, NoActive, PCs, SharedPCs
<1>2. Ownership'
  <2>1. Loop \in Procs
    BY DEF Procs
  <2>2. /\ loc'[Loop].victim = active.task /\ loc'[Loop].ts = active.ts
        /\ loc'[Loop].new = None
        /\ \A q \in Procs \ {Loop} : loc'[q] = loc[q]
    BY <2>1, Types DEF Suspend, Blank
  <2> QED BY <2>1, <2>2, TakeStep DEF Suspend, HasTask, NoActive
<1> QED BY <1>1, <1>2 DEF TurnInv, Ownership

\* Stopping the task that was taken.
LEMMA StopVictimInv ==
    ASSUME TurnInv, NEW p \in Procs, StopVictim(p)
    PROVE  TurnInv'
<1>1. TypeOK'
  <2> DEFINE v == loc[p].victim
  <2>0. v \in Turns /\ v \in Procs
    BY DEF StopVictim, TurnInv, LocalsInUse, Procs
  <2>1. /\ turn' = [turn EXCEPT ![v].input = {}]
        /\ loc' = [loc EXCEPT ![v] = Blank]
        /\ pc' = [pc EXCEPT ![p] = "emit", ![v] = "done"]
        /\ dropped' = dropped \cup loc[v].items \cup turn[v].input
    BY DEF StopVictim
  <2> HIDE DEF v
  <2>2. turn' \in [Turns -> Contexts] /\ loc' \in [Procs -> Locals]
    BY <2>1, Types, ContextsUpdate, BlankLocals
  <2>3. dropped' \subseteq Items
    BY <2>0, <2>1, Types DEF Contexts, Locals
  <2> QED BY <2>1, <2>2, <2>3, Types DEF TypeOK, StopVictim, PCs, SharedPCs
<1>2. Ownership'
  <2>1. loc[p].victim \in Turns
    BY DEF StopVictim, TurnInv, LocalsInUse
  <2> QED BY <2>1, StopStep, Types DEF StopVictim, Blank
<1> QED BY <1>1, <1>2 DEF TurnInv, Ownership

\* Suspension lets go of the task once it is dead.
LEMMA SuspendDoneInv ==
    ASSUME TurnInv, SuspendDone
    PROVE  TurnInv'
<1>1. TypeOK'
  <2> DEFINE v == loc[Loop].victim
             s == loc[Loop].ts
  <2>0. v \in Turns /\ v \in Procs /\ s \in TStates
    BY DEF SuspendDone, TurnInv, LocalsInUse, Procs
  <2>1. PICK reason \in {"Shutdown", "Interrupted"} :
        /\ turn' = [turn EXCEPT ![v].input = {}]
        /\ loc' = [loc EXCEPT ![Loop] = [Blank EXCEPT !.reason = reason],
                              ![v] = Blank]
        /\ pc' = [pc EXCEPT ![Loop] = "take", ![v] = "done"]
        /\ events' = [events EXCEPT ![v] = Append(@, "Suspended")]
        /\ pending' = [pending EXCEPT ![s] = {}]
        /\ dropped' = dropped \cup pending[s] \cup loc[v].items
                        \cup turn[v].input
    BY DEF SuspendDone
  <2> HIDE DEF v, s
  <2>2. turn' \in [Turns -> Contexts]
    BY <2>1, Types, ContextsUpdate
  <2>3. loc' \in [Procs -> Locals]
    BY <2>1, Types DEF Locals, Blank, Reasons
  <2>4. dropped' \subseteq Items /\ pending' \in [TStates -> SUBSET Items]
    BY <2>0, <2>1, Types DEF Contexts, Locals
  <2>5. events' \in [Turns -> Seq(Events)]
    BY <2>0, <2>1, Types DEF Events
  <2> QED BY <2>1, <2>2, <2>3, <2>4, <2>5, Types
             DEF TypeOK, SuspendDone, PCs, SharedPCs
<1>2. Ownership'
  <2> DEFINE v == loc[Loop].victim
  <2>1. v \in Turns /\ Loop \in Procs
    BY DEF SuspendDone, TurnInv, LocalsInUse, Procs
  <2>2. PICK reason \in {"Shutdown", "Interrupted"} :
        /\ loc' = [loc EXCEPT ![Loop] = [Blank EXCEPT !.reason = reason],
                              ![v] = Blank]
        /\ pc' = [pc EXCEPT ![Loop] = "take", ![v] = "done"]
    BY DEF SuspendDone
  <2>3. /\ \A q \in Procs : /\ loc'[q].new \in {loc[q].new, None}
                            /\ loc'[q].victim \in {loc[q].victim, None}
        /\ \A q \in Procs \ {Loop, v} : loc'[q] = loc[q]
    BY <2>1, <2>2, Types DEF Blank
  <2> QED BY <2>1, <2>2, <2>3, StopStep DEF SuspendDone
<1> QED BY <1>1, <1>2 DEF TurnInv, Ownership

\* tokio::spawn: the new task moves from its starter to the slot.
LEMMA InstallTaskInv ==
    ASSUME TurnInv, NEW p \in Procs, InstallTask(p)
    PROVE  TurnInv'
<1>1. TypeOK'
  <2>0. SlotState \in TStates
    BY Types, FreshStateIn DEF InstallTask, CanFillSlot, SlotState
  <2>1. loc' \in [Procs -> Locals] /\ loc[p].new \in Turns \cup {None}
    BY Types, BlankLocals DEF InstallTask, Locals
  <2>2. turn' \in [Turns -> Contexts]
    <3>1. turn' = [q \in Turns |-> IF q = active.task
                                   THEN [turn[q] EXCEPT !.input = {}]
                                   ELSE turn[q]]
      BY DEF InstallTask
    <3>2. \A q \in Turns : /\ turn[q] \in Contexts
                           /\ [turn[q] EXCEPT !.input = {}] \in Contexts
      BY Types DEF Contexts
    <3> QED BY <3>1, <3>2
  <2>3. pc' \in [Procs -> PCs]
    BY Types, HomePlace DEF InstallTask, PCs, SharedPCs, BodyPCs
  <2>4. /\ pending' \in [TStates -> SUBSET Items]
        /\ phase' \in [TStates -> {"CurrentTurn", "NextTurn"}]
    BY <2>0, Types DEF InstallTask, SlotPending, SlotPhase
  <2> QED BY <2>0, <2>1, <2>2, <2>3, <2>4, Types, ConstantsAssumption
             DEF TypeOK, InstallTask
<1>2. Ownership'
  <2> DEFINE t == loc[p].new
             old == active.task
  <2>1. /\ active'.task = t
        /\ loc' = [q \in Procs |-> IF q \in {p, old} THEN Blank ELSE loc[q]]
        /\ pc' = [q \in Procs |-> CASE q = t -> "begin"
                                    [] q = p -> Home(p)
                                    [] q = old -> "done"
                                    [] OTHER -> pc[q]]
    BY DEF InstallTask
  <2>2. /\ loc \in [Procs -> Locals] /\ pc[p] = "install"
        /\ t \in Turns \cup {None} /\ None \notin Turns
        /\ t # None => t \in Procs /\ pc[t] = "created"
        /\ old # None => old \in Procs /\ pc[old] \notin {"unborn", "created"}
        /\ Home(p) \notin OwnerPCs
    BY Types, HomePlace, ConstantsAssumption
       DEF InstallTask, TurnInv, StartingTurns, SpawnedTasks, Locals, Procs
  <2> HIDE DEF t, old
  <2>3. LocalsInUse'
    BY <2>1, <2>2 DEF TurnInv, LocalsInUse, Blank, OwnerPCs
  <2>4. StartingTurns'
    BY <2>1, <2>2 DEF TurnInv, StartingTurns, Blank, Locals, Procs, t
  <2>5. SpawnedTasks'
    BY <2>1, <2>2
       DEF TurnInv, SpawnedTasks, Blank, OwnerPCs, Locals, Procs, t
  <2>6. HandleUnique'
    BY <2>1, <2>2 DEF TurnInv, HandleUnique, SpawnedTasks, Blank
  <2> QED BY <2>3, <2>4, <2>5, <2>6 DEF Ownership
<1> QED BY <1>1, <1>2 DEF TurnInv, Ownership

(***************************************************************************)
(* The theorems.                                                           *)
(***************************************************************************)

\* A session starts with an empty slot, nothing owned and no turn.
LEMMA InitInv == Init => TurnInv
<1> SUFFICES ASSUME Init PROVE TurnInv
  OBVIOUS
<1>1. loc \in [Procs -> Locals]
  BY BlankLocals DEF Init
<1>2. turn \in [Turns -> Contexts]
  BY DEF Init, Contexts, TaskKinds
<1>3. pc \in [Procs -> PCs]
  BY DEF Init, PCs, SharedPCs
<1>4. events \in [Turns -> Seq(Events)]
  BY DEF Init
<1>5. TypeOK
  BY <1>1, <1>2, <1>3, <1>4 DEF Init, TypeOK, NoActive
<1>6. Ownership
  BY DEF Init, NoActive, Blank, Ownership, LocalsInUse, StartingTurns,
         SpawnedTasks, HandleUnique
<1> QED BY <1>5, <1>6 DEF TurnInv, Ownership

\* Every step of every process preserves the invariant.
LEMMA NextInv == TurnInv /\ [Next]_vars => TurnInv'
<1> SUFFICES ASSUME TurnInv, [Next]_vars PROVE TurnInv'
  OBVIOUS
<1>1. CASE LoopOp
  BY <1>1, StartOtherInv, AbortAllInv, CommunicateInv, ReserveIdleInv,
     SuspendInv DEF LoopOp
<1>2. CASE IdleStep
  BY <1>2, RecheckIdleInv, RefuseIdleInv, AcceptIdleInv, SuspendDoneInv
     DEF IdleStep
<1>3. CASE Inject
  BY <1>3, InjectNoNewTurnInv, InjectHookContextInv DEF Inject
<1>4. CASE \E p \in {Loop} \cup Routers : Submit(p)
  BY <1>4, SteerInv, StartTurnInv DEF Submit, Procs
<1>5. CASE \E p \in Guards : GuardianAbort(p)
  BY <1>5, GuardianAbortInv DEF Procs
<1>6. CASE \E p \in Procs : AbortStep(p)
  BY <1>6, TakeActiveInv, StopVictimInv, EmitAbortedInv, ClearPendingInv
     DEF AbortStep
<1>7. CASE \E p \in Procs : StartStep(p)
  BY <1>7, CheckWorkInv, ReserveForWorkInv, CollectWorkInv, FillReservedInv,
     DrainMailboxInv, AttachStateInv, InstallTaskInv DEF StartStep
<1>8. CASE \E t \in Turns : TurnStep(t)
  BY <1>8, BeginTurnInv, CancelPrewarmInv, EnterTurnInv, FailEntryInv,
     DrainPendingInv, RecordPendingInv, FollowUpInv, RecoverWindowInv, FinalAnswerInv,
     FailSamplingInv, AfterAnswerInv, AfterRunTurnInv, EndTurnInv DEF TurnStep
<1>9. CASE \E t \in Turns : FinishStep(t)
  BY <1>9, FinishTakeInv, SettlePendingInv, EmitTerminalInv, ReleaseSlotInv
     DEF FinishStep
<1>10. CASE UNCHANGED vars
  BY <1>10 DEF vars, TurnInv, TypeOK, LocalsInUse, StartingTurns,
               SpawnedTasks, HandleUnique
<1> QED BY <1>1, <1>2, <1>3, <1>4, <1>5, <1>6, <1>7, <1>8, <1>9, <1>10
        DEF Next

\* The inductive invariant holds in every reachable state.
THEOREM TurnInvariance == Spec => []TurnInv
BY InitInv, NextInv, PTL DEF Spec

\* The session state keeps its type; in particular a task is only ever
\* installed inside an active turn.
THEOREM TypeCorrect == Spec => []TypeOK
<1>1. TurnInv => TypeOK
  BY DEF TurnInv
<1> QED BY <1>1, TurnInvariance, PTL

\* A RunningTask has one owner: whoever replaces, interrupts, suspends or
\* finishes turns concurrently, no two of them ever hold the same task, and
\* none holds the task that is in the slot.
THEOREM HandleOwnership == Spec => []HandleUnique
<1>1. TurnInv => HandleUnique
  BY DEF TurnInv
<1> QED BY <1>1, TurnInvariance, PTL

\* A turn being started belongs to one process and no task runs it yet.
THEOREM StartingOwnership == Spec => []StartingTurns
<1>1. TurnInv => StartingTurns
  BY DEF TurnInv
<1> QED BY <1>1, TurnInvariance, PTL

(***************************************************************************)
(* An item is in one place at a time.                                      *)
(***************************************************************************)

\* A turn state that the slot or a process refers to.
InUse(s) == s \in TStates /\ (s = active.ts \/ \E p \in Procs : loc[p].ts = s)

\* Where an item is: in the mailbox, in the history, carried by a process, the
\* own input of a turn, or the pending input of a turn state in use.
At(x, a, k) ==
    \/ a = "mailbox" /\ k = None /\ x \in mailbox
    \/ a = "history" /\ k = None /\ x \in history
    \/ a = "carried" /\ k \in Procs /\ x \in loc[k].items
    \/ a = "own" /\ k \in Turns /\ x \in turn[k].input
    \/ a = "pending" /\ InUse(k) /\ x \in pending[k]

\* An item is in one place; only accepted items are anywhere.
Apart    == \A x, a, b, k, l : At(x, a, k) /\ At(x, b, l) => a = b /\ k = l
Accepted == \A x, a, k : At(x, a, k) => x \in sent

Placed == Apart /\ Accepted

(***************************************************************************)
(* How items move.                                                         *)
(***************************************************************************)

\* No turn state comes into use.
NoNewUse == /\ active'.ts \in {active.ts, None}
            /\ \A q \in Procs : loc'[q].ts \in {loc[q].ts, None, active.ts}

\* Every place keeps at most what it has; a turn state that comes into use is
\* empty.
Quieter ==
    /\ mailbox' \subseteq mailbox /\ history' \subseteq history /\ sent \subseteq sent'
    /\ \A q \in Procs : loc'[q].items \subseteq loc[q].items
    /\ \A t \in Turns : turn'[t].input \subseteq turn[t].input
    /\ \A s \in TStates : InUse(s)' => \/ InUse(s) /\ pending'[s] \subseteq pending[s]
                                       \/ pending'[s] = {}

\* A state that is in use was in use.
LEMMA UseKept ==
    ASSUME NoNewUse, NEW s, InUse(s)'
    PROVE  InUse(s)
BY ConstantsAssumption DEF NoNewUse, InUse

\* Items that go nowhere stay apart.
LEMMA Quieting ==
    ASSUME Placed, Quieter
    PROVE  Placed'
<1>1. ASSUME NEW x, NEW a, NEW k, At(x, a, k)'
      PROVE  At(x, a, k)
  BY <1>1 DEF At, Quieter, InUse
<1> QED  BY <1>1 DEF Placed, Apart, Accepted, Quieter

\* Items that reach one place have left the others.
LEMMA Shifting ==
    ASSUME Placed, sent \subseteq sent', NEW b, NEW l,
           \A x, a, k : At(x, a, k)' => At(x, a, k) \/ (a = b /\ k = l),
           \A x, a, k : At(x, b, l)' /\ ~At(x, b, l) /\ At(x, a, k)' =>
               a = b /\ k = l /\ x \in sent'
    PROVE  Placed'
<1>1. ASSUME NEW x, NEW a, NEW k, At(x, a, k)', ~At(x, a, k)
      PROVE  a = b /\ k = l /\ x \in sent'
  BY <1>1
<1>2. Accepted'
  BY <1>1 DEF Placed, Accepted
<1>3. ASSUME NEW x, NEW a, NEW c, NEW k, NEW m, At(x, a, k)', At(x, c, m)'
      PROVE  a = c /\ k = m
  BY <1>1, <1>3 DEF Placed, Apart
<1> QED  BY <1>2, <1>3 DEF Placed, Apart

\* What nobody was given yet is nowhere.
LEMMA UnsentNowhere ==
    ASSUME Placed, NEW x, Unsent(x)
    PROVE  \A a, k : ~At(x, a, k)
BY DEF Placed, Accepted, Unsent

(***************************************************************************)
(* Steps that leave items where they are, or drop them.                    *)
(***************************************************************************)

\* The fields of a process's locals.
LEMMA LocalFields ==
    ASSUME TurnInv
    PROVE  /\ loc \in [Procs -> Locals] /\ turn \in [Turns -> Contexts]
           /\ \A q \in Procs : /\ loc[q].ts \in TStates \cup {None}
                               /\ loc[q].victim \in Turns \cup {None}
           /\ Blank.items = {} /\ Blank.ts = None /\ None \notin TStates /\ None \notin Turns
           /\ Turns \subseteq Procs
BY Types, ConstantsAssumption DEF Locals, Blank, Procs

\* A step that changes neither states nor locals in use.
LEMMA StandStill ==
    ASSUME Placed, NoNewUse, UNCHANGED <<mailbox, history>>, sent' = sent,
           \A q \in Procs : loc'[q].items \in {loc[q].items, {}},
           \A t \in Turns : turn'[t].input \in {turn[t].input, {}},
           \A s \in TStates : pending'[s] \in {pending[s], {}}
    PROVE  Placed'
<1>1. \A s : InUse(s)' => InUse(s)
  BY UseKept
<1>2. Quieter
  BY <1>1 DEF Quieter
<1> QED  BY <1>2, Quieting

\* A turn's task goes on, or a process moves.
LEMMA GoOnPlaced ==
    ASSUME TurnInv, Placed, NEW t \in Turns,
           \/ BeginTurn(t) \/ FollowUp(t) \/ RecoverWindow(t) \/ FinalAnswer(t) \/ FailSampling(t)
           \/ AfterAnswer(t) \/ AfterRunTurn(t) \/ EndTurn(t) \/ EmitTerminal(t)
    PROVE  Placed'
<1>1. /\ UNCHANGED <<active, pending, mailbox, loc, history>> /\ sent' = sent
      /\ \A q \in Turns : turn'[q].input = turn[q].input
  BY LocalFields DEF BeginTurn, FollowUp, RecoverWindow, FinalAnswer, FailSampling, AfterAnswer,
     AfterRunTurn, EndTurn, EmitTerminal, Contexts
<1> QED  BY <1>1, StandStill DEF NoNewUse

\* The task drops its own input, finishes or releases the slot.
LEMMA EndingPlaced ==
    ASSUME TurnInv, Placed, NEW t \in Turns, FailEntry(t) \/ FinishTake(t) \/ ReleaseSlot(t)
    PROVE  Placed'
<1>1. CASE FailEntry(t)
  <2>1. /\ UNCHANGED <<active, pending, mailbox, loc, history>> /\ sent' = sent
        /\ \A q \in Turns : turn'[q].input \in {turn[q].input, {}}
    BY <1>1, LocalFields DEF FailEntry, Contexts
  <2> QED  BY <2>1, StandStill DEF NoNewUse
<1>2. CASE FinishTake(t)
  <2>1. /\ UNCHANGED <<pending, mailbox, history, turn>> /\ sent' = sent
        /\ active'.ts = active.ts
        /\ \A q \in Procs : loc'[q].items = loc[q].items /\ loc'[q].ts \in {loc[q].ts, active.ts}
    <3>1. CASE HasTask
      <4>1. /\ active' = [active EXCEPT !.task = None] /\ loc' = [loc EXCEPT ![t].ts = active.ts]
            /\ UNCHANGED <<pending, mailbox, history, turn>> /\ sent' = sent
        BY <1>2, <3>1 DEF FinishTake
      <4>2. active'.ts = active.ts
        BY <4>1, Types
      <4>3. \A q \in Procs : loc'[q].items = loc[q].items /\ loc'[q].ts \in {loc[q].ts, active.ts}
        BY <4>1, LocalFields DEF Locals
      <4> QED  BY <4>1, <4>2, <4>3
    <3>2. CASE ~HasTask
      BY <1>2, <3>2 DEF FinishTake
    <3> QED  BY <3>1, <3>2
  <2> QED  BY <2>1, StandStill DEF NoNewUse
<1>3. CASE ReleaseSlot(t)
  <2>1. /\ UNCHANGED <<pending, mailbox, history, turn>> /\ sent' = sent
        /\ active'.ts \in {active.ts, None}
        /\ \A q \in Procs : /\ loc'[q].items \in {loc[q].items, {}}
                            /\ loc'[q].ts \in {loc[q].ts, None}
    BY <1>3, LocalFields, Types DEF ReleaseSlot, ClearReserved, NoActive
  <2> QED  BY <2>1, StandStill DEF NoNewUse
<1> QED  BY <1>1, <1>2, <1>3

\* A turn is taken out of the slot, stopped and cleared.
LEMMA AbortPlaced ==
    ASSUME TurnInv, Placed, NEW p \in Procs,
           AbortStep(p) \/ GuardianAbort(p)
    PROVE  Placed'
<1>1. CASE TakeActive(p) \/ GuardianAbort(p)
  <2>1. PICK r, n : TakeAndCancel(p, r, n) /\ UNCHANGED <<pending, mailbox, history, sent>>
    BY <1>1 DEF TakeActive, GuardianAbort
  <2>2. /\ active'.ts = None
        /\ \A q \in Procs : /\ loc'[q].items \in {loc[q].items, {}}
                            /\ loc'[q].ts \in {loc[q].ts, active.ts}
        /\ \A q \in Turns : turn'[q].input = turn[q].input
    <3>1. active'.ts = None
      BY <2>1 DEF TakeAndCancel, NoActive
    <3>2. CASE HasTask
      <4>1. loc' = [loc EXCEPT ![p] = [Blank EXCEPT !.victim = active.task, !.ts = active.ts,
                                                    !.new = n, !.reason = r]]
        BY <2>1, <3>2 DEF TakeAndCancel
      <4>2. PICK b : b = [Blank EXCEPT !.victim = active.task, !.ts = active.ts,
                                       !.new = n, !.reason = r]
        OBVIOUS
      <4>5. b.items = {} /\ b.ts = active.ts
        BY <4>2 DEF Blank
      <4>3. \A q \in Procs : /\ loc'[q].items \in {loc[q].items, {}}
                             /\ loc'[q].ts \in {loc[q].ts, active.ts}
        BY <4>1, <4>2, <4>5, LocalFields
      <4>4. \A q \in Turns : turn'[q].input = turn[q].input
        BY <2>1, <3>2, LocalFields DEF TakeAndCancel, Contexts
      <4> QED  BY <3>1, <4>3, <4>4
    <3>3. CASE ~HasTask
      BY <2>1, <3>1, <3>3 DEF TakeAndCancel
    <3> QED  BY <3>2, <3>3
  <2> QED  BY <2>1, <2>2, StandStill DEF NoNewUse
<1>2. CASE StopVictim(p)
  <2>1. /\ UNCHANGED <<active, pending, mailbox, history>> /\ sent' = sent
        /\ \A q \in Procs : /\ loc'[q].items \in {loc[q].items, {}}
                            /\ loc'[q].ts \in {loc[q].ts, None}
        /\ \A q \in Turns : turn'[q].input \in {turn[q].input, {}}
    BY <1>2, LocalFields DEF StopVictim, Contexts
  <2> QED  BY <2>1, StandStill DEF NoNewUse
<1>3. CASE EmitAborted(p)
  <2>1. UNCHANGED <<active, pending, mailbox, loc, turn, history>> /\ sent' = sent
    BY <1>3 DEF EmitAborted
  <2> QED  BY <2>1, StandStill DEF NoNewUse
<1>4. CASE ClearPending(p)
  <2>1. /\ UNCHANGED <<active, mailbox, turn, history>> /\ sent' = sent
        /\ \A q \in Procs : loc'[q].items = loc[q].items /\ loc'[q].ts \in {loc[q].ts, None}
        /\ \A s \in TStates : pending'[s] \in {pending[s], {}}
    BY <1>4, LocalFields, Types DEF ClearPending, Locals
  <2> QED  BY <2>1, StandStill DEF NoNewUse
<1> QED  BY <1>1, <1>2, <1>3, <1>4 DEF AbortStep

\* A new turn state is nobody's.
LEMMA FreshUnused ==
    ASSUME FreeStates # {}
    PROVE  FreshState \in TStates /\ ~InUse(FreshState)
<1>1. FreshState \in FreeStates
  BY DEF FreshState
<1> QED  BY <1>1 DEF FreeStates, InUse

\* A slot is reserved: its turn state is new and empty.
LEMMA ReservePlaced ==
    ASSUME TurnInv, Placed, Reserve, UNCHANGED <<mailbox, history, turn>>, sent' = sent,
           \A q \in Procs : /\ loc'[q].items \in {loc[q].items, {}}
                            /\ loc'[q].ts \in {loc[q].ts, None, FreshState}
    PROVE  Placed'
<1>1. /\ FreshState \in TStates /\ active'.ts = FreshState
      /\ pending' = [pending EXCEPT ![FreshState] = {}]
  BY FreshUnused DEF Reserve
<1>2. ASSUME NEW s \in TStates, InUse(s)'
      PROVE  InUse(s) \/ s = FreshState
  BY <1>1, <1>2, LocalFields DEF InUse
<1>3. \A s \in TStates : InUse(s)' => \/ InUse(s) /\ pending'[s] \subseteq pending[s]
                                      \/ pending'[s] = {}
  BY <1>1, <1>2, Types
<1>4. Quieter
  BY <1>3 DEF Quieter
<1> QED  BY <1>4, Quieting

\* A handler of the submission loop begins, or start_if_idle goes on.
LEMMA LoopPlaced ==
    ASSUME TurnInv, Placed, NEW reason,
           \/ AbortAll(reason) \/ RecheckIdle \/ RefuseIdle \/ Suspend \/ SuspendDone
           \/ ReserveIdle
    PROVE  Placed'
<1>0. Loop \in Procs
  BY DEF Procs
<1>1. CASE AbortAll(reason)
  <2>1. PICK b : b = [Blank EXCEPT !.reason = reason]
    OBVIOUS
  <2>2. b.items = {} /\ b.ts = None
    BY <2>1 DEF Blank
  <2>3. /\ UNCHANGED <<active, pending, mailbox, history, turn>> /\ sent' = sent
        /\ loc' = [loc EXCEPT ![Loop] = b]
    BY <1>1, <2>1 DEF AbortAll
  <2> QED  BY <2>2, <2>3, LocalFields, StandStill DEF NoNewUse
<1>2. CASE RecheckIdle \/ RefuseIdle
  <2>1. /\ UNCHANGED <<pending, mailbox, history, turn>> /\ sent' = sent
        /\ active'.ts \in {active.ts, None}
        /\ \A q \in Procs : /\ loc'[q].items \in {loc[q].items, {}}
                            /\ loc'[q].ts \in {loc[q].ts, None}
    BY <1>0, <1>2, LocalFields DEF RecheckIdle, RefuseIdle, ClearReserved, NoActive
  <2> QED  BY <2>1, StandStill DEF NoNewUse
<1>3. CASE Suspend
  <2>1. PICK b : b = [Blank EXCEPT !.victim = active.task, !.ts = active.ts, !.reason = "Shutdown"]
    OBVIOUS
  <2>2. b.items = {} /\ b.ts = active.ts
    BY <2>1 DEF Blank
  <2>3. /\ UNCHANGED <<pending, mailbox, history>> /\ sent' = sent /\ active'.ts = None
        /\ loc' = [loc EXCEPT ![Loop] = b]
    BY <1>3, <2>1 DEF Suspend, NoActive
  <2>4. \A q \in Turns : turn'[q].input = turn[q].input
    BY <1>3, LocalFields DEF Suspend, Contexts
  <2> QED  BY <2>2, <2>3, <2>4, LocalFields, StandStill DEF NoNewUse
<1>4. CASE SuspendDone
  <2>0. PICK why \in {"Shutdown", "Interrupted"} :
           loc' = [loc EXCEPT ![Loop] = [Blank EXCEPT !.reason = why],
                              ![loc[Loop].victim] = Blank]
    BY <1>4 DEF SuspendDone
  <2>1. PICK b : b = [Blank EXCEPT !.reason = why]
    OBVIOUS
  <2>2. b.items = {} /\ b.ts = None
    BY <2>1 DEF Blank
  <2>3. /\ UNCHANGED <<active, mailbox, history>> /\ sent' = sent
        /\ loc' = [loc EXCEPT ![Loop] = b, ![loc[Loop].victim] = Blank]
        /\ turn' = [turn EXCEPT ![loc[Loop].victim].input = {}]
        /\ pending' = [pending EXCEPT ![loc[Loop].ts] = {}]
    BY <1>4, <2>0, <2>1 DEF SuspendDone
  <2>4. \A q \in Procs : loc'[q] \in {loc[q], b, Blank}
    BY <2>3, LocalFields
  <2>5. /\ \A q \in Turns : turn'[q].input \in {turn[q].input, {}}
        /\ \A s \in TStates : pending'[s] \in {pending[s], {}}
    BY <2>3, LocalFields, Types DEF Contexts
  <2>6. \A q \in Procs : /\ loc'[q].items \in {loc[q].items, {}}
                         /\ loc'[q].ts \in {loc[q].ts, None}
    BY <2>2, <2>4, LocalFields
  <2> QED  BY <2>3, <2>5, <2>6, StandStill DEF NoNewUse
<1>5. CASE ReserveIdle
  <2>1. PICK b : b = [Blank EXCEPT !.ts = FreshState]
    OBVIOUS
  <2>2. b.items = {} /\ b.ts = FreshState
    BY <2>1 DEF Blank
  <2>3. /\ UNCHANGED <<mailbox, history, turn>> /\ sent' = sent /\ Reserve
        /\ loc' = [loc EXCEPT ![Loop] = b]
    BY <1>5, <2>1 DEF ReserveIdle
  <2> QED  BY <2>2, <2>3, LocalFields, ReservePlaced
<1> QED  BY <1>1, <1>2, <1>3, <1>4, <1>5

\* Another task replaces the turn.
LEMMA StartOtherPlaced ==
    ASSUME TurnInv, Placed, NEW kind, NEW t \in Turns, StartOther(kind, t)
    PROVE  Placed'
<1>1. PICK b : b = [Blank EXCEPT !.new = t, !.reason = "Replaced"]
  OBVIOUS
<1>2. b.items = {} /\ b.ts = None
  BY <1>1 DEF Blank
<1>3. /\ UNCHANGED <<active, pending, mailbox, history>> /\ sent' = sent
      /\ loc' = [loc EXCEPT ![Loop] = b]
  BY <1>1 DEF StartOther
<1>4. \A q \in Turns : turn'[q].input \in {turn[q].input, {}}
  BY LocalFields DEF StartOther, NewTurn
<1> QED  BY <1>2, <1>3, <1>4, LocalFields, StandStill DEF NoNewUse

\* A process looks for work and reserves the slot.
LEMMA WorkPlaced ==
    ASSUME TurnInv, Placed, NEW p \in Procs, CheckWork(p) \/ ReserveForWork(p)
    PROVE  Placed'
<1>1. CASE CheckWork(p) \/ (ReserveForWork(p) /\ active.ts # None)
  <2>1. /\ UNCHANGED <<active, pending, mailbox, history, turn>> /\ sent' = sent
        /\ \A q \in Procs : /\ loc'[q].items \in {loc[q].items, {}}
                            /\ loc'[q].ts \in {loc[q].ts, None}
    BY <1>1, LocalFields DEF CheckWork, ReserveForWork, Return
  <2> QED  BY <2>1, StandStill DEF NoNewUse
<1>2. CASE ReserveForWork(p) /\ active.ts = None
  <2>1. /\ UNCHANGED <<mailbox, history, turn>> /\ sent' = sent /\ Reserve
        /\ loc' = [loc EXCEPT ![p].ts = FreshState]
    BY <1>2 DEF ReserveForWork
  <2>2. \A q \in Procs : loc'[q].items = loc[q].items /\ loc'[q].ts \in {loc[q].ts, FreshState}
    BY <2>1, LocalFields DEF Locals
  <2> QED  BY <2>1, <2>2, ReservePlaced
<1> QED  BY <1>1, <1>2

\* A task is installed.
LEMMA InstallPlaced ==
    ASSUME TurnInv, Placed, NEW p \in Procs, InstallTask(p)
    PROVE  Placed'
<1>1. PICK s : s = SlotState
  OBVIOUS
<1>2. /\ active'.ts = s /\ pending' = [pending EXCEPT ![s] = SlotPending]
      /\ UNCHANGED <<mailbox, history>> /\ sent' = sent
      /\ \A q \in Procs : loc'[q] \in {loc[q], Blank}
  BY <1>1 DEF InstallTask
<1>3. \A q \in Turns : turn'[q].input \in {turn[q].input, {}}
  <2>1. \A q \in Turns : turn'[q] \in {turn[q], [turn[q] EXCEPT !.input = {}]}
    BY DEF InstallTask
  <2> QED  BY <2>1, LocalFields DEF Contexts
<1>4. s \in TStates /\ (InUse(s) \/ SlotPending = {}) /\ (InUse(s) => SlotPending = pending[s])
  <2>1. CASE active.ts = None
    BY <1>1, <2>1, FreshUnused DEF InstallTask, CanFillSlot, SlotState, SlotPending
  <2>2. CASE active.ts # None
    BY <1>1, <2>2, Types DEF SlotState, SlotPending, InUse
  <2> QED  BY <2>1, <2>2
<1>5. ASSUME NEW r \in TStates, InUse(r)'
      PROVE  InUse(r) \/ r = s
  BY <1>2, <1>5, LocalFields DEF InUse
<1>6. \A r \in TStates : InUse(r)' => \/ InUse(r) /\ pending'[r] \subseteq pending[r]
                                      \/ pending'[r] = {}
  BY <1>2, <1>4, <1>5, Types
<1>7. \A q \in Procs : loc'[q].items \in {loc[q].items, {}}
  BY <1>2, LocalFields
<1>8. Quieter
  BY <1>2, <1>3, <1>6, <1>7 DEF Quieter
<1> QED  BY <1>8, Quieting

(***************************************************************************)
(* Items that arrive.                                                      *)
(***************************************************************************)

\* A new item reaches one place.
LEMMA Arriving ==
    ASSUME Placed, NEW x, Unsent(x), sent' = sent \cup {x}, NEW b, NEW l,
           \A y, a, k : At(y, a, k)' => At(y, a, k) \/ (y = x /\ a = b /\ k = l)
    PROVE  Placed'
<1>1. \A a, k : ~At(x, a, k)
  BY UnsentNowhere
<1>2. \A y, a, k : At(y, b, l)' /\ ~At(y, b, l) /\ At(y, a, k)' => a = b /\ k = l /\ y \in sent'
  BY <1>1
<1>3. \A y, a, k : At(y, a, k)' => At(y, a, k) \/ (a = b /\ k = l)
  OBVIOUS
<1>4. sent \subseteq sent'
  OBVIOUS
<1> QED  BY ONLY <1>2, <1>3, <1>4, Placed, Shifting

\* The slot's turn state takes a new item.
LEMMA ExtendPlaced ==
    ASSUME TurnInv, Placed, NEW x, Unsent(x), sent' = sent \cup {x}, ExtendAndAccept(active.ts, x),
           UNCHANGED <<active, mailbox, loc, turn, history>>
    PROVE  Placed'
<1>1. pending' = [pending EXCEPT ![active.ts] = @ \cup {x}]
  BY DEF ExtendAndAccept
<1>2. PICK s : s = active.ts
  OBVIOUS
<1>3. ASSUME NEW k, InUse(k)', NEW y, y \in pending'[k]
      PROVE  InUse(k) /\ (y \in pending[k] \/ (y = x /\ k = s))
  BY <1>1, <1>2, <1>3, Types DEF InUse
<1>4. \A y, a, k : At(y, a, k)' => At(y, a, k) \/ (y = x /\ a = "pending" /\ k = s)
  BY <1>3 DEF At
<1> QED  BY <1>4, Arriving

\* Steering and injection.
LEMMA SteerPlaced ==
    ASSUME TurnInv, Placed, NEW p, NEW x,
           Steer(p, x) \/ InjectNoNewTurn(x) \/ InjectHookContext(x)
    PROVE  Placed'
<1>1. CASE Steer(p, x) \/ InjectHookContext(x) \/ (InjectNoNewTurn(x) /\ active.ts # None)
  BY <1>1, ExtendPlaced DEF Steer, InjectHookContext, InjectNoNewTurn
<1>2. CASE InjectNoNewTurn(x) /\ active.ts = None
  <2>1. /\ Unsent(x) /\ sent' = sent \cup {x} /\ history' = history \cup {x}
        /\ UNCHANGED <<active, mailbox, loc, turn, pending>>
    BY <1>2 DEF InjectNoNewTurn
  <2>2. \A k : InUse(k)' => InUse(k)
    BY <2>1 DEF InUse
  <2>3. PICK n : n = None
    OBVIOUS
  <2>4. \A y, a, k : At(y, a, k)' => At(y, a, k) \/ (y = x /\ a = "history" /\ k = n)
    BY <2>1, <2>2, <2>3 DEF At
  <2> QED  BY <2>1, <2>4, Arriving
<1> QED  BY <1>1, <1>2

\* A turn is created with an item as its own input.
LEMMA OwnPlaced ==
    ASSUME TurnInv, Placed, NEW x, Unsent(x), sent' = sent \cup {x}, NEW t \in Turns,
           NEW kind, NewTurn(t, kind, {x}), NoNewUse,
           UNCHANGED <<mailbox, history, pending>>,
           \A q \in Procs : loc'[q].items \in {loc[q].items, {}}
    PROVE  Placed'
<1>1. \A q \in Turns : q # t => turn'[q] = turn[q]
  BY LocalFields DEF NewTurn
<1>2. turn'[t].input = {x}
  BY LocalFields DEF NewTurn
<1>3. \A k : InUse(k)' => InUse(k)
  BY UseKept
<1>4. \A y, a, k : At(y, a, k)' => At(y, a, k) \/ (y = x /\ a = "own" /\ k = t)
  BY <1>1, <1>2, <1>3 DEF At
<1> QED  BY <1>4, Arriving

\* A turn starts with an input.
LEMMA StartTurnPlaced ==
    ASSUME TurnInv, Placed, NEW p \in Procs, NEW u, NEW t \in Turns, StartTurn(p, u, t)
    PROVE  Placed'
<1>1. PICK b : b = [Blank EXCEPT !.new = t, !.reason = "Replaced"]
  OBVIOUS
<1>2. b.items = {} /\ b.ts = None
  BY <1>1 DEF Blank
<1>3. /\ Unsent(u) /\ sent' = sent \cup {u} /\ NewTurn(t, "Regular", {u})
      /\ UNCHANGED <<active, mailbox, history, pending>> /\ loc' = [loc EXCEPT ![p] = b]
  BY <1>1 DEF StartTurn
<1>4. NoNewUse /\ \A q \in Procs : loc'[q].items \in {loc[q].items, {}}
  BY <1>2, <1>3, LocalFields DEF NoNewUse
<1> QED  BY <1>3, <1>4, OwnPlaced

\* Mail arrives.
LEMMA CommunicatePlaced ==
    ASSUME TurnInv, Placed, NEW m, Communicate(m)
    PROVE  Placed'
<1>1. /\ Unsent(m) /\ sent' = sent \cup {m} /\ mailbox' = mailbox \cup {m}
      /\ UNCHANGED <<active, pending, turn, history>> /\ loc' = [loc EXCEPT ![Loop] = Blank]
  BY DEF Communicate
<1>2. NoNewUse /\ \A q \in Procs : loc'[q].items \in {loc[q].items, {}}
  BY <1>1, LocalFields DEF NoNewUse
<1>3. \A k : InUse(k)' => InUse(k)
  BY <1>2, UseKept
<1>4. PICK n : n = None
  OBVIOUS
<1>5. \A y, a, k : At(y, a, k)' => At(y, a, k) \/ (y = m /\ a = "mailbox" /\ k = n)
  BY <1>1, <1>2, <1>3, <1>4 DEF At
<1> QED  BY <1>1, <1>5, Arriving

\* start_if_idle accepts: the input becomes the turn's own, or is buffered in
\* the reserved turn state.
LEMMA AcceptIdlePlaced ==
    ASSUME TurnInv, Placed, NEW u, NEW kind, NEW t \in Turns, AcceptIdle(u, kind, t)
    PROVE  Placed'
<1>1. /\ UNCHANGED <<active, mailbox, history>> /\ loc' = [loc EXCEPT ![Loop].new = t]
      /\ NewTurn(t, "Regular", IF kind = "User" THEN {u} ELSE {})
      /\ kind # "Recovery" => Unsent(u) /\ sent' = sent \cup {u}
      /\ kind = "Recovery" => sent' = sent
      /\ kind = "Automatic" => pending' = [pending EXCEPT ![loc[Loop].ts] = @ \cup {u}]
      /\ kind # "Automatic" => pending' = pending
  BY DEF AcceptIdle
<1>2. \A q \in Procs : loc'[q].items = loc[q].items /\ loc'[q].ts = loc[q].ts
  BY <1>1, LocalFields DEF Locals
<1>3. NoNewUse
  BY <1>1, <1>2 DEF NoNewUse
<1>4. CASE kind = "User"
  BY <1>1, <1>2, <1>3, <1>4, OwnPlaced
<1>5. ASSUME kind # "User" PROVE \A q \in Turns : turn'[q].input \in {turn[q].input, {}}
  BY <1>1, <1>5, LocalFields DEF NewTurn
<1>6. CASE kind = "Automatic"
  <2>1. PICK s : s = loc[Loop].ts
    OBVIOUS
  <2>2. \A k : InUse(k)' => InUse(k)
    BY <1>3, UseKept
  <2>3. \A y : \A k \in TStates : y \in pending'[k] => y \in pending[k] \/ (y = u /\ k = s)
    BY <1>1, <1>6, <2>1, Types
  <2>4. \A y, a, k : At(y, a, k)' => At(y, a, k) \/ (y = u /\ a = "pending" /\ k = s)
    BY <1>1, <1>2, <1>5, <1>6, <2>2, <2>3 DEF At, InUse
  <2> QED  BY <1>1, <1>6, <2>4, Arriving
<1>7. CASE kind \notin {"User", "Automatic"}
  <2>1. (Unsent(u) /\ sent' = sent \cup {u}) \/ sent' = sent
    BY <1>1
  <2>2. \A k : InUse(k)' => InUse(k)
    BY <1>3, UseKept
  <2>3. Quieter
    BY <1>1, <1>2, <1>5, <1>7, <2>1, <2>2 DEF Quieter
  <2> QED  BY <2>3, Quieting
<1> QED  BY <1>4, <1>6, <1>7

(***************************************************************************)
(* Items that move.                                                        *)
(***************************************************************************)

\* The items X move to one place; all their other places are emptied of them.
LEMMA Moving ==
    ASSUME Placed, sent' = sent, NEW X, NEW b, NEW l,
           \A x, a, k : At(x, a, k)' => At(x, a, k) \/ (x \in X /\ a = b /\ k = l),
           \A x \in X : x \in sent /\ \A a, k : At(x, a, k)' => a = b /\ k = l
    PROVE  Placed'
<1>1. \A x, a, k : At(x, a, k)' => At(x, a, k) \/ (a = b /\ k = l)
  OBVIOUS
<1>2. \A x, a, k : At(x, b, l)' /\ ~At(x, b, l) /\ At(x, a, k)' => a = b /\ k = l /\ x \in sent'
  OBVIOUS
<1>3. sent \subseteq sent'
  OBVIOUS
<1> QED  BY ONLY <1>1, <1>2, <1>3, Placed, Shifting

\* A process takes the pending input of the active turn and the mailbox.
LEMMA TakeInputPlaced ==
    ASSUME TurnInv, Placed, NEW p \in Procs, NEW next, GetPendingInput(p, next),
           UNCHANGED <<active, turn, history>>, sent' = sent
    PROVE  Placed'
<1>1. PICK X : X = PendingInput
  OBVIOUS
<1>2. loc' = [loc EXCEPT ![p].items = X]
  BY <1>1 DEF GetPendingInput
<1>3. /\ \A q \in Procs : loc'[q].ts = loc[q].ts /\ (q # p => loc'[q].items = loc[q].items)
      /\ loc'[p].items = X
  BY <1>2, LocalFields DEF Locals
<1>4. \A k : InUse(k)' => InUse(k)
  BY <1>3 DEF InUse
<1>5. CASE ~AcceptsMail
  <2>1. X = {} /\ pending' = pending /\ mailbox' = mailbox
    BY <1>1, <1>5 DEF GetPendingInput, PendingInput
  <2>2. Quieter
    BY <1>3, <1>4, <2>1 DEF Quieter
  <2> QED  BY <2>2, Quieting
<1>6. CASE AcceptsMail
  <2>1. /\ mailbox' = {}
        /\ pending' = IF active.ts # None THEN [pending EXCEPT ![active.ts] = {}] ELSE pending
        /\ X = (IF active.ts = None THEN {} ELSE pending[active.ts]) \cup mailbox
    BY <1>1, <1>6 DEF GetPendingInput, PendingInput
  <2>2. PICK s, n : s = active.ts /\ n = None
    OBVIOUS
  <2>3. s # n => InUse(s)
    BY <2>2, Types DEF InUse
  <2>4. \A x \in X : At(x, "mailbox", n) \/ (s # n /\ At(x, "pending", s))
    BY <2>1, <2>2, <2>3 DEF At
  <2>5. /\ \A k \in TStates : pending'[k] \subseteq pending[k]
        /\ s # n => pending'[s] = {}
    BY <2>1, <2>2, Types
  <2>6. \A x, a, k : At(x, a, k)' => At(x, a, k) \/ (x \in X /\ a = "carried" /\ k = p)
    BY <1>3, <1>4, <2>1, <2>5 DEF At, InUse
  <2>7. ASSUME NEW x \in X, NEW a, NEW k, At(x, a, k)'
        PROVE  a = "carried" /\ k = p
    <3>1. CASE At(x, a, k)
      <4>1. (a = "mailbox" /\ k = n) \/ (s # n /\ a = "pending" /\ k = s)
        BY <2>4, <3>1 DEF Placed, Apart
      <4> QED  BY <2>1, <2>5, <2>7, <4>1 DEF At
    <3>2. CASE ~At(x, a, k)
      BY <2>6, <2>7, <3>2
    <3> QED  BY <3>1, <3>2
  <2>8. \A x \in X : x \in sent
    BY <2>4 DEF Placed, Accepted
  <2> QED  BY <2>6, <2>7, <2>8, Moving
<1> QED  BY <1>5, <1>6

\* A process drains the mailbox.
LEMMA DrainMailboxPlaced ==
    ASSUME TurnInv, Placed, NEW p \in Procs, DrainMailbox(p)
    PROVE  Placed'
<1>1. PICK X : X = mailbox
  OBVIOUS
<1>2. /\ loc' = [loc EXCEPT ![p].items = X] /\ mailbox' = {}
      /\ UNCHANGED <<active, pending, turn, history>> /\ sent' = sent
  BY <1>1 DEF DrainMailbox
<1>3. /\ \A q \in Procs : loc'[q].ts = loc[q].ts /\ (q # p => loc'[q].items = loc[q].items)
      /\ loc'[p].items = X
  BY <1>2, LocalFields DEF Locals
<1>4. \A k : InUse(k)' => InUse(k)
  BY <1>2, <1>3 DEF InUse
<1>5. \A x \in X : At(x, "mailbox", None)
  BY <1>1 DEF At
<1>6. \A x, a, k : At(x, a, k)' => At(x, a, k) \/ (x \in X /\ a = "carried" /\ k = p)
  BY <1>2, <1>3, <1>4 DEF At
<1>7. ASSUME NEW x \in X, NEW a, NEW k, At(x, a, k)'
      PROVE  a = "carried" /\ k = p
  <2>1. At(x, a, k) => a = "mailbox"
    BY <1>5 DEF Placed, Apart
  <2>2. a # "mailbox"
    BY <1>2, <1>7 DEF At
  <2> QED  BY <1>6, <1>7, <2>1, <2>2
<1>8. \A x \in X : x \in sent
  BY <1>5 DEF Placed, Accepted
<1> QED  BY <1>2, <1>6, <1>7, <1>8, Moving

\* What a process carries goes into a turn state: one in use, or one that
\* comes into use with nothing in it.
LEMMA StorePlaced ==
    ASSUME TurnInv, Placed, NEW p \in Procs, NEW s, NEW Y,
           pending' = [pending EXCEPT ![s] = Y \cup loc[p].items],
           s \in TStates => Y = {} \/ (InUse(s) /\ Y \subseteq pending[s]),
           active'.ts \in {active.ts, s},
           \A q \in Procs : /\ loc'[q].ts \in {loc[q].ts, s}
                            /\ q # p => loc'[q].items = loc[q].items,
           loc'[p].items = {},
           \A q \in Turns : turn'[q].input \in {turn[q].input, {}},
           UNCHANGED <<mailbox, history>>, sent' = sent
    PROVE  Placed'
<1>1. PICK X : X = loc[p].items
  OBVIOUS
<1>2. ASSUME NEW k, InUse(k)', NEW x, x \in pending'[k]
      PROVE  (InUse(k) /\ x \in pending[k]) \/ (x \in X /\ k = s)
  <2>1. k \in TStates /\ (InUse(k) \/ k = s)
    BY <1>2 DEF InUse
  <2> QED  BY <1>1, <1>2, <2>1, Types
<1>3. \A x, a, k : At(x, a, k)' => At(x, a, k) \/ (x \in X /\ a = "pending" /\ k = s)
  BY <1>2 DEF At
<1>4. \A x \in X : At(x, "carried", p)
  BY <1>1 DEF At
<1>5. ASSUME NEW x \in X, NEW a, NEW k, At(x, a, k)'
      PROVE  a = "pending" /\ k = s
  <2>1. At(x, a, k) => a = "carried" /\ k = p
    BY <1>4 DEF Placed, Apart
  <2>2. ~At(x, "carried", p)'
    BY DEF At
  <2> QED  BY <1>3, <1>5, <2>1, <2>2
<1>6. \A x \in X : x \in sent
  BY <1>4 DEF Placed, Accepted
<1> QED  BY ONLY <1>3, <1>5, <1>6, sent' = sent, Placed, Moving

\* The collected work goes into the reserved turn state.
LEMMA FillReservedPlaced ==
    ASSUME TurnInv, Placed, NEW p \in Procs, NEW t \in Turns, FillReserved(p, t)
    PROVE  Placed'
<1>1. PICK s, Y : s = loc[p].ts /\ Y = pending[s]
  OBVIOUS
<1>2. /\ pending' = [pending EXCEPT ![s] = Y \cup loc[p].items]
      /\ loc' = [loc EXCEPT ![p].items = {}, ![p].new = t]
      /\ UNCHANGED <<active, mailbox, history>> /\ sent' = sent
  BY <1>1 DEF FillReserved
<1>3. s \in TStates => InUse(s)
  BY <1>1 DEF InUse
<1>4. \A q \in Turns : turn'[q].input \in {turn[q].input, {}}
  BY LocalFields DEF FillReserved, NewTurn
<1>5. /\ \A q \in Procs : loc'[q].ts = loc[q].ts /\ (q # p => loc'[q].items = loc[q].items)
      /\ loc'[p].items = {}
  BY <1>2, LocalFields DEF Locals
<1> QED  BY <1>1, <1>2, <1>3, <1>4, <1>5, StorePlaced

\* The drained mail goes into the slot's turn state.
LEMMA AttachStatePlaced ==
    ASSUME TurnInv, Placed, NEW p \in Procs, AttachState(p)
    PROVE  Placed'
<1>1. PICK s, Y : s = SlotState /\ Y = SlotPending
  OBVIOUS
<1>2. /\ pending' = [pending EXCEPT ![s] = Y \cup loc[p].items]
      /\ active' = [active EXCEPT !.ts = s]
      /\ loc' = [loc EXCEPT ![p].ts = s, ![p].items = {}]
      /\ UNCHANGED <<mailbox, history, turn>> /\ sent' = sent
  BY <1>1 DEF AttachState
<1>3. Y = {} \/ (InUse(s) /\ Y \subseteq pending[s])
  BY <1>1, Types DEF SlotState, SlotPending, InUse
<1>4. active'.ts = s
  BY <1>2, Types
<1>5. /\ \A q \in Procs : /\ loc'[q].ts \in {loc[q].ts, s}
                          /\ q # p => loc'[q].items = loc[q].items
      /\ loc'[p].items = {}
  BY <1>2, LocalFields DEF Locals
<1> QED  BY <1>2, <1>3, <1>4, <1>5, StorePlaced

\* Items are recorded: they leave their place and are in the history, or a hook
\* refused them.
LEMMA RecordPlaced ==
    ASSUME TurnInv, Placed, NEW t \in Turns, NEW X, NEW next, NEW stop,
           RecordInputs(t, X, next, stop), NEW c, NEW m,
           \A x \in X : At(x, c, m) /\ ~At(x, c, m)', c # "history",
           UNCHANGED <<active, mailbox>>, sent' = sent,
           \A q \in Procs : /\ loc'[q].items \in {loc[q].items, {}}
                            /\ loc'[q].ts = loc[q].ts,
           \A q \in Turns : turn'[q].input \in {turn[q].input, {}},
           \A s \in TStates : pending'[s] \in {pending[s], {}}
    PROVE  Placed'
<1>1. \A k : InUse(k)' => InUse(k)
  BY DEF InUse
<1>2. PICK n : n = None
  OBVIOUS
<1>3. \A x \in history' : x \in history \/ x \in X
  BY DEF RecordInputs
<1>4. \A x, a, k : At(x, a, k)' => At(x, a, k) \/ (x \in X /\ a = "history" /\ k = n)
  BY <1>1, <1>2, <1>3 DEF At, InUse
<1>5. ASSUME NEW x \in X, NEW a, NEW k, At(x, a, k)'
      PROVE  a = "history" /\ k = n
  <2>1. At(x, a, k) => a = c /\ k = m
    BY DEF Placed, Apart
  <2>2. ~At(x, c, m)'
    OBVIOUS
  <2>3. CASE At(x, a, k)
    BY <1>5, <2>1, <2>2, <2>3
  <2>4. CASE ~At(x, a, k)
    BY <1>4, <1>5, <2>4
  <2> QED  BY <2>3, <2>4
<1>6. \A x \in X : x \in sent
  BY DEF Placed, Accepted
<1> QED  BY ONLY <1>4, <1>5, <1>6, sent' = sent, Placed, Moving

\* The own input, the drained input and the input left over are recorded.
LEMMA RecordStepsPlaced ==
    ASSUME TurnInv, Placed, NEW t \in Turns,
           EnterTurn(t) \/ CancelPrewarm(t) \/ RecordPending(t) \/ SettlePending(t)
    PROVE  Placed'
<1>0. t \in Procs
  BY LocalFields
<1>1. CASE EnterTurn(t) \/ CancelPrewarm(t)
  <2>1. PICK X, next, stop : X = turn[t].input /\ RecordInputs(t, X, next, stop)
    BY <1>1 DEF EnterTurn, CancelPrewarm
  <2>2. /\ UNCHANGED <<active, mailbox, loc, pending>> /\ sent' = sent
        /\ turn'[t].input = {} /\ \A q \in Turns : turn'[q].input \in {turn[q].input, {}}
    BY <1>1, LocalFields DEF EnterTurn, CancelPrewarm, Contexts
  <2>3. \A x \in X : At(x, "own", t) /\ ~At(x, "own", t)'
    BY <2>1, <2>2 DEF At
  <2> QED  BY <2>1, <2>2, <2>3, RecordPlaced
<1>2. CASE RecordPending(t)
  <2>1. PICK X, next, stop : X = loc[t].items /\ RecordInputs(t, X, next, stop)
    BY <1>2 DEF RecordPending
  <2>2. /\ UNCHANGED <<active, mailbox, turn, pending>> /\ sent' = sent
        /\ loc' = [loc EXCEPT ![t].items = {}]
    BY <1>2 DEF RecordPending
  <2>3. /\ loc'[t].items = {}
        /\ \A q \in Procs : loc'[q].items \in {loc[q].items, {}} /\ loc'[q].ts = loc[q].ts
    BY <1>0, <2>2, LocalFields DEF Locals
  <2>4. \A x \in X : At(x, "carried", t) /\ ~At(x, "carried", t)'
    BY <1>0, <2>1, <2>3 DEF At
  <2> QED  BY <2>1, <2>2, <2>3, <2>4, RecordPlaced
<1>3. CASE SettlePending(t)
  <2>1. PICK s, X, next, stop : s = loc[t].ts /\ X = pending[s] /\ RecordInputs(t, X, next, stop)
    BY <1>3 DEF SettlePending
  <2>2. s \in TStates /\ InUse(s)
    BY <1>0, <1>3, <2>1 DEF SettlePending, TurnInv, LocalsInUse, InUse
  <2>3. /\ UNCHANGED <<active, mailbox, turn, loc>> /\ sent' = sent
        /\ pending' = [pending EXCEPT ![s] = {}]
    BY <1>3, <2>1 DEF SettlePending
  <2>4. pending'[s] = {} /\ \A r \in TStates : pending'[r] \in {pending[r], {}}
    BY <2>2, <2>3, Types
  <2>5. \A x \in X : At(x, "pending", s) /\ ~At(x, "pending", s)'
    BY <2>1, <2>2, <2>4 DEF At
  <2> QED  BY <2>1, <2>3, <2>4, <2>5, RecordPlaced
<1> QED  BY <1>1, <1>2, <1>3

\* The head of the sampling loop drains or does not.
LEMMA DrainPlaced ==
    ASSUME TurnInv, Placed, NEW p \in Procs, CollectWork(p) \/ (p \in Turns /\ DrainPending(p))
    PROVE  Placed'
<1>1. CASE CollectWork(p)
  BY <1>1, TakeInputPlaced DEF CollectWork
<1>2. CASE DrainPending(p) /\ turn[p].drain
  BY <1>2, TakeInputPlaced DEF DrainPending
<1>3. CASE DrainPending(p) /\ ~turn[p].drain
  <2>1. UNCHANGED <<active, loc, pending, mailbox, turn, history>> /\ sent' = sent
    BY <1>3 DEF DrainPending
  <2> QED  BY <2>1, StandStill DEF NoNewUse
<1> QED  BY <1>1, <1>2, <1>3

(***************************************************************************)
(* The theorem.                                                            *)
(***************************************************************************)

\* At first there are no items.
LEMMA InitPlaced ==
    ASSUME Init
    PROVE  Placed
<1>1. \A x, a, k : ~At(x, a, k)
  BY DEF Init, At, InUse, Blank
<1> QED  BY <1>1 DEF Placed, Apart, Accepted

\* Every step keeps every item in one place.
LEMMA NextPlaced ==
    ASSUME TurnInv, Placed, [Next]_vars
    PROVE  Placed'
<1>1. CASE LoopOp
  <2>2. CASE \E u \in Turns, kind \in OtherKinds : StartOther(kind, u)
    BY <2>2, StartOtherPlaced
  <2>3. CASE \E r \in AbortOps \ {"Suspend"} : AbortAll(r)
    BY <2>3, LoopPlaced
  <2>4. CASE ReserveIdle \/ Suspend
    BY <2>4, LoopPlaced
  <2> QED  BY <1>1, <2>2, <2>3, <2>4, CommunicatePlaced DEF LoopOp
<1>2. CASE IdleStep
  BY <1>2, LoopPlaced, AcceptIdlePlaced DEF IdleStep
<1>3. CASE Inject
  BY <1>3, SteerPlaced DEF Inject
<1>4. CASE \E p \in {Loop} \cup Routers : Submit(p)
  BY <1>4, SteerPlaced, StartTurnPlaced DEF Submit, Procs
<1>5. CASE \E p \in Guards : GuardianAbort(p)
  BY <1>5, AbortPlaced DEF Procs
<1>6. CASE \E p \in Procs : AbortStep(p) \/ StartStep(p)
  BY <1>6, AbortPlaced, WorkPlaced, DrainPlaced, FillReservedPlaced, DrainMailboxPlaced,
     AttachStatePlaced, InstallPlaced DEF StartStep
<1>7. CASE \E t \in Turns : TurnStep(t) \/ FinishStep(t)
  BY <1>7, LocalFields, GoOnPlaced, EndingPlaced, DrainPlaced, RecordStepsPlaced DEF TurnStep, FinishStep
<1>8. CASE UNCHANGED vars
  <2>1. UNCHANGED <<active, loc, pending, mailbox, turn, history>> /\ sent' = sent
    BY <1>8 DEF vars
  <2> QED  BY <2>1, StandStill DEF NoNewUse
<1> QED  BY <1>1, <1>2, <1>3, <1>4, <1>5, <1>6, <1>7, <1>8 DEF Next

\* No item is in two places, so none is delivered twice: what a drain, a take
\* or a start moves is not left behind, for any number of turns, aborts,
\* routers, mails and injections (input_queue.rs, tasks/mod.rs).
THEOREM EachInOnePlace == Spec => []OnePlace
<1>1. TurnInv /\ Placed => OnePlace
  <2> SUFFICES ASSUME Placed, NEW x PROVE
        /\ ~(x \in mailbox /\ x \in history)
        /\ \A p \in Procs : x \in loc[p].items => x \notin mailbox /\ x \notin history
        /\ \A p, q \in Procs : x \in loc[p].items /\ x \in loc[q].items => p = q
        /\ \A s : InUse(s) /\ x \in pending[s] =>
              /\ x \notin mailbox /\ x \notin history
              /\ \A p \in Procs : x \notin loc[p].items
              /\ \A r : InUse(r) /\ x \in pending[r] => r = s
    BY DEF OnePlace, InUse, FreeStates
  <2> QED  BY DEF Placed, Apart, At
<1>2. Init => Placed
  BY InitPlaced
<1>3. TurnInv /\ Placed /\ [Next]_vars => Placed'
  BY NextPlaced
<1> QED  BY <1>1, <1>2, <1>3, TurnInvariance, PTL DEF Spec
=============================================================================
