------------------------- MODULE TurnSessionProofs -------------------------
(***************************************************************************)
(* Proofs about TurnLifecycle for the sessions in which the submission     *)
(* loop is the only process that starts and aborts turns, and for those    *)
(* in which nobody interrupts a turn.                                      *)
(***************************************************************************)
EXTENDS TurnLifecycleProofs

(***************************************************************************)
(* A process on its way to start_task holds the turn it will start.        *)
(***************************************************************************)
Starts(p) ==
    \/ pc[p] \in {"drain", "attach", "install"}
    \/ pc[p] \in {"take", "cancel", "emit", "clear"} /\ loc[p].reason = "Replaced"

NewHeld == \A p \in Procs : Starts(p) => loc[p].new \in Turns

\* A process moves where it starts nothing, or keeps the turn it starts.
LEMMA HeldStep ==
    ASSUME NewHeld, NEW p \in Procs,
           \A q \in Procs \ {p} :
              pc'[q] \in {"done", "created"} \/ (pc'[q] = pc[q] /\ loc'[q] = loc[q]),
           Starts(p)' => loc'[p].new \in Turns
    PROVE  NewHeld'
BY DEF NewHeld, Starts

\* The steps of a turn's own task.
LEMMA TaskHeld ==
    ASSUME TurnInv, NewHeld, NEW t \in Turns, TurnStep(t) \/ FinishStep(t)
    PROVE  NewHeld'
<1>0. pc \in [Procs -> PCs] /\ loc \in [Procs -> Locals] /\ t \in Procs
  BY Types DEF Procs
<1>1. /\ pc'[t] \notin {"drain", "attach", "install", "take", "cancel", "emit", "clear"}
      /\ \A q \in Procs \ {t} : pc'[q] = pc[q]
  BY <1>0 DEF TurnStep, FinishStep, BeginTurn, CancelPrewarm, EnterTurn, FailEntry, DrainPending,
     RecordPending, FollowUp, RecoverWindow, FinalAnswer, FailSampling, AfterAnswer,
     AfterRunTurn, EndTurn, FinishTake, SettlePending, EmitTerminal, ReleaseSlot, RecordInputs,
     GetPendingInput, Step
<1>2. \A q \in Procs \ {t} : loc'[q] = loc[q]
  BY <1>0 DEF TurnStep, FinishStep, BeginTurn, CancelPrewarm, EnterTurn, FailEntry, DrainPending,
     RecordPending, FollowUp, RecoverWindow, FinalAnswer, FailSampling, AfterAnswer,
     AfterRunTurn, EndTurn, FinishTake, SettlePending, EmitTerminal, ReleaseSlot, GetPendingInput
<1> QED  BY <1>0, <1>1, <1>2, HeldStep DEF Starts

\* The operations of the loop and the router.
LEMMA SubmitHeld ==
    ASSUME TurnInv, NewHeld, LoopOp \/ IdleStep \/ (\E p \in {Loop} \cup Routers : Submit(p))
    PROVE  NewHeld'
<1>0. pc \in [Procs -> PCs] /\ loc \in [Procs -> Locals] /\ Loop \in Procs /\ Routers \subseteq Procs
      /\ Turns \subseteq Procs
  BY Types DEF Procs
<1>1. ASSUME NEW p \in {Loop} \cup Routers, NEW u \in UserInputs, NEW t \in Turns, StartTurn(p, u, t)
      PROVE  NewHeld'
  <2>1. /\ \A q \in Procs \ {p} : pc'[q] \in {pc[q], "created"} /\ loc'[q] = loc[q]
        /\ loc'[p].new = t /\ p \in Procs
    BY <1>0, <1>1 DEF StartTurn, Blank
  <2> QED  BY <2>1, HeldStep
<1>2. ASSUME NEW kind \in OtherKinds, NEW t \in Turns, StartOther(kind, t)
      PROVE  NewHeld'
  <2>1. /\ \A q \in Procs \ {Loop} : pc'[q] \in {pc[q], "created"} /\ loc'[q] = loc[q]
        /\ loc'[Loop].new = t
    BY <1>0, <1>2 DEF StartOther, Blank
  <2> QED  BY <1>0, <2>1, HeldStep
<1>3. ASSUME NEW u \in UserInputs, NEW kind \in IdleStarts, NEW t \in Turns,
             AcceptIdle(u, kind, t)
      PROVE  NewHeld'
  <2>1. /\ \A q \in Procs \ {Loop} : pc'[q] \in {pc[q], "created"} /\ loc'[q] = loc[q]
        /\ loc'[Loop].new = t
    BY <1>0, <1>3 DEF AcceptIdle, Locals
  <2> QED  BY <1>0, <2>1, HeldStep
<1>4. ASSUME NEW reason \in AbortOps \ {"Suspend"}, AbortAll(reason)
      PROVE  NewHeld'
  <2>1. /\ \A q \in Procs \ {Loop} : pc'[q] = pc[q] /\ loc'[q] = loc[q]
        /\ pc'[Loop] = "take" /\ loc'[Loop].reason = reason /\ reason # "Replaced"
    BY <1>0, <1>4, ConstantsAssumption DEF AbortAll, Blank
  <2> QED  BY <1>0, <2>1, HeldStep DEF Starts
<1>5. ASSUME (\E m \in Mails : Communicate(m)) \/ ReserveIdle \/ Suspend \/ RecheckIdle \/ RefuseIdle
      PROVE  NewHeld'
  <2>1. /\ \A q \in Procs \ {Loop} : pc'[q] = pc[q] /\ loc'[q] = loc[q]
        /\ pc'[Loop] \in {"idle", "wake", "recheck", "suspend", "prepare"}
    BY <1>0, <1>5 DEF Communicate, ReserveIdle, Suspend, RecheckIdle, RefuseIdle
  <2> QED  BY <1>0, <2>1, HeldStep DEF Starts
<1>6. ASSUME SuspendDone
      PROVE  NewHeld'
  <2>0. loc[Loop].victim \in Turns /\ Loop \notin Turns
    BY <1>0, <1>6, ConstantsAssumption DEF SuspendDone, TurnInv, LocalsInUse
  <2>1. PICK v \in Turns : v = loc[Loop].victim
    BY <2>0
  <2>2. PICK reason \in {"Shutdown", "Interrupted"} :
        /\ pc' = [pc EXCEPT ![Loop] = "take", ![v] = "done"]
        /\ loc' = [loc EXCEPT ![Loop] = [Blank EXCEPT !.reason = reason], ![v] = Blank]
    BY <1>6, <2>1 DEF SuspendDone
  <2>3. loc'[Loop].reason = reason /\ pc'[Loop] = "take" /\ pc'[v] = "done"
    BY <1>0, <2>0, <2>1, <2>2 DEF Blank
  <2>4. \A q \in Procs \ {Loop, v} : pc'[q] = pc[q] /\ loc'[q] = loc[q]
    BY <1>0, <2>2
  <2> QED  BY <1>0, <2>3, <2>4, HeldStep DEF Starts
<1>7. ASSUME NEW p \in {Loop} \cup Routers, NEW u \in UserInputs, Steer(p, u)
      PROVE  NewHeld'
  BY <1>7 DEF Steer, NewHeld, Starts
<1> QED  BY <1>1, <1>2, <1>3, <1>4, <1>5, <1>6, <1>7 DEF LoopOp, IdleStep, Submit

\* Taking the task keeps the turn that replaces it.
LEMMA TakeHeld ==
    ASSUME TurnInv, NewHeld, NEW p \in Procs, TakeActive(p) \/ (p \in Guards /\ GuardianAbort(p))
    PROVE  NewHeld'
<1>0. pc \in [Procs -> PCs] /\ loc \in [Procs -> Locals]
  BY Types
<1>1. PICK r, n : /\ TakeAndCancel(p, r, n)
                  /\ \/ r = loc[p].reason /\ n = loc[p].new /\ pc[p] = "take"
                     \/ r = "Interrupted" /\ n = None
  BY DEF TakeActive, GuardianAbort
<1>2. r = "Replaced" => n \in Turns /\ n = loc[p].new
  BY <1>1 DEF NewHeld, Starts
<1>3. \A q \in Procs \ {p} : pc'[q] = pc[q] /\ loc'[q] = loc[q]
  BY <1>0, <1>1 DEF TakeAndCancel
<1>4. CASE HasTask
  <2>1. loc'[p].reason = r /\ loc'[p].new = n
    BY <1>0, <1>1, <1>4 DEF TakeAndCancel, Blank
  <2>2. pc'[p] \in {"cancel", "clear"}
    BY <1>0, <1>1, <1>4 DEF TakeAndCancel
  <2> QED  BY <1>2, <1>3, <2>1, <2>2, HeldStep DEF Starts
<1>5. CASE ~HasTask
  <2>1. loc' = loc
    BY <1>1, <1>5 DEF TakeAndCancel
  <2>2. pc'[p] = (IF r = "Replaced" THEN "drain" ELSE Home(p))
    BY <1>0, <1>1, <1>5 DEF TakeAndCancel
  <2>3. Home(p) \in {"done", "idle", "exited"}
    BY DEF Home
  <2> QED  BY <1>2, <1>3, <2>1, <2>2, <2>3, HeldStep DEF Starts
<1> QED  BY <1>4, <1>5

\* The rest of an abort keeps it too.
LEMMA AbortHeld ==
    ASSUME TurnInv, NewHeld, NEW p \in Procs, StopVictim(p) \/ EmitAborted(p) \/ ClearPending(p)
    PROVE  NewHeld'
<1>0. pc \in [Procs -> PCs] /\ loc \in [Procs -> Locals]
  BY Types
<1>1. CASE StopVictim(p)
  <2>0. loc[p].victim \in Turns /\ pc[p] = "cancel" /\ Turns \subseteq Procs
    BY <1>1 DEF StopVictim, TurnInv, LocalsInUse, Procs
  <2>1. PICK v \in Turns : v = loc[p].victim
    BY <2>0
  <2>2. /\ pc' = [pc EXCEPT ![p] = "emit", ![v] = "done"]
        /\ loc' = [loc EXCEPT ![v] = Blank]
    BY <1>1, <2>1 DEF StopVictim
  <2>3. CASE p = v
    BY <1>0, <2>0, <2>2, <2>3, HeldStep DEF Starts
  <2>4. CASE p # v
    BY <1>0, <2>0, <2>2, <2>4, HeldStep DEF Starts, NewHeld
  <2> QED  BY <2>3, <2>4
<1>2. CASE EmitAborted(p)
  BY <1>0, <1>2, HeldStep DEF EmitAborted, Starts, NewHeld
<1>3. CASE ClearPending(p)
  <2>1. loc'[p].new = loc[p].new
    BY <1>0, <1>3 DEF ClearPending, Locals
  <2>2. \A q \in Procs \ {p} : pc'[q] = pc[q] /\ loc'[q] = loc[q]
    BY <1>0, <1>3 DEF ClearPending
  <2>3. pc[p] = "clear" /\ pc'[p] = (IF loc[p].reason = "Replaced" THEN "drain" ELSE "wake")
    BY <1>0, <1>3 DEF ClearPending
  <2> QED  BY <2>1, <2>2, <2>3, HeldStep DEF Starts, NewHeld
<1> QED  BY <1>1, <1>2, <1>3

\* Starting a turn keeps it until the task is installed.
LEMMA StartHeld ==
    ASSUME TurnInv, NewHeld, NEW p \in Procs, StartStep(p)
    PROVE  NewHeld'
<1>0. pc \in [Procs -> PCs] /\ loc \in [Procs -> Locals] /\ Turns \subseteq Procs
      /\ Home(p) \in {"done", "idle", "exited"}
  BY Types DEF Procs, Home
<1>1. CASE CheckWork(p) \/ ReserveForWork(p) \/ CollectWork(p)
  <2>1. /\ pc'[p] \in {"reserve", "collect", "fill", "done", "idle", "exited"}
        /\ \A q \in Procs \ {p} : pc'[q] = pc[q] /\ loc'[q] = loc[q]
    BY <1>0, <1>1 DEF CheckWork, ReserveForWork, CollectWork, Return, GetPendingInput
  <2> QED  BY <2>1, HeldStep DEF Starts
<1>2. ASSUME NEW t \in Turns, FillReserved(p, t)
      PROVE  NewHeld'
  <2>1. /\ \A q \in Procs \ {p} : pc'[q] \in {pc[q], "created"} /\ loc'[q] = loc[q]
        /\ loc'[p].new = t
    BY <1>0, <1>2 DEF FillReserved, Locals
  <2> QED  BY <2>1, HeldStep
<1>3. CASE DrainMailbox(p) \/ AttachState(p)
  <2>1. /\ \A q \in Procs \ {p} : pc'[q] = pc[q] /\ loc'[q] = loc[q]
        /\ pc[p] \in {"drain", "attach"}
    BY <1>0, <1>3 DEF DrainMailbox, AttachState
  <2>2. loc'[p].new = loc[p].new
    BY <1>0, <1>3 DEF DrainMailbox, AttachState, Locals
  <2> QED  BY <2>1, <2>2, HeldStep DEF Starts, NewHeld
<1>4. CASE InstallTask(p)
  <2>1. PICK t \in Turns : t = loc[p].new
    BY <1>4 DEF InstallTask, NewHeld, Starts
  <2>2. PICK old : old = active.task
    OBVIOUS
  <2>3. /\ loc' = [q \in Procs |-> IF q \in {p, old} THEN Blank ELSE loc[q]]
        /\ pc' = [q \in Procs |-> CASE q = t -> "begin" [] q = p -> Home(p)
                                    [] q = old -> "done" [] OTHER -> pc[q]]
    BY <1>4, <2>1, <2>2 DEF InstallTask
  <2>4. \A q \in Procs : \/ pc'[q] \in {"begin", "done", "idle", "exited"}
                         \/ pc'[q] = pc[q] /\ loc'[q] = loc[q]
    BY <1>0, <2>3
  <2> QED  BY <2>4 DEF NewHeld, Starts
<1> QED  BY <1>1, <1>2, <1>3, <1>4 DEF StartStep

\* Every step keeps the turns that are being started.
LEMMA StepHeld ==
    ASSUME TurnInv, NewHeld, [Next]_vars
    PROVE  NewHeld'
<1>1. CASE Inject
  BY <1>1 DEF Inject, InjectNoNewTurn, InjectHookContext, NewHeld, Starts
<1>2. CASE UNCHANGED vars
  BY <1>2 DEF vars, NewHeld, Starts
<1>3. CASE \E p \in Guards : GuardianAbort(p)
  BY <1>3, TakeHeld DEF Procs
<1>4. CASE \E p \in Procs : AbortStep(p)
  BY <1>4, TakeHeld, AbortHeld DEF AbortStep
<1> QED  BY <1>1, <1>2, <1>3, <1>4, SubmitHeld, StartHeld, TaskHeld DEF Next

\* Initially nothing is being started.
LEMMA InitHeld == Init => NewHeld
BY DEF Init, NewHeld, Starts

\* Only the submission loop starts and aborts turns: no guardian, no realtime
\* router, and no mail that makes a finishing turn start the next one.
Serial ==
    /\ Guards = {} /\ Routers = {}
    /\ TriggerMails = {} /\ DurableSleep = FALSE

Charged == {"cancel", "suspend", "emit", "clear"}
Filling == {"recheck", "prepare", "drain", "attach", "install"}
LoopPCs == {"idle", "exited", "take", "wake"} \cup Charged \cup Filling
TurnPCs == {"unborn", "created", "done", "wake"} \cup BodyPCs \cup FinishPCs

\* Turns are started and aborted by the loop alone.
Where == pc[Loop] \in LoopPCs /\ \A t \in Turns : pc[t] \in TurnPCs

\* A running task is in the slot or in the hands of the loop, which has told
\* it to stop; the slot has no task while the loop holds one or fills it.
Charge ==
    /\ pc[Loop] \in Charged \cup Filling => active.task = None
    /\ pc[Loop] \notin Charged => loc[Loop].victim = None
    /\ pc[Loop] \in {"cancel", "suspend"} =>
          /\ turn[loc[Loop].victim].cancelled
          /\ pc[loc[Loop].victim] \in BodyPCs \cup {"done"}
    /\ pc[Loop] \in {"emit", "clear"} => pc[loc[Loop].victim] = "done"
    /\ active.task # None =>
          pc[active.task] \in BodyPCs /\ ~turn[active.task].cancelled
    /\ \A t \in Turns :
          /\ pc[t] \in BodyPCs =>
                \/ active.task = t
                \/ pc[Loop] \in {"cancel", "suspend"} /\ loc[Loop].victim = t
          /\ pc[t] \in {"unborn", "created"} => ~turn[t].cancelled

\* A turn has no terminal event while it runs or is being stopped, and has
\* one when nobody is left to send it.
Reported ==
    /\ \A t \in Turns :
          /\ pc[t] \in {"unborn", "created", "settle", "terminal"} \cup BodyPCs
                => Terminals(t) = {}
          /\ pc[t] \in {"release", "wake"} => Terminals(t) # {}
          /\ pc[t] = "done" /\ loc[Loop].victim # t => Terminals(t) # {}
    /\ pc[Loop] \in {"cancel", "suspend", "emit"} =>
          Terminals(loc[Loop].victim) = {}
    /\ pc[Loop] = "clear" => Terminals(loc[Loop].victim) # {}
    /\ OneTerminal

SerialInv == Where /\ Charge /\ Reported

(***************************************************************************)
(* The loop alone starts and aborts turns.                                 *)
(***************************************************************************)

\* What a serial session leaves out.
LEMMA SerialWorld ==
    ASSUME Serial
    PROVE  /\ Procs = {Loop} \cup Turns /\ Loop \notin Turns /\ None \notin Turns
           /\ ~HasTrigger /\ ~WorkWaiting
BY ConstantsAssumption DEF Serial, Procs, HasTrigger, WorkWaiting

\* The parts of the typed state that the invariant speaks of.
LEMMA SerialTypes ==
    ASSUME Serial, TurnInv
    PROVE  /\ pc \in [Procs -> PCs] /\ loc \in [Procs -> Locals]
           /\ turn \in [Turns -> Contexts] /\ events \in [Turns -> Seq(Events)]
           /\ active.task \in Turns \cup {None}
           /\ loc[Loop].victim \in Turns \cup {None}
           /\ pc[Loop] \in Charged => loc[Loop].victim \in Turns
BY Types, SerialWorld DEF TurnInv, LocalsInUse, Locals, Charged

\* Without a new event the terminal events are the same.
LEMMA SameTerminals ==
    ASSUME events' = events
    PROVE  (\A t \in Turns : Terminals(t)' = Terminals(t)) /\ (OneTerminal => OneTerminal')
BY DEF Terminals, OneTerminal, IsTerminal

\* A new event of a turn without a terminal event.
LEMMA NewEvent ==
    ASSUME events \in [Turns -> Seq(Events)], NEW t \in Turns, NEW e \in Events,
           events' = [events EXCEPT ![t] = Append(@, e)], Terminals(t) = {}, OneTerminal
    PROVE  /\ \A u \in Turns \ {t} : Terminals(u)' = Terminals(u)
           /\ IsTerminal(e) => Terminals(t)' # {}
           /\ ~IsTerminal(e) => Terminals(t)' = {}
           /\ OneTerminal'
<1>1. /\ events[t] \in Seq(Events) /\ events'[t] = Append(events[t], e)
      /\ \A u \in Turns \ {t} : events'[u] = events[u]
  OBVIOUS
<1>2. PICK n : n = Len(events[t])
  OBVIOUS
<1>3. /\ n \in Nat /\ DOMAIN events[t] = 1 .. n /\ DOMAIN events'[t] = 1 .. (n + 1)
      /\ Len(events'[t]) = n + 1 /\ events'[t][n + 1] = e
      /\ \A k \in 1 .. n : events'[t][k] = events[t][k]
  BY <1>1, <1>2
<1>4. \A k \in 1 .. n : ~IsTerminal(events[t][k])
  BY <1>3 DEF Terminals
<1>5. Terminals(t)' = {k \in 1 .. (n + 1) : IsTerminal(events'[t][k])}
  BY <1>3 DEF Terminals, IsTerminal
<1>6. \A k \in Terminals(t)' : k = n + 1 /\ IsTerminal(e)
  BY <1>3, <1>4, <1>5 DEF IsTerminal
<1>7. IsTerminal(e) => n + 1 \in Terminals(t)'
  BY <1>3, <1>5
<1>8. \A u \in Turns \ {t} : Terminals(u)' = Terminals(u)
  BY <1>1 DEF Terminals, IsTerminal
<1>9. OneTerminal'
  BY <1>1, <1>3, <1>6, <1>8 DEF OneTerminal
<1> QED  BY <1>6, <1>7, <1>8, <1>9

\* A task goes on with its body.
LEMMA BodyMove ==
    ASSUME Serial, TurnInv, SerialInv, NEW t \in Turns, NEW n \in BodyPCs, pc[t] \in BodyPCs,
           pc' = [pc EXCEPT ![t] = n], active' = active, events' = events,
           loc'[Loop].victim = loc[Loop].victim,
           \A u \in Turns : turn'[u].cancelled = turn[u].cancelled
    PROVE  SerialInv'
<1>1. Where'
  BY SerialWorld, SerialTypes DEF SerialInv, Where, TurnPCs
<1>2. Charge'
  <2>1. /\ pc'[Loop] = pc[Loop] /\ pc'[t] = n /\ n \notin {"unborn", "created", "done"}
        /\ \A u \in Turns \ {t} : pc'[u] = pc[u]
    BY SerialWorld, SerialTypes DEF BodyPCs
  <2>3. \A u \in Turns : (pc'[u] \in BodyPCs <=> pc[u] \in BodyPCs) /\ (pc[u] = "done" => pc'[u] = "done")
    BY <2>1 DEF BodyPCs
  <2>4. \A u \in Turns : pc'[u] \in {"unborn", "created"} => pc[u] \in {"unborn", "created"}
    BY <2>1
  <2>5. /\ pc[Loop] \in Charged => loc[Loop].victim \in Turns
        /\ active.task # None => active.task \in Turns
    BY SerialTypes
  <2>6. Charge
    BY DEF SerialInv
  <2>7. pc[Loop] \in {"cancel", "suspend"} =>
           /\ turn'[loc[Loop].victim].cancelled
           /\ pc'[loc[Loop].victim] \in BodyPCs \cup {"done"}
    BY <2>3, <2>5, <2>6 DEF Charge, Charged
  <2>8. pc[Loop] \in {"emit", "clear"} => pc'[loc[Loop].victim] = "done"
    BY <2>3, <2>5, <2>6 DEF Charge, Charged
  <2>9. active.task # None => pc'[active.task] \in BodyPCs /\ ~turn'[active.task].cancelled
    BY <2>3, <2>5, <2>6 DEF Charge
  <2>10. \A u \in Turns :
           /\ pc'[u] \in BodyPCs =>
                 \/ active.task = u
                 \/ pc[Loop] \in {"cancel", "suspend"} /\ loc[Loop].victim = u
           /\ pc'[u] \in {"unborn", "created"} => ~turn'[u].cancelled
    BY <2>3, <2>4, <2>6 DEF Charge
  <2> QED  BY <2>1, <2>6, <2>7, <2>8, <2>9, <2>10 DEF Charge
<1>3. Reported'
  BY SerialWorld, SerialTypes, SameTerminals DEF SerialInv, Reported, Charged, BodyPCs
<1> QED  BY <1>1, <1>2, <1>3 DEF SerialInv

\* The loop goes on without holding a task.
LEMMA LoopMove ==
    ASSUME Serial, TurnInv, SerialInv, NEW n \in LoopPCs \ Charged, pc[Loop] \notin Charged,
           pc' = [pc EXCEPT ![Loop] = n], active'.task = active.task, events' = events,
           n \in Filling => active.task = None,
           loc'[Loop].victim = None,
           \A u \in Turns : turn'[u].cancelled = turn[u].cancelled
    PROVE  SerialInv'
<1>1. Where'
  BY SerialWorld, SerialTypes DEF SerialInv, Where
<1>2. Charge'
  <2>1. pc'[Loop] = n /\ \A u \in Turns : pc'[u] = pc[u]
    BY SerialWorld, SerialTypes
  <2> QED  BY <2>1, SerialTypes DEF SerialInv, Charge, Charged
<1>3. Reported'
  BY SerialWorld, SerialTypes, SameTerminals DEF SerialInv, Charge, Reported, Charged
<1> QED  BY <1>1, <1>2, <1>3 DEF SerialInv

\* The loop creates a turn.
LEMMA LoopCreate ==
    ASSUME Serial, TurnInv, SerialInv, NEW n \in {"take", "drain"}, NEW t \in Turns,
           pc[Loop] \notin Charged, pc[t] = "unborn",
           pc' = [pc EXCEPT ![Loop] = n, ![t] = "created"], active' = active, events' = events,
           n = "drain" => active.task = None,
           loc'[Loop].victim = None, ~turn'[t].cancelled,
           \A u \in Turns \ {t} : turn'[u].cancelled = turn[u].cancelled
    PROVE  SerialInv'
<1>1. Where'
  BY SerialWorld, SerialTypes DEF SerialInv, Where, LoopPCs, TurnPCs, Filling
<1>2. Charge'
  BY SerialWorld, SerialTypes DEF SerialInv, Charge, Charged, Filling, BodyPCs
<1>3. Reported'
  BY SerialWorld, SerialTypes, SameTerminals DEF SerialInv, Charge, Reported, Charged, BodyPCs
<1> QED  BY <1>1, <1>2, <1>3 DEF SerialInv

\* The loop takes the task out of the slot and tells it to stop.
LEMMA LoopTakes ==
    ASSUME Serial, TurnInv, SerialInv, NEW n \in {"cancel", "suspend"}, active.task # None,
           pc[Loop] \notin Charged, pc' = [pc EXCEPT ![Loop] = n],
           active' = NoActive, events' = events, loc'[Loop].victim = active.task,
           turn' = [turn EXCEPT ![active.task].cancelled = TRUE]
    PROVE  SerialInv'
<1>1. Where'
  BY SerialWorld, SerialTypes DEF SerialInv, Where, LoopPCs, Charged
<1>0. PICK v \in Turns : v = active.task
  BY SerialTypes
<1>4. /\ turn'[v].cancelled
      /\ \A u \in Turns \ {v} : turn'[u].cancelled = turn[u].cancelled
  BY <1>0, SerialTypes DEF Contexts
<1>2. Charge'
  BY <1>0, <1>4, SerialWorld, SerialTypes
     DEF SerialInv, Charge, Charged, Filling, BodyPCs, NoActive
<1>3. Reported'
  BY <1>0, SerialWorld, SerialTypes, SameTerminals
     DEF SerialInv, Charge, Reported, Charged, BodyPCs
<1> QED  BY <1>1, <1>2, <1>3 DEF SerialInv
\* The fields of a process that holds nothing.
LEMMA BlankFields ==
    /\ Blank.victim = None /\ Blank.ts = None /\ Blank.new = None /\ Blank.items = {}
    /\ Blank.reason = "Interrupted"
BY DEF Blank

\* The body of a task, one step after the other.
LEMMA BodySerial ==
    ASSUME Serial, TurnInv, SerialInv, NEW t \in Turns,
           \/ CancelPrewarm(t) \/ EnterTurn(t) \/ FailEntry(t) \/ DrainPending(t)
           \/ RecordPending(t) \/ FollowUp(t) \/ RecoverWindow(t) \/ FinalAnswer(t)
           \/ FailSampling(t) \/ AfterAnswer(t) \/ AfterRunTurn(t)
    PROVE  SerialInv'
<1>1. \E n \in BodyPCs : pc' = [pc EXCEPT ![t] = n]
  BY DEF CancelPrewarm, EnterTurn, FailEntry, DrainPending, RecordPending, FollowUp,
     RecoverWindow, FinalAnswer, FailSampling, AfterAnswer, AfterRunTurn, RecordInputs,
     GetPendingInput, Step, BodyPCs
<1>2. pc[t] \in BodyPCs /\ active' = active /\ events' = events
  BY DEF CancelPrewarm, EnterTurn, FailEntry, DrainPending, RecordPending, FollowUp,
     RecoverWindow, FinalAnswer, FailSampling, AfterAnswer, AfterRunTurn, BodyPCs
<1>3. \A u \in Turns : turn'[u].cancelled = turn[u].cancelled
  <2>1. \/ turn' = turn
        \/ turn' = [turn EXCEPT ![t].input = {}]
        \/ turn' = [turn EXCEPT ![t].input = {}, ![t].drain = (turn[t].input = {})]
        \/ \E d \in BOOLEAN : turn' = [turn EXCEPT ![t].drain = d]
    BY DEF CancelPrewarm, EnterTurn, FailEntry, DrainPending, RecordPending, FollowUp,
       RecoverWindow, FinalAnswer, FailSampling, AfterAnswer, AfterRunTurn
  <2>2. PICK b : b = (turn[t].input = {})
    OBVIOUS
  <2>3. CASE turn' = [turn EXCEPT ![t].input = {}, ![t].drain = (turn[t].input = {})]
    BY <2>2, <2>3, SerialTypes DEF Contexts
  <2>4. CASE \E d \in BOOLEAN : turn' = [turn EXCEPT ![t].drain = d]
    BY <2>4, SerialTypes DEF Contexts
  <2>5. CASE turn' = [turn EXCEPT ![t].input = {}]
    BY <2>5, SerialTypes DEF Contexts
  <2> QED  BY <2>1, <2>3, <2>4, <2>5
<1>4. loc'[Loop] = loc[Loop]
  BY SerialTypes, SerialWorld
     DEF CancelPrewarm, EnterTurn, FailEntry, DrainPending, RecordPending, FollowUp,
     RecoverWindow, FinalAnswer, FailSampling, AfterAnswer, AfterRunTurn, GetPendingInput
<1> QED  BY <1>1, <1>2, <1>3, <1>4, BodyMove

\* The task announces itself.
LEMMA BeginSerial ==
    ASSUME Serial, TurnInv, SerialInv, NEW t \in Turns, BeginTurn(t)
    PROVE  SerialInv'
<1>1. /\ pc[t] = "begin" /\ events' = [events EXCEPT ![t] = Append(@, "Started")]
      /\ active' = active /\ loc' = loc /\ turn' = turn
  BY DEF BeginTurn
<1>2. PICK n \in {"enter", "ended"} : pc' = [pc EXCEPT ![t] = n]
  BY DEF BeginTurn, Step
<1>3. Where'
  BY <1>2, SerialWorld, SerialTypes DEF SerialInv, Where, TurnPCs, BodyPCs
<1>4. Charge'
  BY <1>1, <1>2, SerialWorld, SerialTypes DEF SerialInv, Charge, Charged, BodyPCs
<1>5. Reported'
  <2>0. "Started" \in Events /\ ~IsTerminal("Started")
    BY DEF Events, IsTerminal
  <2>1. Terminals(t) = {} /\ OneTerminal
    BY <1>1 DEF SerialInv, Reported, BodyPCs
  <2>2. (\A u \in Turns : Terminals(u)' = Terminals(u)) /\ OneTerminal'
    BY <2>0, <2>1, <1>1, NewEvent, SerialTypes
  <2> QED  BY <2>2, <1>1, <1>2, SerialWorld, SerialTypes DEF SerialInv, Reported, Charged, BodyPCs
<1> QED  BY <1>3, <1>4, <1>5 DEF SerialInv

\* The body returns; one that was told to stop leaves its end to the loop.
LEMMA EndSerial ==
    ASSUME Serial, TurnInv, SerialInv, NEW t \in Turns, EndTurn(t)
    PROVE  SerialInv'
<1>1. /\ pc[t] = "ended" /\ active' = active /\ loc' = loc /\ turn' = turn /\ events' = events
      /\ pc' = [pc EXCEPT ![t] = IF turn[t].cancelled THEN "done" ELSE "finish"]
  BY DEF EndTurn, Step
<1>2. CASE ~turn[t].cancelled
  BY <1>1, <1>2, BodyMove DEF BodyPCs
<1>3. CASE turn[t].cancelled
  <2>1. pc' = [pc EXCEPT ![t] = "done"]
    BY <1>1, <1>3
  <2>2. active.task # t /\ pc[Loop] \in {"cancel", "suspend"} /\ loc[Loop].victim = t
    BY <1>1, <1>3, SerialWorld, SerialTypes DEF SerialInv, Charge, BodyPCs
  <2>3. Where'
    BY <2>1, SerialWorld, SerialTypes DEF SerialInv, Where, TurnPCs
  <2>4. Charge'
    BY <1>1, <2>1, <2>2, SerialWorld, SerialTypes DEF SerialInv, Charge, Charged, BodyPCs
  <2>5. Reported'
    BY <1>1, <2>1, <2>2, SerialWorld, SerialTypes, SameTerminals
       DEF SerialInv, Reported, Charged, BodyPCs
  <2> QED  BY <2>3, <2>4, <2>5 DEF SerialInv
<1> QED  BY <1>2, <1>3

\* A task that finishes finds itself in the slot, or nothing: then the loop
\* has it.
LEMMA FinishSerial ==
    ASSUME Serial, TurnInv, SerialInv, NEW t \in Turns, FinishTake(t)
    PROVE  SerialInv'
<1>1. /\ pc[t] = "finish" /\ turn' = turn /\ events' = events
      /\ pc' = [pc EXCEPT ![t] = IF active.task # None THEN "settle" ELSE "done"]
      /\ active.task # None => active'.task = None
      /\ active.task = None => active' = active
      /\ loc'[Loop] = loc[Loop]
  BY SerialWorld, SerialTypes, Types DEF FinishTake, Step, HasTask
<1>2. pc[t] \in BodyPCs
  BY <1>1 DEF BodyPCs
<1>3. CASE active.task # None
  <2>1. pc' = [pc EXCEPT ![t] = "settle"] /\ active'.task = None /\ active.task = t
    BY <1>1, <1>2, <1>3 DEF SerialInv, Charge, Charged
  <2>3. Where'
    BY <2>1, SerialWorld, SerialTypes DEF SerialInv, Where, TurnPCs, FinishPCs
  <2>4. Charge'
    BY <1>1, <2>1, SerialWorld, SerialTypes DEF SerialInv, Charge, Charged, BodyPCs
  <2>5. Reported'
    BY <1>1, <1>2, <2>1, SerialWorld, SerialTypes, SameTerminals
       DEF SerialInv, Charge, Reported, Charged, BodyPCs
  <2> QED  BY <2>3, <2>4, <2>5 DEF SerialInv
<1>4. CASE active.task = None
  <2>1. /\ pc' = [pc EXCEPT ![t] = "done"] /\ active' = active
        /\ pc[Loop] \in {"cancel", "suspend"} /\ loc[Loop].victim = t
    BY <1>1, <1>2, <1>4, SerialWorld DEF SerialInv, Charge
  <2>3. Where'
    BY <2>1, SerialWorld, SerialTypes DEF SerialInv, Where, TurnPCs
  <2>4. Charge'
    BY <1>1, <1>4, <2>1, SerialWorld, SerialTypes DEF SerialInv, Charge, Charged, BodyPCs
  <2>5. Reported'
    BY <1>1, <2>1, SerialWorld, SerialTypes, SameTerminals
       DEF SerialInv, Reported, Charged, BodyPCs
  <2> QED  BY <2>3, <2>4, <2>5 DEF SerialInv
<1> QED  BY <1>3, <1>4

\* What is left over is recorded, then the slot is released.
LEMMA SettleSerial ==
    ASSUME Serial, TurnInv, SerialInv, NEW t \in Turns,
           \/ SettlePending(t) \/ ReleaseSlot(t) \/ (CheckWork(t) /\ pc[t] = "wake")
    PROVE  SerialInv'
<1>1. /\ turn' = turn /\ events' = events /\ active'.task = active.task
      /\ loc'[Loop] = loc[Loop]
  BY SerialWorld, SerialTypes
     DEF SettlePending, ReleaseSlot, ClearReserved, NoActive, CheckWork, Return
<1>2. \/ pc[t] = "settle" /\ pc' = [pc EXCEPT ![t] = "terminal"]
      \/ pc[t] = "release" /\ \E n \in {"wake", "done"} : pc' = [pc EXCEPT ![t] = n]
      \/ pc[t] = "wake" /\ pc' = [pc EXCEPT ![t] = "done"]
  BY SerialWorld DEF SettlePending, RecordInputs, Step, ReleaseSlot, CheckWork, Return, Home
<1>3. PICK n \in {"terminal", "wake", "done"} :
         /\ pc' = [pc EXCEPT ![t] = n]
         /\ pc[t] \in {"settle", "release", "wake"}
         /\ n = "terminal" <=> pc[t] = "settle"
  BY <1>2
<1>4. Where'
  BY <1>3, SerialWorld, SerialTypes DEF SerialInv, Where, TurnPCs, FinishPCs
<1>5. Charge'
  BY <1>1, <1>3, SerialWorld, SerialTypes DEF SerialInv, Charge, Charged, BodyPCs
<1>6. Reported'
  BY <1>1, <1>3, SerialWorld, SerialTypes, SameTerminals
     DEF SerialInv, Reported, Charged, BodyPCs
<1> QED  BY <1>4, <1>5, <1>6 DEF SerialInv

\* The turn's terminal event.
LEMMA TerminalSerial ==
    ASSUME Serial, TurnInv, SerialInv, NEW t \in Turns, EmitTerminal(t)
    PROVE  SerialInv'
<1>1. /\ pc[t] = "terminal" /\ pc' = [pc EXCEPT ![t] = "release"]
      /\ active' = active /\ loc' = loc /\ turn' = turn
  BY DEF EmitTerminal, Step
<1>2. PICK r \in Results : events' = [events EXCEPT ![t] = Append(@, r)]
  BY DEF EmitTerminal
<1>3. Where'
  BY <1>1, SerialWorld, SerialTypes DEF SerialInv, Where, TurnPCs, FinishPCs
<1>4. Charge'
  BY <1>1, SerialWorld, SerialTypes DEF SerialInv, Charge, Charged, BodyPCs
<1>5. Reported'
  <2>0. r \in Events /\ IsTerminal(r)
    BY DEF Results, Events, IsTerminal
  <2>1. Terminals(t) = {} /\ OneTerminal
    BY <1>1 DEF SerialInv, Reported
  <2>2. /\ \A u \in Turns \ {t} : Terminals(u)' = Terminals(u)
        /\ Terminals(t)' # {} /\ OneTerminal'
    BY <2>0, <2>1, <1>2, NewEvent, SerialTypes
  <2>3. pc[Loop] \in Charged => loc[Loop].victim # t
    BY <1>1 DEF SerialInv, Charge, Charged, BodyPCs
  <2> QED  BY <2>2, <2>3, <1>1, SerialWorld, SerialTypes
              DEF SerialInv, Reported, Charged, BodyPCs
<1> QED  BY <1>3, <1>4, <1>5 DEF SerialInv
\* What the loop does without a task in its hands.
LEMMA LoopSerial ==
    ASSUME Serial, TurnInv, SerialInv,
           \/ \E reason \in AbortOps \ {"Suspend"} : AbortAll(reason)
           \/ \E m \in Mails : Communicate(m)
           \/ ReserveIdle \/ RecheckIdle \/ RefuseIdle
           \/ CheckWork(Loop) \/ DrainMailbox(Loop) \/ AttachState(Loop)
    PROVE  SerialInv'
<1>0. pc \in [Procs -> PCs] /\ loc \in [Procs -> Locals] /\ Loop \in Procs
  BY SerialTypes, SerialWorld
<1>1. CASE (\E reason \in AbortOps \ {"Suspend"} : AbortAll(reason))
           \/ (\E m \in Mails : Communicate(m)) \/ CheckWork(Loop)
  <2>1. /\ active' = active /\ events' = events /\ turn' = turn
        /\ pc[Loop] \in {"idle", "wake"} /\ loc'[Loop].victim = None
    BY <1>0, <1>1, SerialWorld, BlankFields DEF AbortAll, Communicate, CheckWork, Return, Blank
  <2>2. \E n \in {"take", "idle", "exited"} : pc' = [pc EXCEPT ![Loop] = n]
    BY <1>1, SerialWorld DEF AbortAll, Communicate, CheckWork, Return, Home, Serial
  <2> QED  BY <2>1, <2>2, LoopMove DEF LoopPCs, Charged, Filling
<1>2. CASE ReserveIdle
  <2>1. /\ active'.task = None /\ active.task = None /\ events' = events /\ turn' = turn
        /\ pc[Loop] = "idle" /\ loc'[Loop].victim = None
        /\ pc' = [pc EXCEPT ![Loop] = "recheck"]
    BY <1>0, <1>2, Types DEF ReserveIdle, Reserve, Blank
  <2> QED  BY <2>1, LoopMove DEF LoopPCs, Charged, Filling
<1>3. CASE RecheckIdle
  <2>1. /\ pc[Loop] = "recheck" /\ pc' = [pc EXCEPT ![Loop] = "prepare"]
        /\ active' = active /\ loc' = loc /\ turn' = turn /\ events' = events
    BY <1>3, SerialWorld DEF RecheckIdle
  <2>2. active.task = None /\ loc[Loop].victim = None
    BY <2>1 DEF SerialInv, Charge, Filling, Charged
  <2> QED  BY <2>1, <2>2, LoopMove DEF LoopPCs, Charged, Filling
<1>4. CASE RefuseIdle
  <2>1. /\ pc[Loop] = "prepare" /\ pc' = [pc EXCEPT ![Loop] = "idle"]
        /\ active'.task = active.task /\ loc'[Loop] = Blank /\ turn' = turn /\ events' = events
    BY <1>0, <1>4 DEF RefuseIdle, ClearReserved, NoActive
  <2> QED  BY <2>1, BlankFields, LoopMove DEF LoopPCs, Charged, Filling
<1>5. CASE DrainMailbox(Loop) \/ AttachState(Loop)
  <2>1. /\ pc[Loop] \in {"drain", "attach"} /\ turn' = turn /\ events' = events
        /\ \E n \in {"attach", "install"} : pc' = [pc EXCEPT ![Loop] = n]
    BY <1>5 DEF DrainMailbox, AttachState
  <2>2. active'.task = active.task
    BY <1>5, Types DEF DrainMailbox, AttachState
  <2>3. loc'[Loop].victim = loc[Loop].victim
    BY <1>0, <1>5 DEF DrainMailbox, AttachState, Locals
  <2>4. active.task = None /\ loc[Loop].victim = None
    BY <2>1 DEF SerialInv, Charge, Filling, Charged
  <2> QED  BY <2>1, <2>2, <2>3, <2>4, LoopMove DEF LoopPCs, Charged, Filling
<1> QED  BY <1>1, <1>2, <1>3, <1>4, <1>5

\* The loop starts a turn: for an input, for a command, or in a reserved slot.
LEMMA CreateSerial ==
    ASSUME Serial, TurnInv, SerialInv, NEW t \in Turns,
           \/ \E u \in UserInputs : StartTurn(Loop, u, t)
           \/ \E kind \in OtherKinds : StartOther(kind, t)
           \/ \E u \in UserInputs, kind \in IdleStarts :
                 AcceptIdle(u, kind, t)
    PROVE  SerialInv'
<1>0. pc \in [Procs -> PCs] /\ loc \in [Procs -> Locals] /\ Loop \in Procs
  BY SerialTypes, SerialWorld
<1>1. pc[t] = "unborn" /\ active' = active /\ events' = events
  BY NewTurnUnborn DEF StartTurn, StartOther, AcceptIdle
<1>2. ~turn'[t].cancelled /\ \A u \in Turns \ {t} : turn'[u].cancelled = turn[u].cancelled
  BY SerialTypes DEF StartTurn, StartOther, AcceptIdle, NewTurn
<1>3. CASE (\E u \in UserInputs : StartTurn(Loop, u, t))
           \/ (\E kind \in OtherKinds : StartOther(kind, t))
  <2>1. /\ pc[Loop] = "idle" /\ pc' = [pc EXCEPT ![Loop] = "take", ![t] = "created"]
        /\ loc'[Loop].victim = None
    BY <1>0, <1>3 DEF StartTurn, StartOther, Blank
  <2> QED  BY <1>1, <1>2, <2>1, LoopCreate DEF Charged
<1>4. CASE \E u \in UserInputs, kind \in IdleStarts :
               AcceptIdle(u, kind, t)
  <2>1. /\ pc[Loop] = "prepare" /\ pc' = [pc EXCEPT ![Loop] = "drain", ![t] = "created"]
        /\ loc'[Loop].victim = loc[Loop].victim
    BY <1>0, <1>4 DEF AcceptIdle, Locals
  <2>2. active.task = None /\ loc[Loop].victim = None
    BY <2>1 DEF SerialInv, Charge, Filling, Charged
  <2> QED  BY <1>1, <1>2, <2>1, <2>2, LoopCreate DEF Charged
<1> QED  BY <1>3, <1>4

\* The loop empties the slot.
LEMMA TakeSerial ==
    ASSUME Serial, TurnInv, SerialInv, TakeActive(Loop) \/ Suspend
    PROVE  SerialInv'
<1>0. pc \in [Procs -> PCs] /\ loc \in [Procs -> Locals] /\ Loop \in Procs
  BY SerialTypes, SerialWorld
<1>1. CASE Suspend
  <2>1. /\ pc[Loop] = "idle" /\ pc' = [pc EXCEPT ![Loop] = "suspend"]
        /\ active.task # None /\ active' = NoActive /\ events' = events
        /\ turn' = [turn EXCEPT ![active.task].cancelled = TRUE]
        /\ loc'[Loop].victim = active.task
    BY <1>0, <1>1 DEF Suspend, HasTask, Blank
  <2> QED  BY <2>1, LoopTakes DEF Charged
<1>2. CASE TakeActive(Loop) /\ HasTask
  <2>0. active.task # None /\ ~turn[active.task].cancelled
    BY <1>2 DEF HasTask, SerialInv, Charge
  <2>1. /\ pc[Loop] = "take" /\ pc' = [pc EXCEPT ![Loop] = "cancel"]
        /\ active' = NoActive /\ events' = events
        /\ turn' = [turn EXCEPT ![active.task].cancelled = TRUE]
    BY <1>2, <2>0 DEF TakeActive, TakeAndCancel
  <2>2. loc'[Loop].victim = active.task
    BY <1>0, <1>2 DEF TakeActive, TakeAndCancel, Blank
  <2> QED  BY <2>0, <2>1, <2>2, LoopTakes DEF Charged
<1>3. CASE TakeActive(Loop) /\ ~HasTask
  <2>1. /\ pc[Loop] = "take" /\ active'.task = None /\ active.task = None
        /\ events' = events /\ turn' = turn /\ loc' = loc
        /\ \E n \in {"drain", "idle", "exited"} : pc' = [pc EXCEPT ![Loop] = n]
    BY <1>3, SerialWorld DEF TakeActive, TakeAndCancel, HasTask, NoActive, Home
  <2>2. loc[Loop].victim = None
    BY <2>1 DEF SerialInv, Charge, Charged
  <2> QED  BY <2>1, <2>2, LoopMove DEF LoopPCs, Charged, Filling
<1> QED  BY <1>1, <1>2, <1>3

\* The task the loop holds is dead.
LEMMA StopSerial ==
    ASSUME Serial, TurnInv, SerialInv, StopVictim(Loop)
    PROVE  SerialInv'
<1>0. /\ pc \in [Procs -> PCs] /\ loc \in [Procs -> Locals] /\ Loop \in Procs
      /\ pc[Loop] = "cancel" /\ loc[Loop].victim \in Turns
  BY SerialTypes, SerialWorld DEF StopVictim, Charged
<1>1. PICK v \in Turns : v = loc[Loop].victim
  BY <1>0
<1>2. /\ pc' = [pc EXCEPT ![Loop] = "emit", ![v] = "done"]
      /\ active' = active /\ events' = events
      /\ loc'[Loop] = loc[Loop]
  BY <1>0, <1>1, SerialWorld DEF StopVictim
<1>3. \A u \in Turns : turn'[u].cancelled = turn[u].cancelled
  BY <1>1, SerialTypes DEF StopVictim, Contexts
<1>4. Where'
  BY <1>0, <1>2, SerialWorld DEF SerialInv, Where, LoopPCs, Charged, TurnPCs
<1>5. Charge'
  BY <1>0, <1>1, <1>2, <1>3, SerialWorld, SerialTypes
     DEF SerialInv, Charge, Charged, BodyPCs
<1>6. Reported'
  BY <1>0, <1>1, <1>2, SerialWorld, SerialTypes, SameTerminals
     DEF SerialInv, Reported, Charged, BodyPCs
<1> QED  BY <1>4, <1>5, <1>6 DEF SerialInv

\* The loop suspends the task it holds.
LEMMA SuspendDoneSerial ==
    ASSUME Serial, TurnInv, SerialInv, SuspendDone
    PROVE  SerialInv'
<1>0. /\ pc \in [Procs -> PCs] /\ loc \in [Procs -> Locals] /\ Loop \in Procs
      /\ pc[Loop] = "suspend" /\ loc[Loop].victim \in Turns
  BY SerialTypes, SerialWorld DEF SuspendDone, Charged
<1>1. PICK v \in Turns : v = loc[Loop].victim
  BY <1>0
<1>2. PICK reason \in {"Shutdown", "Interrupted"} :
      /\ pc' = [pc EXCEPT ![Loop] = "take", ![v] = "done"]
      /\ active' = active /\ events' = [events EXCEPT ![v] = Append(@, "Suspended")]
      /\ loc' = [loc EXCEPT ![Loop] = [Blank EXCEPT !.reason = reason], ![v] = Blank]
  BY <1>1 DEF SuspendDone
<1>7. loc'[Loop].victim = None
  BY <1>0, <1>2, SerialWorld DEF Blank
<1>3. \A u \in Turns : turn'[u].cancelled = turn[u].cancelled
  BY <1>1, SerialTypes DEF SuspendDone, Contexts
<1>4. Where'
  BY <1>0, <1>2, SerialWorld DEF SerialInv, Where, LoopPCs, TurnPCs
<1>5. Charge'
  <2>1. active.task = None
    BY <1>0 DEF SerialInv, Charge, Charged
  <2>2. \A t \in Turns \ {v} : pc[t] \notin BodyPCs
    BY <1>0, <1>1, <2>1, SerialWorld DEF SerialInv, Charge
  <2> QED  BY <1>0, <1>2, <1>3, <1>7, <2>1, <2>2, SerialWorld
              DEF SerialInv, Charge, Charged, Filling, BodyPCs
<1>6. Reported'
  <2>0. "Suspended" \in Events /\ IsTerminal("Suspended")
    BY DEF Events, IsTerminal
  <2>1. Terminals(v) = {} /\ OneTerminal
    BY <1>0, <1>1 DEF SerialInv, Reported
  <2>2. /\ \A u \in Turns \ {v} : Terminals(u)' = Terminals(u)
        /\ Terminals(v)' # {} /\ OneTerminal'
    BY <2>0, <2>1, <1>2, NewEvent, SerialTypes
  <2> QED  BY <2>2, <1>0, <1>1, <1>2, <1>7, SerialWorld, SerialTypes
              DEF SerialInv, Reported, Charged, BodyPCs
<1> QED  BY <1>4, <1>5, <1>6 DEF SerialInv

\* The loop reports the task it stopped.
LEMMA EmitSerial ==
    ASSUME Serial, TurnInv, SerialInv, EmitAborted(Loop)
    PROVE  SerialInv'
<1>0. /\ pc \in [Procs -> PCs] /\ Loop \in Procs
      /\ pc[Loop] = "emit" /\ loc[Loop].victim \in Turns
  BY SerialTypes, SerialWorld DEF EmitAborted, Charged
<1>1. PICK v \in Turns : v = loc[Loop].victim
  BY <1>0
<1>2. /\ pc' = [pc EXCEPT ![Loop] = "clear"] /\ active' = active /\ loc' = loc /\ turn' = turn
      /\ events' = [events EXCEPT ![v] = Append(@, "Aborted")]
  BY <1>1 DEF EmitAborted
<1>4. Where'
  BY <1>0, <1>2, SerialWorld DEF SerialInv, Where, LoopPCs, Charged
<1>5. Charge'
  BY <1>0, <1>1, <1>2, SerialWorld, SerialTypes DEF SerialInv, Charge, Charged
<1>6. Reported'
  <2>0. "Aborted" \in Events /\ IsTerminal("Aborted")
    BY DEF Events, IsTerminal
  <2>1. Terminals(v) = {} /\ OneTerminal /\ pc[v] = "done"
    BY <1>0, <1>1 DEF SerialInv, Reported, Charge
  <2>2. /\ \A u \in Turns \ {v} : Terminals(u)' = Terminals(u)
        /\ Terminals(v)' # {} /\ OneTerminal'
    BY <2>0, <2>1, <1>2, NewEvent, SerialTypes
  <2> QED  BY <2>1, <2>2, <1>0, <1>1, <1>2, SerialWorld DEF SerialInv, Reported, BodyPCs
<1> QED  BY <1>4, <1>5, <1>6 DEF SerialInv

\* The loop lets go of the task it stopped and reported.
LEMMA ClearSerial ==
    ASSUME Serial, TurnInv, SerialInv, ClearPending(Loop)
    PROVE  SerialInv'
<1>0. /\ pc \in [Procs -> PCs] /\ loc \in [Procs -> Locals] /\ Loop \in Procs
      /\ pc[Loop] = "clear" /\ loc[Loop].victim \in Turns
  BY SerialTypes, SerialWorld DEF ClearPending, Charged
<1>2. /\ active' = active /\ turn' = turn /\ events' = events
      /\ loc'[Loop].victim = None
  BY <1>0 DEF ClearPending, Locals
<1>3. PICK n \in {"drain", "wake"} : pc' = [pc EXCEPT ![Loop] = n]
  BY DEF ClearPending
<1>4. Where'
  BY <1>0, <1>3, SerialWorld DEF SerialInv, Where, LoopPCs, Filling
<1>5. Charge'
  BY <1>0, <1>2, <1>3, SerialWorld, SerialTypes DEF SerialInv, Charge, Charged, Filling
<1>6. Reported'
  BY <1>0, <1>2, <1>3, SerialWorld, SameTerminals DEF SerialInv, Reported
<1> QED  BY <1>4, <1>5, <1>6 DEF SerialInv

\* The loop installs the task it created in the empty slot.
LEMMA InstallSerial ==
    ASSUME Serial, TurnInv, NewHeld, SerialInv, InstallTask(Loop)
    PROVE  SerialInv'
<1>0. /\ pc \in [Procs -> PCs] /\ loc \in [Procs -> Locals] /\ Loop \in Procs
      /\ pc[Loop] = "install" /\ active.task = None /\ loc[Loop].victim = None
  BY SerialTypes, SerialWorld DEF InstallTask, SerialInv, Charge, Filling, Charged
<1>1. PICK t \in Turns : t = loc[Loop].new
  BY <1>0 DEF NewHeld, Starts
<1>2. pc[t] = "created"
  BY <1>0, <1>1, SerialWorld DEF TurnInv, StartingTurns
<1>3. PICK n \in {"idle", "exited"} :
         pc'[t] = "begin" /\ pc'[Loop] = n /\ \A q \in Turns \ {t} : pc'[q] = pc[q]
  <2>1. PICK n \in {"idle", "exited"} : n = Home(Loop)
    BY SerialWorld DEF Home
  <2>2. pc' = [q \in Procs |-> CASE q = t -> "begin" [] q = Loop -> n
                                 [] q = None -> "done" [] OTHER -> pc[q]]
    BY <1>0, <1>1, <2>1 DEF InstallTask
  <2>3. \A q \in Procs : q # None
    BY ConstantsAssumption DEF Procs
  <2> QED  BY <2>2, <2>3, SerialWorld
<1>4. /\ active'.task = t /\ events' = events /\ loc'[Loop].victim = None
      /\ \A u \in Turns : turn'[u].cancelled = turn[u].cancelled
  BY <1>0, <1>1, SerialWorld, SerialTypes DEF InstallTask, Blank
<1>5. Where'
  BY <1>1, <1>2, <1>3, SerialWorld DEF SerialInv, Where, LoopPCs, TurnPCs, BodyPCs
<1>6. Charge'
  BY <1>0, <1>1, <1>2, <1>3, <1>4, SerialWorld DEF SerialInv, Charge, Charged, Filling, BodyPCs
<1>7. Reported'
  BY <1>0, <1>1, <1>2, <1>3, <1>4, SerialWorld, SameTerminals
     DEF SerialInv, Reported, Charged, BodyPCs
<1> QED  BY <1>5, <1>6, <1>7 DEF SerialInv

\* Steering and injection touch neither tasks nor events.
LEMMA InputSerial ==
    ASSUME SerialInv, UNCHANGED <<active, pc, loc, turn, events>>
    PROVE  SerialInv'
BY DEF SerialInv, Where, Charge, Reported, OneTerminal, Terminals, IsTerminal

\* In a serial session only the loop aborts and starts turns.
LEMMA OnlyLoop ==
    ASSUME Serial, Where, NEW p \in Procs, AbortStep(p) \/ StartStep(p)
    PROVE  \/ p = Loop /\ AbortStep(Loop)
           \/ p = Loop /\ (CheckWork(Loop) \/ DrainMailbox(Loop) \/ AttachState(Loop)
                           \/ InstallTask(Loop))
           \/ p \in Turns /\ CheckWork(p) /\ pc[p] = "wake"
<1>1. /\ AbortStep(p) => pc[p] \in {"take", "cancel", "emit", "clear"}
      /\ ReserveForWork(p) \/ CollectWork(p) \/ (\E t \in Turns : FillReserved(p, t)) =>
            pc[p] \in {"reserve", "collect", "fill"}
      /\ CheckWork(p) => pc[p] = "wake"
      /\ DrainMailbox(p) \/ AttachState(p) \/ InstallTask(p) =>
            pc[p] \in {"drain", "attach", "install"}
  BY DEF AbortStep, TakeActive, StopVictim, EmitAborted, ClearPending, CheckWork, ReserveForWork,
         CollectWork, FillReserved, DrainMailbox, AttachState, InstallTask
<1>2. pc[p] \notin {"reserve", "collect", "fill"}
  BY SerialWorld DEF Where, LoopPCs, TurnPCs, BodyPCs, FinishPCs, Charged, Filling
<1>3. p \in Turns => pc[p] \notin {"take", "cancel", "emit", "clear", "drain", "attach", "install"}
  BY DEF Where, TurnPCs, BodyPCs, FinishPCs
<1> QED  BY <1>1, <1>2, <1>3, SerialWorld DEF StartStep

\* Every step of a serial session preserves the invariant.
LEMMA StepSerial ==
    ASSUME Serial, TurnInv, NewHeld, SerialInv, [Next]_vars
    PROVE  SerialInv'
<1>1. CASE LoopOp
  BY <1>1, LoopSerial, CreateSerial, TakeSerial DEF LoopOp
<1>2. CASE IdleStep
  BY <1>2, LoopSerial, CreateSerial, SuspendDoneSerial DEF IdleStep
<1>3. CASE Inject
  BY <1>3, InputSerial DEF Inject, InjectNoNewTurn, InjectHookContext
<1>4. CASE \E p \in {Loop} \cup Routers : Submit(p)
  <2>1. Submit(Loop)
    BY <1>4 DEF Serial
  <2>2. CASE \E u \in UserInputs : Steer(Loop, u)
    BY <2>2, InputSerial DEF Steer
  <2>3. CASE \E u \in UserInputs, t \in Turns : StartTurn(Loop, u, t)
    BY <2>3, CreateSerial
  <2> QED  BY <2>1, <2>2, <2>3 DEF Submit
<1>5. CASE \E p \in Guards : GuardianAbort(p)
  BY <1>5 DEF Serial
<1>6. CASE \E p \in Procs : AbortStep(p) \/ StartStep(p)
  <2>1. PICK p \in Procs : AbortStep(p) \/ StartStep(p)
    BY <1>6
  <2>2. Where
    BY DEF SerialInv
  <2>3. CASE AbortStep(Loop)
    BY <2>3, TakeSerial, StopSerial, EmitSerial, ClearSerial DEF AbortStep
  <2>4. CASE CheckWork(Loop) \/ DrainMailbox(Loop) \/ AttachState(Loop) \/ InstallTask(Loop)
    BY <2>4, LoopSerial, InstallSerial
  <2>5. CASE p \in Turns /\ CheckWork(p) /\ pc[p] = "wake"
    BY <2>5, SettleSerial
  <2> QED  BY <2>1, <2>2, <2>3, <2>4, <2>5, OnlyLoop
<1>7. CASE \E t \in Turns : TurnStep(t)
  BY <1>7, BeginSerial, BodySerial, EndSerial DEF TurnStep
<1>8. CASE \E t \in Turns : FinishStep(t)
  BY <1>8, FinishSerial, SettleSerial, TerminalSerial DEF FinishStep
<1>9. CASE UNCHANGED vars
  BY <1>9, InputSerial DEF vars
<1> QED  BY <1>1, <1>2, <1>3, <1>4, <1>5, <1>6, <1>7, <1>8, <1>9 DEF Next

\* A session begins with the loop idle and no turn.
LEMMA InitSerial ==
    ASSUME Serial, Init
    PROVE  SerialInv
<1>1. \A t \in Turns : Terminals(t) = {}
  <2>1. \A t \in Turns : events[t] = <<>>
    BY DEF Init
  <2>2. DOMAIN <<>> = {}
    OBVIOUS
  <2> QED  BY <2>1, <2>2 DEF Terminals
<1>2. pc[Loop] = "idle" /\ \A t \in Turns : pc[t] = "unborn"
  BY SerialWorld DEF Init
<1>3. active.task = None /\ loc[Loop].victim = None /\ \A t \in Turns : ~turn[t].cancelled
  BY SerialWorld DEF Init, NoActive, Blank
<1> QED  BY <1>1, <1>2, <1>3, SerialWorld
            DEF SerialInv, Where, Charge, Reported, OneTerminal, LoopPCs, TurnPCs, Charged,
                Filling, BodyPCs

\* The invariant of a serial session: where a running task is, and which turns
\* have been reported.
THEOREM SerialInvariance == ASSUME Serial PROVE Spec => [](TurnInv /\ NewHeld /\ SerialInv)
<1>1. Init => TurnInv /\ NewHeld /\ SerialInv
  BY InitInv, InitHeld, InitSerial
<1>2. TurnInv /\ NewHeld /\ SerialInv /\ [Next]_vars => TurnInv' /\ NewHeld' /\ SerialInv'
  BY NextInv, StepHeld, StepSerial
<1> QED  BY <1>1, <1>2, PTL DEF Spec

\* start_task's debug_assert!(turn.task.is_none()) holds when the loop alone
\* starts turns: whatever it replaces, interrupts, suspends or reserves, no
\* task is in the slot when it attaches to it or fills it.
THEOREM SlotIsFree == ASSUME Serial PROVE Spec => []StartSlotFree
<1>1. SerialInv => StartSlotFree
  BY SerialWorld
     DEF SerialInv, Where, Charge, StartSlotFree, Filling, TurnPCs, BodyPCs, FinishPCs
<1> QED  BY <1>1, SerialInvariance, PTL

\* The loop never lets two tasks run that were not told to stop.
THEOREM OneRunner == ASSUME Serial PROVE Spec => []SingleRunner
<1>1. SerialInv => SingleRunner
  BY SerialWorld DEF SerialInv, Charge, SingleRunner
<1> QED  BY <1>1, SerialInvariance, PTL

\* A turn's last event is its only terminal event, whether it completes, fails,
\* is replaced, interrupted or suspended.
THEOREM TerminalOnce == ASSUME Serial PROVE Spec => []OneTerminal
<1>1. SerialInv => OneTerminal
  BY DEF SerialInv, Reported
<1> QED  BY <1>1, SerialInvariance, PTL

\* A turn whose task is gone and which the loop has let go of has been
\* reported: no turn ends without a word.
THEOREM TurnsAreReported == ASSUME Serial PROVE Spec => []NoVanishedTurn
<1>1. SerialInv => NoVanishedTurn
  BY SerialWorld DEF SerialInv, Reported, NoVanishedTurn, Victims
<1> QED  BY <1>1, SerialInvariance, PTL

(***************************************************************************)
(* No item is lost in a serial session, injections apart.                  *)
(***************************************************************************)

\* Which turn state each process holds: a finishing turn the one its task ran
\* in, the loop the one it took or the one in the slot that it fills.
HoldsState ==
    /\ \A t \in Turns : IF pc[t] \in FinishPCs THEN loc[t].ts \in TStates
                                               ELSE loc[t].ts = None
    /\ pc[Loop] \in {"idle", "exited", "take", "wake"} => loc[Loop].ts = None
    /\ pc[Loop] \in Filling => loc[Loop].ts = active.ts
    /\ pc[Loop] \in {"recheck", "prepare"} => active.ts \in TStates
    /\ pc[Loop] \in Charged => active.ts = None

\* No two of them hold the same one, and a slot without a task is on its way
\* to be filled or released.
HoldsAlone ==
    /\ \A t, u \in Turns :
          t # u /\ pc[t] \in FinishPCs /\ pc[u] \in FinishPCs => loc[t].ts # loc[u].ts
    /\ active.task # None \/ pc[Loop] \in Filling =>
          \A t \in Turns : pc[t] \in FinishPCs => loc[t].ts # active.ts
    /\ pc[Loop] \in Charged =>
          \A t \in Turns : pc[t] \in FinishPCs => loc[t].ts # loc[Loop].ts
    /\ active.ts # None /\ active.task = None =>
          \/ pc[Loop] \in Filling
          \/ \E t \in Turns : pc[t] \in FinishPCs /\ loc[t].ts = active.ts

\* A turn state is given back empty, and items are carried only between a
\* drain and its end.
Empty ==
    /\ \A p \in Procs : pc[p] \notin {"attach", "record"} => loc[p].items = {}
    /\ \A t \in Turns : pc[t] = "unborn" => turn[t].input = {}
    /\ \A t \in Turns : pc[t] \in {"terminal", "release"} => pending[loc[t].ts] = {}
    /\ pc[Loop] \in {"recheck", "prepare"} => pending[active.ts] = {}

\* An accepted item is somewhere.
Held(x) ==
    \/ x \in mailbox \cup history \cup dropped
    \/ \E p \in Procs : x \in loc[p].items
    \/ \E t \in Turns : x \in turn[t].input
    \/ \E s \in TStates : InUse(s) /\ x \in pending[s]

Kept == \A x \in sent : Held(x)

KeepsInv == HoldsState /\ HoldsAlone /\ Empty /\ Kept

\* The parts of the typed state that this invariant speaks of.
LEMMA KeepTypes ==
    ASSUME Serial, TurnInv
    PROVE  /\ pc \in [Procs -> PCs] /\ loc \in [Procs -> Locals] /\ turn \in [Turns -> Contexts]
           /\ pending \in [TStates -> SUBSET Items]
           /\ active \in [ts : TStates \cup {None}, task : Turns \cup {None}]
           /\ active.ts = None => active.task = None
           /\ \A q \in Procs : loc[q].ts \in TStates \cup {None}
           /\ None \notin TStates /\ None \notin Turns /\ Loop \notin Turns
           /\ Procs = {Loop} \cup Turns
BY Types, SerialWorld, ConstantsAssumption DEF Locals

\* Where an item can be found after a step.
LEMMA HeldNext ==
    ASSUME NEW x
    PROVE  /\ x \in mailbox' \/ x \in history' \/ x \in dropped' => Held(x)'
           /\ \A q \in Procs : x \in loc'[q].items => Held(x)'
           /\ \A t \in Turns : x \in turn'[t].input => Held(x)'
           /\ \A r \in TStates : /\ r = active'.ts \/ \E q \in Procs : loc'[q].ts = r
                                 /\ x \in pending'[r]
                                 => Held(x)'
BY DEF Held, InUse

\* A step finds a place for every item that was anywhere and every new one.
LEMMA KeptStep ==
    ASSUME Kept, history \subseteq history', dropped \subseteq dropped',
           \A x \in sent' \ sent : Held(x)',
           \A x \in mailbox : Held(x)',
           \A q \in Procs : \A x \in loc[q].items : Held(x)',
           \A t \in Turns : \A x \in turn[t].input : Held(x)',
           \A r \in TStates : InUse(r) => \A x \in pending[r] : Held(x)'
    PROVE  Kept'
BY HeldNext DEF Kept, Held

\* A step that leaves the items where they are; a turn state that goes out of
\* use is empty.
LEMMA KeptStill ==
    ASSUME Kept, history' = history, dropped' = dropped, mailbox' = mailbox, sent' = sent,
           \A q \in Procs : loc[q].items \subseteq loc'[q].items,
           \A t \in Turns : turn[t].input \subseteq turn'[t].input,
           \A r \in TStates : InUse(r) =>
              \/ pending[r] = {}
              \/ /\ pending[r] \subseteq pending'[r]
                 /\ r = active'.ts \/ \E q \in Procs : loc'[q].ts = r
    PROVE  Kept'
<1>1. /\ \A x \in mailbox : Held(x)'
      /\ \A q \in Procs : \A x \in loc[q].items : Held(x)'
      /\ \A t \in Turns : \A x \in turn[t].input : Held(x)'
  BY HeldNext
<1>2. ASSUME NEW r \in TStates, InUse(r), NEW x \in pending[r]
      PROVE  Held(x)'
  <2>1. x \in pending'[r] /\ (r = active'.ts \/ \E q \in Procs : loc'[q].ts = r)
    BY <1>2
  <2> QED  BY <2>1, HeldNext
<1> QED  BY <1>1, <1>2, KeptStep

(***************************************************************************)
(* The steps of a task.                                                    *)
(***************************************************************************)

\* A turn that is not finishing moves, and drains at most.
LEMMA TaskHolds ==
    ASSUME Serial, TurnInv, SerialInv, KeepsInv, NEW t \in Turns, NEW n \in PCs \ FinishPCs,
           pc[t] \notin FinishPCs, pc' = [pc EXCEPT ![t] = n], active' = active,
           \A q \in Procs : loc'[q].ts = loc[q].ts,
           \A r \in TStates : pending'[r] \in {pending[r], {}}
    PROVE  HoldsState' /\ HoldsAlone'
<1>0. pc'[Loop] = pc[Loop] /\ \A u \in Turns : pc'[u] \in FinishPCs <=> pc[u] \in FinishPCs
  BY KeepTypes
<1>1. HoldsState'
  BY <1>0, KeepTypes DEF KeepsInv, HoldsState
<1>2. HoldsAlone'
  BY <1>0, KeepTypes DEF KeepsInv, HoldsAlone
<1> QED  BY <1>1, <1>2

\* Such a move leaves empty what was empty.
LEMMA TaskEmpties ==
    ASSUME Serial, TurnInv, KeepsInv, NEW t \in Turns, NEW n \in PCs \ {"terminal", "release", "unborn"},
           pc' = [pc EXCEPT ![t] = n], active' = active,
           \A q \in Procs \ {t} : loc'[q] = loc[q],
           n # "record" => loc'[t].items = {},
           \A u \in Turns \ {t} : turn'[u] = turn[u],
           \A r \in TStates : pending'[r] \in {pending[r], {}}
    PROVE  Empty'
<1>0. pc'[Loop] = pc[Loop] /\ loc'[Loop] = loc[Loop] /\ pc'[t] = n
      /\ \A u \in Turns \ {t} : pc'[u] = pc[u] /\ loc'[u] = loc[u]
  BY KeepTypes
<1>1. \A p \in Procs : pc'[p] \notin {"attach", "record"} => loc'[p].items = {}
  BY <1>0, KeepTypes DEF KeepsInv, Empty
<1>2. \A u \in Turns : pc'[u] \in {"terminal", "release"} => pending'[loc'[u].ts] = {}
  <2> SUFFICES ASSUME NEW u \in Turns, pc'[u] \in {"terminal", "release"}
               PROVE  pending'[loc'[u].ts] = {}
    OBVIOUS
  <2>1. u # t /\ pc[u] \in FinishPCs /\ loc'[u] = loc[u] /\ pending[loc[u].ts] = {}
    BY <1>0 DEF KeepsInv, Empty, FinishPCs
  <2>2. loc[u].ts \in TStates
    BY <2>1 DEF KeepsInv, HoldsState
  <2> QED  BY <2>1, <2>2
<1>3. pc'[Loop] \in {"recheck", "prepare"} => pending'[active'.ts] = {}
  BY <1>0 DEF KeepsInv, Empty, HoldsState
<1>4. \A u \in Turns : pc'[u] = "unborn" => turn'[u].input = {}
  BY <1>0 DEF KeepsInv, Empty
<1> QED  BY <1>1, <1>2, <1>3, <1>4 DEF Empty
\* Steps of the body that move no item.
LEMMA GoOnKeeps ==
    ASSUME Serial, TurnInv, SerialInv, KeepsInv, NEW t \in Turns,
           \/ BeginTurn(t) \/ FollowUp(t) \/ RecoverWindow(t) \/ FinalAnswer(t) \/ FailSampling(t)
           \/ AfterAnswer(t) \/ AfterRunTurn(t) \/ EndTurn(t)
    PROVE  KeepsInv'
<1>1. /\ UNCHANGED <<active, pending, mailbox, loc, history, sent, dropped>>
      /\ \E n \in BodyPCs \cup {"done"} : n # "record" /\ pc' = [pc EXCEPT ![t] = n]
      /\ pc[t] \in BodyPCs \ {"record"}
  BY DEF BeginTurn, FollowUp, RecoverWindow, FinalAnswer, FailSampling, AfterAnswer,
     AfterRunTurn, EndTurn, Step, BodyPCs
<1>2. \A u \in Turns : turn'[u].input = turn[u].input /\ (u # t => turn'[u] = turn[u])
  BY KeepTypes DEF BeginTurn, FollowUp, RecoverWindow, FinalAnswer, FailSampling, AfterAnswer,
     AfterRunTurn, EndTurn, Contexts
<1>3. PICK n \in PCs \ FinishPCs : n \notin {"record", "unborn"} /\ pc' = [pc EXCEPT ![t] = n]
  BY <1>1 DEF PCs, BodyPCs, FinishPCs
<1>4. pc[t] \notin FinishPCs /\ loc[t].items = {}
  BY <1>1, KeepTypes DEF BodyPCs, FinishPCs, KeepsInv, Empty
<1>5. HoldsState' /\ HoldsAlone'
  BY <1>1, <1>3, <1>4, TaskHolds
<1>6. Empty'
  BY <1>1, <1>2, <1>3, <1>4, TaskEmpties DEF FinishPCs
<1>7. Kept'
  BY <1>1, <1>2, KeptStill DEF KeepsInv, InUse
<1> QED  BY <1>5, <1>6, <1>7 DEF KeepsInv

\* What run_hooks_and_record_inputs does with the items it is given.
LEMMA RecordsAll ==
    ASSUME NEW t, NEW items, NEW next, NEW stop, RecordInputs(t, items, next, stop)
    PROVE  /\ history \subseteq history' /\ dropped \subseteq dropped'
           /\ items \subseteq history' \cup dropped'
           /\ \E n \in {next, stop} : pc' = [pc EXCEPT ![t] = n]
BY DEF RecordInputs, Step

\* The own input of the turn is recorded or discarded.
LEMMA EnterKeeps ==
    ASSUME Serial, TurnInv, SerialInv, KeepsInv, NEW t \in Turns,
           EnterTurn(t) \/ CancelPrewarm(t) \/ FailEntry(t)
    PROVE  KeepsInv'
<1>1. /\ UNCHANGED <<active, pending, mailbox, loc, sent>> /\ pc[t] = "enter"
  BY DEF EnterTurn, CancelPrewarm, FailEntry
<1>2. \A u \in Turns : u # t => turn'[u] = turn[u]
  BY KeepTypes DEF EnterTurn, CancelPrewarm, FailEntry
<1>3. /\ history \subseteq history' /\ dropped \subseteq dropped'
      /\ turn[t].input \subseteq history' \cup dropped'
      /\ \E n \in {"loop", "ret", "ended"} : pc' = [pc EXCEPT ![t] = n]
  <2>1. CASE EnterTurn(t)
    BY <2>1, RecordsAll DEF EnterTurn
  <2>2. CASE CancelPrewarm(t)
    BY <2>2, RecordsAll DEF CancelPrewarm
  <2>3. CASE FailEntry(t)
    BY <2>3 DEF FailEntry, Step
  <2> QED  BY <2>1, <2>2, <2>3
<1>4. PICK n \in PCs \ FinishPCs : n \notin {"record", "unborn"} /\ pc' = [pc EXCEPT ![t] = n]
  BY <1>3 DEF PCs, BodyPCs, FinishPCs
<1>5. pc[t] \notin FinishPCs /\ loc[t].items = {}
  BY <1>1, KeepTypes DEF FinishPCs, KeepsInv, Empty
<1>6. HoldsState' /\ HoldsAlone'
  BY <1>1, <1>4, <1>5, TaskHolds
<1>7. Empty'
  BY <1>1, <1>2, <1>4, <1>5, TaskEmpties DEF FinishPCs
<1>8. Kept'
  <2>1. \A u \in Turns : \A x \in turn[u].input : Held(x)'
    BY <1>2, <1>3, HeldNext
  <2>2. /\ \A x \in mailbox : Held(x)'
        /\ \A q \in Procs : \A x \in loc[q].items : Held(x)'
        /\ \A r \in TStates : InUse(r) => \A x \in pending[r] : Held(x)'
    BY <1>1, HeldNext DEF InUse
  <2> QED  BY <1>1, <1>3, <2>1, <2>2, KeptStep DEF KeepsInv
<1> QED  BY <1>6, <1>7, <1>8 DEF KeepsInv

\* The head of the sampling loop takes the pending input and the mail.
LEMMA DrainKeeps ==
    ASSUME Serial, TurnInv, SerialInv, KeepsInv, NEW t \in Turns, DrainPending(t)
    PROVE  KeepsInv'
<1>1. /\ UNCHANGED <<active, turn, history, sent, dropped>>
      /\ pc[t] = "loop" /\ pc' = [pc EXCEPT ![t] = "record"]
      /\ \A q \in Procs \ {t} : loc'[q] = loc[q]
      /\ \A r \in TStates : pending'[r] \in {pending[r], {}}
  BY KeepTypes DEF DrainPending, GetPendingInput, Step
<1>2. \A q \in Procs : loc'[q].ts = loc[q].ts
  BY KeepTypes DEF DrainPending, GetPendingInput, Step, Locals
<1>3. pc[t] \notin FinishPCs /\ loc[t].items = {} /\ "record" \in PCs /\ "record" \notin FinishPCs
  BY <1>1, KeepTypes DEF PCs, BodyPCs, FinishPCs, KeepsInv, Empty
<1>4. HoldsState' /\ HoldsAlone'
  BY <1>1, <1>2, <1>3, TaskHolds
<1>5. Empty'
  BY <1>1, <1>3, TaskEmpties
<1>6. Kept'
  <2>1. CASE ~turn[t].drain \/ ~AcceptsMail
    <3>1. UNCHANGED <<mailbox, pending>>
      BY <2>1 DEF DrainPending, GetPendingInput
    <3>2. \A q \in Procs : loc[q].items \subseteq loc'[q].items
      BY <1>1, <1>3
    <3>3. \A r \in TStates : InUse(r) => r = active'.ts \/ \E q \in Procs : loc'[q].ts = r
      BY <1>1, <1>2 DEF InUse
    <3> QED  BY <1>1, <3>1, <3>2, <3>3, KeptStill DEF KeepsInv
  <2>2. CASE turn[t].drain /\ AcceptsMail
    <3>1. /\ loc'[t].items = PendingInput /\ t \in Procs
          /\ pending' = IF active.ts # None THEN [pending EXCEPT ![active.ts] = {}] ELSE pending
      BY <2>2, KeepTypes DEF DrainPending, GetPendingInput, Locals
    <3>2. mailbox \subseteq PendingInput /\ (active.ts # None => pending[active.ts] \subseteq PendingInput)
      BY <2>2 DEF PendingInput
    <3>3. \A x \in PendingInput : Held(x)'
      BY <3>1, HeldNext
    <3>4. ASSUME NEW r \in TStates, InUse(r), NEW x \in pending[r]
          PROVE  Held(x)'
      <4>1. CASE r = active.ts
        BY <3>2, <3>3, <3>4, <4>1, KeepTypes
      <4>2. CASE r # active.ts
        BY <1>1, <1>2, <3>1, <3>4, <4>2, HeldNext, KeepTypes DEF InUse
      <4> QED  BY <4>1, <4>2
    <3>5. /\ \A q \in Procs : \A x \in loc[q].items : Held(x)'
          /\ \A u \in Turns : \A x \in turn[u].input : Held(x)'
          /\ \A x \in mailbox : Held(x)'
      BY <1>1, <1>3, <3>2, <3>3, HeldNext
    <3> QED  BY <1>1, <3>4, <3>5, KeptStep DEF KeepsInv
  <2> QED  BY <2>1, <2>2
<1> QED  BY <1>4, <1>5, <1>6 DEF KeepsInv

\* What was drained is recorded or discarded.
LEMMA RecordKeeps ==
    ASSUME Serial, TurnInv, SerialInv, KeepsInv, NEW t \in Turns, RecordPending(t)
    PROVE  KeepsInv'
<1>1. /\ UNCHANGED <<active, pending, mailbox, turn, sent>>
      /\ pc[t] = "record" /\ \A q \in Procs \ {t} : loc'[q] = loc[q]
      /\ loc'[t].items = {}
  BY KeepTypes DEF RecordPending, Locals
<1>2. \A q \in Procs : loc'[q].ts = loc[q].ts
  BY KeepTypes DEF RecordPending, Locals
<1>3. /\ history \subseteq history' /\ dropped \subseteq dropped'
      /\ loc[t].items \subseteq history' \cup dropped'
      /\ \E n \in {"sample", "ret"} : pc' = [pc EXCEPT ![t] = n]
  BY RecordsAll DEF RecordPending
<1>4. PICK n \in PCs \ FinishPCs : n # "unborn" /\ pc' = [pc EXCEPT ![t] = n]
  BY <1>3 DEF PCs, BodyPCs, FinishPCs
<1>5. pc[t] \notin FinishPCs
  BY <1>1 DEF FinishPCs
<1>6. HoldsState' /\ HoldsAlone'
  BY <1>1, <1>2, <1>4, <1>5, TaskHolds
<1>7. Empty'
  BY <1>1, <1>4, TaskEmpties DEF FinishPCs
<1>8. Kept'
  <2>1. \A q \in Procs : \A x \in loc[q].items : Held(x)'
    BY <1>1, <1>3, HeldNext
  <2>2. /\ \A x \in mailbox : Held(x)'
        /\ \A u \in Turns : \A x \in turn[u].input : Held(x)'
        /\ \A r \in TStates : InUse(r) => \A x \in pending[r] : Held(x)'
    BY <1>1, <1>2, HeldNext DEF InUse
  <2> QED  BY <1>1, <1>3, <2>1, <2>2, KeptStep DEF KeepsInv
<1> QED  BY <1>6, <1>7, <1>8 DEF KeepsInv
(***************************************************************************)
(* The end of a task.                                                      *)
(***************************************************************************)

\* on_task_finished takes over the turn state of the slot.
LEMMA FinishKeeps ==
    ASSUME Serial, TurnInv, SerialInv, KeepsInv, NEW t \in Turns, FinishTake(t)
    PROVE  KeepsInv'
<1>0. /\ UNCHANGED <<pending, mailbox, turn, history, sent, dropped>> /\ pc[t] = "finish"
      /\ loc[t].items = {} /\ pc[t] \notin FinishPCs
  BY KeepTypes DEF FinishTake, KeepsInv, Empty, FinishPCs
<1>1. CASE ~HasTask
  <2>1. pc' = [pc EXCEPT ![t] = "done"] /\ active' = active /\ loc' = loc
    BY <1>1 DEF FinishTake, Step
  <2>2. "done" \in PCs \ FinishPCs
    BY DEF PCs, FinishPCs
  <2>3. HoldsState' /\ HoldsAlone'
    BY <1>0, <2>1, <2>2, TaskHolds
  <2>4. Empty'
    BY <1>0, <2>1, <2>2, TaskEmpties
  <2>5. Kept'
    BY <1>0, <2>1, KeptStill DEF KeepsInv, InUse
  <2> QED  BY <2>3, <2>4, <2>5 DEF KeepsInv
<1>2. CASE HasTask
  <2>1. /\ pc' = [pc EXCEPT ![t] = "settle"] /\ active' = [active EXCEPT !.task = None]
        /\ loc' = [loc EXCEPT ![t].ts = active.ts]
    BY <1>2 DEF FinishTake, Step
  <2>2. /\ active'.ts = active.ts /\ active'.task = None /\ active.ts \in TStates
        /\ loc'[t].ts = active.ts /\ loc'[t].items = loc[t].items
        /\ \A q \in Procs \ {t} : loc'[q] = loc[q] /\ pc'[q] = pc[q]
        /\ pc'[t] = "settle" /\ loc'[Loop] = loc[Loop] /\ pc'[Loop] = pc[Loop]
    BY <1>2, <2>1, KeepTypes DEF Locals, HasTask
  <2>3. pc[Loop] \notin Charged /\ pc[Loop] \notin Filling
    BY <1>2 DEF HasTask, SerialInv, Charge
  <2>4. HoldsState'
    BY <2>2, <2>3, KeepTypes DEF KeepsInv, HoldsState, FinishPCs
  <2>5. HoldsAlone'
    <3>1. \A u \in Turns : pc[u] \in FinishPCs => loc[u].ts # active.ts
      BY <1>2 DEF HasTask, KeepsInv, HoldsAlone
    <3>2. \A u \in Turns \ {t} : pc'[u] = pc[u] /\ loc'[u].ts = loc[u].ts
      BY <2>2, KeepTypes
    <3> QED  BY <2>2, <2>3, <3>1, <3>2, KeepTypes DEF KeepsInv, HoldsAlone, FinishPCs
  <2>6. Empty'
    BY <1>0, <2>2, <2>3, KeepTypes DEF KeepsInv, Empty, FinishPCs, Filling
  <2>7. Kept'
    <3>1. loc[t].ts = None /\ \A q \in Procs : loc[q].items \subseteq loc'[q].items
      BY <1>0, <2>2 DEF KeepsInv, HoldsState
    <3>2. \A r \in TStates : InUse(r) => r = active'.ts \/ \E q \in Procs : loc'[q].ts = r
      BY <2>2, <3>1, KeepTypes DEF InUse
    <3> QED  BY <1>0, <3>1, <3>2, KeptStill DEF KeepsInv
  <2> QED  BY <2>4, <2>5, <2>6, <2>7 DEF KeepsInv
<1> QED  BY <1>1, <1>2

\* A finishing turn goes on, with its turn state.
LEMMA FinishHolds ==
    ASSUME Serial, TurnInv, SerialInv, KeepsInv, NEW t \in Turns, NEW n \in FinishPCs,
           pc[t] \in FinishPCs, pc' = [pc EXCEPT ![t] = n], UNCHANGED <<active, loc>>
    PROVE  HoldsState' /\ HoldsAlone'
<1>0. pc'[Loop] = pc[Loop] /\ \A u \in Turns : pc'[u] \in FinishPCs <=> pc[u] \in FinishPCs
  BY KeepTypes
<1>1. HoldsState'
  BY <1>0, KeepTypes DEF KeepsInv, HoldsState
<1>2. HoldsAlone'
  BY <1>0, KeepTypes DEF KeepsInv, HoldsAlone
<1> QED  BY <1>1, <1>2

\* The input that is left over is recorded or discarded; then the terminal
\* event is sent.
LEMMA SettleKeeps ==
    ASSUME Serial, TurnInv, SerialInv, KeepsInv, NEW t \in Turns, SettlePending(t) \/ EmitTerminal(t)
    PROVE  KeepsInv'
<1>0. UNCHANGED <<active, mailbox, loc, turn, sent>> /\ pc[t] \in {"settle", "terminal"}
  BY DEF SettlePending, EmitTerminal
<1>1. /\ history \subseteq history' /\ dropped \subseteq dropped'
      /\ \E n \in {"terminal", "release"} : pc' = [pc EXCEPT ![t] = n]
  <2>1. CASE SettlePending(t)
    BY <2>1, RecordsAll DEF SettlePending
  <2>2. CASE EmitTerminal(t)
    BY <2>2 DEF EmitTerminal, Step
  <2> QED  BY <2>1, <2>2
<1>2. PICK s \in TStates : s = loc[t].ts
  BY <1>0 DEF KeepsInv, HoldsState, FinishPCs
<1>3. pending'[s] = {} /\ \A r \in TStates \ {s} : pending'[r] = pending[r]
  <2>1. CASE SettlePending(t)
    BY <1>2, <2>1, KeepTypes DEF SettlePending
  <2>2. CASE EmitTerminal(t)
    BY <1>2, <2>2 DEF EmitTerminal, KeepsInv, Empty
  <2> QED  BY <2>1, <2>2
<1>4. pending[s] \subseteq history' \cup dropped'
  <2>1. CASE SettlePending(t)
    BY <1>2, <2>1, RecordsAll DEF SettlePending
  <2>2. CASE EmitTerminal(t)
    BY <1>2, <2>2 DEF EmitTerminal, KeepsInv, Empty
  <2> QED  BY <2>1, <2>2
<1>5. HoldsState' /\ HoldsAlone'
  BY <1>0, <1>1, FinishHolds DEF FinishPCs
<1>6. Empty'
  <2>0. PICK n \in {"terminal", "release"} : pc' = [pc EXCEPT ![t] = n]
    BY <1>1
  <2>1. pc'[Loop] = pc[Loop] /\ \A u \in Turns \ {t} : pc'[u] = pc[u]
    BY <2>0, KeepTypes
  <2>2. \A p \in Procs : pc'[p] \notin {"attach", "record"} => loc'[p].items = {}
    BY <1>0, <2>0, <2>1, KeepTypes DEF KeepsInv, Empty
  <2>3. \A u \in Turns : pc'[u] = "unborn" => turn'[u].input = {}
    BY <1>0, <2>0, <2>1, KeepTypes DEF KeepsInv, Empty
  <2>4. ASSUME NEW u \in Turns, pc'[u] \in {"terminal", "release"}
        PROVE  pending'[loc'[u].ts] = {}
    <3>1. CASE u = t
      BY <1>0, <1>2, <1>3, <3>1
    <3>2. CASE u # t
      <4>1. pending[loc[u].ts] = {} /\ loc[u].ts \in TStates
        BY <2>1, <2>4, <3>2 DEF KeepsInv, Empty, HoldsState, FinishPCs
      <4> QED  BY <1>0, <1>3, <4>1
    <3> QED  BY <3>1, <3>2
  <2>5. pc'[Loop] \in {"recheck", "prepare"} => pending'[active'.ts] = {}
    BY <1>0, <1>3, <2>1 DEF KeepsInv, Empty, HoldsState
  <2> QED  BY <2>2, <2>3, <2>4, <2>5 DEF Empty
<1>7. Kept'
  <2>1. ASSUME NEW r \in TStates, InUse(r), NEW x \in pending[r]
        PROVE  Held(x)'
    <3>1. CASE r = s
      BY <1>4, <2>1, <3>1, HeldNext
    <3>2. CASE r # s
      BY <1>0, <1>3, <2>1, <3>2, HeldNext DEF InUse
    <3> QED  BY <3>1, <3>2
  <2>2. /\ \A x \in mailbox : Held(x)'
        /\ \A q \in Procs : \A x \in loc[q].items : Held(x)'
        /\ \A u \in Turns : \A x \in turn[u].input : Held(x)'
    BY <1>0, HeldNext
  <2> QED  BY <1>0, <1>1, <2>1, <2>2, KeptStep DEF KeepsInv
<1> QED  BY <1>5, <1>6, <1>7 DEF KeepsInv

\* A turn that released its slot looks for work and finds none.
LEMMA WakeKeeps ==
    ASSUME Serial, TurnInv, SerialInv, KeepsInv, NEW t \in Turns, CheckWork(t)
    PROVE  KeepsInv'
<1>1. /\ UNCHANGED <<active, pending, mailbox, turn, history, sent, dropped>>
      /\ pc[t] = "wake" /\ pc' = [pc EXCEPT ![t] = "done"]
      /\ loc' = [loc EXCEPT ![t] = Blank]
  BY SerialWorld DEF CheckWork, Return, Home
<1>2. loc[t].ts = None /\ loc[t].items = {} /\ pc[t] \notin FinishPCs
  BY <1>1, KeepTypes DEF KeepsInv, HoldsState, Empty, FinishPCs
<1>3. /\ \A q \in Procs : loc'[q].ts = loc[q].ts /\ loc'[q].items = loc[q].items
      /\ \A q \in Procs \ {t} : loc'[q] = loc[q]
  BY <1>1, <1>2, KeepTypes, BlankFields
<1>4. "done" \in PCs \ FinishPCs
  BY DEF PCs, FinishPCs
<1>5. HoldsState' /\ HoldsAlone'
  BY <1>1, <1>2, <1>3, <1>4, TaskHolds
<1>6. Empty'
  BY <1>1, <1>2, <1>3, <1>4, KeepTypes, TaskEmpties
<1>7. Kept'
  BY <1>1, <1>3, KeptStill DEF KeepsInv, InUse
<1> QED  BY <1>5, <1>6, <1>7 DEF KeepsInv

\* A turn gives its empty turn state back.
LEMMA ReleaseKeeps ==
    ASSUME Serial, TurnInv, SerialInv, KeepsInv, NEW t \in Turns, ReleaseSlot(t)
    PROVE  KeepsInv'
<1>1. /\ UNCHANGED <<pending, mailbox, turn, history, sent, dropped>>
      /\ pc[t] = "release" /\ loc' = [loc EXCEPT ![t] = Blank]
      /\ active' = IF active = [ts |-> loc[t].ts, task |-> None] THEN NoActive ELSE active
      /\ \E n \in {"wake", "done"} : pc' = [pc EXCEPT ![t] = n]
  BY DEF ReleaseSlot, ClearReserved, Step
<1>2. PICK s \in TStates : s = loc[t].ts /\ pending[s] = {}
  BY <1>1 DEF KeepsInv, HoldsState, Empty, FinishPCs
<1>3. PICK n \in {"wake", "done"} : pc' = [pc EXCEPT ![t] = n]
  BY <1>1
<1>4. /\ \A q \in Procs \ {t} : loc'[q] = loc[q] /\ pc'[q] = pc[q]
      /\ pc'[t] = n /\ loc'[t].ts = None /\ loc'[t].items = {}
      /\ loc'[Loop] = loc[Loop] /\ pc'[Loop] = pc[Loop]
      /\ \A u \in Turns \ {t} : loc'[u] = loc[u] /\ pc'[u] = pc[u]
  BY <1>1, <1>3, KeepTypes, BlankFields
<1>5. /\ active'.task = active.task
      /\ active'.ts = IF active.ts = s /\ active.task = None THEN None ELSE active.ts
  BY <1>1, <1>2, KeepTypes DEF NoActive
<1>6. active'.ts # active.ts => pc[Loop] \notin Filling /\ active.ts = s /\ active.task = None
  BY <1>1, <1>2, <1>5 DEF KeepsInv, HoldsAlone, FinishPCs
<1>7. HoldsState'
  BY <1>3, <1>4, <1>5, <1>6, KeepTypes DEF KeepsInv, HoldsState, FinishPCs, Filling
<1>8. HoldsAlone'
  <2>1. \A u \in Turns : pc'[u] \in FinishPCs => u # t /\ pc[u] \in FinishPCs /\ loc'[u] = loc[u]
    BY <1>3, <1>4 DEF FinishPCs
  <2>2. active'.ts # None /\ active'.task = None =>
          \/ pc'[Loop] \in Filling
          \/ \E u \in Turns : pc'[u] \in FinishPCs /\ loc'[u].ts = active'.ts
    BY <1>2, <1>4, <1>5 DEF KeepsInv, HoldsAlone
  <2>3. active'.task # None \/ pc'[Loop] \in Filling =>
          \A u \in Turns : pc'[u] \in FinishPCs => loc'[u].ts # active'.ts
    BY <2>1, <1>4, <1>5, <1>6 DEF KeepsInv, HoldsAlone
  <2> QED  BY <2>1, <2>2, <2>3, <1>4 DEF KeepsInv, HoldsAlone
<1>9. Empty'
  <2>1. \A p \in Procs : pc'[p] \notin {"attach", "record"} => loc'[p].items = {}
    BY <1>4 DEF KeepsInv, Empty
  <2>2. \A u \in Turns : pc'[u] = "unborn" => turn'[u].input = {}
    BY <1>1, <1>3, <1>4 DEF KeepsInv, Empty
  <2>3. \A u \in Turns : pc'[u] \in {"terminal", "release"} => pending'[loc'[u].ts] = {}
    BY <1>1, <1>3, <1>4 DEF KeepsInv, Empty
  <2>4. pc'[Loop] \in {"recheck", "prepare"} => pending'[active'.ts] = {}
    BY <1>1, <1>4, <1>6 DEF KeepsInv, Empty, Filling
  <2> QED  BY <2>1, <2>2, <2>3, <2>4 DEF Empty
<1>10. Kept'
  <2>1. ASSUME NEW r \in TStates, InUse(r), pending[r] # {}
        PROVE  r = active'.ts \/ \E q \in Procs : loc'[q].ts = r
    BY <1>2, <1>4, <1>5, <2>1 DEF InUse
  <2>2. \A q \in Procs : loc[q].items \subseteq loc'[q].items
    BY <1>1, <1>4 DEF KeepsInv, Empty
  <2> QED  BY <1>1, <2>1, <2>2, KeptStill DEF KeepsInv
<1> QED  BY <1>7, <1>8, <1>9, <1>10 DEF KeepsInv
(***************************************************************************)
(* The steps of the loop.                                                  *)
(***************************************************************************)

\* The loop, outside of an abort and of a start, moves or creates a turn.
LEMMA LoopHolds ==
    ASSUME Serial, TurnInv, SerialInv, KeepsInv, NEW n \in {"idle", "exited", "take"},
           pc[Loop] \in {"idle", "wake"}, pc'[Loop] = n,
           \A t \in Turns : pc'[t] = pc[t] \/ (pc[t] = "unborn" /\ pc'[t] = "created"),
           \A t \in Turns : loc'[t] = loc[t],
           loc'[Loop].ts = None, active' = active
    PROVE  HoldsState' /\ HoldsAlone'
<1>0. \A t \in Turns : pc'[t] \in FinishPCs <=> pc[t] \in FinishPCs
  BY DEF FinishPCs
<1>1. HoldsState'
  BY <1>0 DEF KeepsInv, HoldsState, Filling, Charged
<1>2. HoldsAlone'
  BY <1>0 DEF KeepsInv, HoldsAlone, Filling, Charged
<1> QED  BY <1>1, <1>2

\* Operations that change no turn state.
LEMMA IdleKeeps ==
    ASSUME Serial, TurnInv, SerialInv, KeepsInv,
           \/ \E reason \in AbortOps \ {"Suspend"} : AbortAll(reason)
           \/ \E m \in Mails : Communicate(m)
           \/ CheckWork(Loop)
           \/ \E t \in Turns, kind \in OtherKinds : StartOther(kind, t)
           \/ \E t \in Turns, u \in UserInputs : StartTurn(Loop, u, t)
    PROVE  KeepsInv'
<1>1. /\ UNCHANGED <<active, pending, history, dropped>>
      /\ pc[Loop] \in {"idle", "wake"} /\ pc'[Loop] \in {"idle", "exited", "take"}
  BY KeepTypes, SerialWorld
     DEF AbortAll, Communicate, CheckWork, Return, Home, StartOther, StartTurn, Serial
<1>2. \A t \in Turns : /\ pc'[t] = pc[t] \/ (pc[t] = "unborn" /\ pc'[t] = "created")
                       /\ loc'[t] = loc[t]
  <2>1. CASE (\E t \in Turns, kind \in OtherKinds : StartOther(kind, t))
             \/ (\E t \in Turns, u \in UserInputs : StartTurn(Loop, u, t))
    <3>1. PICK t \in Turns : /\ \E k, i : NewTurn(t, k, i)
                             /\ pc' = [pc EXCEPT ![Loop] = "take", ![t] = "created"]
                             /\ \A q \in Procs \ {Loop} : loc'[q] = loc[q]
      BY <2>1, KeepTypes DEF StartOther, StartTurn
    <3>2. pc[t] = "unborn"
      BY <3>1, NewTurnUnborn
    <3> QED  BY <3>1, <3>2, KeepTypes
  <2>2. CASE (\E reason \in AbortOps \ {"Suspend"} : AbortAll(reason))
             \/ (\E m \in Mails : Communicate(m)) \/ CheckWork(Loop)
    BY <2>2, KeepTypes DEF AbortAll, Communicate, CheckWork, Return
  <2> QED  BY <2>1, <2>2
<1>3. loc'[Loop].ts = None /\ loc'[Loop].items = {}
  <2>1. CASE (\E m \in Mails : Communicate(m)) \/ CheckWork(Loop)
    BY <2>1, KeepTypes, BlankFields, SerialWorld DEF Communicate, CheckWork, Return
  <2>2. CASE \E reason \in AbortOps \ {"Suspend"} : AbortAll(reason)
    BY <2>2, KeepTypes DEF AbortAll, Blank
  <2>3. CASE \E t \in Turns, kind \in OtherKinds : StartOther(kind, t)
    <3>1. PICK t, b : /\ b = [Blank EXCEPT !.new = t, !.reason = "Replaced"]
                      /\ loc' = [loc EXCEPT ![Loop] = b]
      BY <2>3 DEF StartOther
    <3>2. b.ts = None /\ b.items = {}
      BY <3>1 DEF Blank
    <3> QED  BY <3>1, <3>2, KeepTypes
  <2>4. CASE \E t \in Turns, u \in UserInputs : StartTurn(Loop, u, t)
    <3>1. PICK t, b : /\ b = [Blank EXCEPT !.new = t, !.reason = "Replaced"]
                      /\ loc' = [loc EXCEPT ![Loop] = b]
      BY <2>4 DEF StartTurn
    <3>2. b.ts = None /\ b.items = {}
      BY <3>1 DEF Blank
    <3> QED  BY <3>1, <3>2, KeepTypes
  <2> QED  BY <2>1, <2>2, <2>3, <2>4
<1>4. loc[Loop].ts = None /\ loc[Loop].items = {}
  BY <1>1, KeepTypes DEF KeepsInv, HoldsState, Empty
<1>5. \A t \in Turns : /\ turn[t].input \subseteq turn'[t].input
                       /\ pc'[t] = "unborn" => turn'[t].input = {}
  <2>1. CASE (\E t \in Turns, kind \in OtherKinds : StartOther(kind, t))
             \/ (\E t \in Turns, u \in UserInputs : StartTurn(Loop, u, t))
    <3>1. PICK t \in Turns : /\ \E k, i : NewTurn(t, k, i)
                             /\ pc' = [pc EXCEPT ![Loop] = "take", ![t] = "created"]
      BY <2>1 DEF StartOther, StartTurn
    <3>2. pc[t] = "unborn"
      BY <3>1, NewTurnUnborn
    <3>3. turn[t].input = {} /\ pc'[t] = "created"
          /\ \A u \in Turns \ {t} : turn'[u] = turn[u] /\ pc'[u] = pc[u]
      BY <3>1, <3>2, KeepTypes DEF NewTurn, KeepsInv, Empty
    <3> QED  BY <3>3 DEF KeepsInv, Empty
  <2>2. CASE (\E reason \in AbortOps \ {"Suspend"} : AbortAll(reason))
             \/ (\E m \in Mails : Communicate(m)) \/ CheckWork(Loop)
    BY <2>2, <1>2 DEF AbortAll, Communicate, CheckWork, KeepsInv, Empty
  <2> QED  BY <2>1, <2>2
<1>6. HoldsState' /\ HoldsAlone'
  BY <1>1, <1>2, <1>3, LoopHolds
<1>7. Empty'
  BY <1>1, <1>2, <1>3, <1>5, KeepTypes DEF KeepsInv, Empty
<1>8. Kept'
  <2>1. mailbox \subseteq mailbox'
    BY DEF AbortAll, Communicate, CheckWork, StartOther, StartTurn
  <2>2. /\ \A x \in mailbox : Held(x)'
        /\ \A q \in Procs : \A x \in loc[q].items : Held(x)'
        /\ \A t \in Turns : \A x \in turn[t].input : Held(x)'
    BY <1>2, <1>4, <1>5, <2>1, HeldNext, KeepTypes
  <2>3. \A r \in TStates : InUse(r) => \A x \in pending[r] : Held(x)'
    BY <1>1, <1>2, <1>4, HeldNext, KeepTypes DEF InUse
  <2>4. \A x \in sent' \ sent : Held(x)'
    <3>1. CASE (\E reason \in AbortOps \ {"Suspend"} : AbortAll(reason)) \/ CheckWork(Loop)
               \/ (\E t \in Turns, kind \in OtherKinds : StartOther(kind, t))
      BY <3>1 DEF AbortAll, CheckWork, StartOther
    <3>2. CASE \E m \in Mails : Communicate(m)
      BY <3>2, HeldNext DEF Communicate
    <3>3. CASE \E t \in Turns, u \in UserInputs : StartTurn(Loop, u, t)
      <4>1. PICK t \in Turns, u \in UserInputs : StartTurn(Loop, u, t)
        BY <3>3
      <4>2. sent' = sent \cup {u} /\ u \in turn'[t].input
        BY <4>1, KeepTypes DEF StartTurn, NewTurn
      <4> QED  BY <4>2, HeldNext
    <3> QED  BY <3>1, <3>2, <3>3
  <2> QED  BY <1>1, <2>2, <2>3, <2>4, KeptStep DEF KeepsInv
<1> QED  BY <1>6, <1>7, <1>8 DEF KeepsInv

\* An input is steered into the turn state of the installed task.
LEMMA SteerKeeps ==
    ASSUME Serial, TurnInv, SerialInv, KeepsInv, NEW u \in UserInputs, Steer(Loop, u)
    PROVE  KeepsInv'
<1>1. /\ UNCHANGED <<active, mailbox, pc, loc, turn, history, dropped>> /\ sent' = sent \cup {u}
      /\ pc[Loop] = "idle" /\ active.task # None /\ active.ts \in TStates
      /\ pending' = [pending EXCEPT ![active.ts] = @ \cup {u}]
  BY KeepTypes DEF Steer, ExtendAndAccept, HasTask
<1>2. /\ pending'[active.ts] = pending[active.ts] \cup {u}
      /\ \A r \in TStates \ {active.ts} : pending'[r] = pending[r]
  BY <1>1, KeepTypes
<1>3. HoldsState' /\ HoldsAlone'
  BY <1>1 DEF KeepsInv, HoldsState, HoldsAlone
<1>4. Empty'
  <2>1. ASSUME NEW t \in Turns, pc[t] \in {"terminal", "release"}
        PROVE  pending'[loc[t].ts] = {}
    BY <1>1, <1>2, <2>1 DEF KeepsInv, Empty, HoldsAlone, HoldsState, FinishPCs
  <2> QED  BY <1>1, <2>1 DEF KeepsInv, Empty
<1>5. Kept'
  <2>1. \A r \in TStates : InUse(r) => \A x \in pending[r] : Held(x)'
    BY <1>1, <1>2, HeldNext DEF InUse
  <2>2. \A x \in sent' \ sent : Held(x)'
    BY <1>1, <1>2, HeldNext
  <2>3. /\ \A x \in mailbox : Held(x)'
        /\ \A q \in Procs : \A x \in loc[q].items : Held(x)'
        /\ \A t \in Turns : \A x \in turn[t].input : Held(x)'
    BY <1>1, HeldNext
  <2> QED  BY <1>1, <2>1, <2>2, <2>3, KeptStep DEF KeepsInv
<1> QED  BY <1>3, <1>4, <1>5 DEF KeepsInv
\* start_if_idle reserves the empty slot.
LEMMA ReserveKeeps ==
    ASSUME Serial, TurnInv, SerialInv, KeepsInv, ReserveIdle
    PROVE  KeepsInv'
<1>1. PICK s \in TStates : s = FreshState /\ s \in FreeStates
  BY FreshStateIn DEF ReserveIdle, Reserve, FreshState
<1>2. /\ UNCHANGED <<mailbox, turn, history, sent, dropped>>
      /\ pc[Loop] = "idle" /\ active.ts = None /\ active' = [ts |-> s, task |-> None]
      /\ pc' = [pc EXCEPT ![Loop] = "recheck"]
      /\ pending' = [pending EXCEPT ![s] = {}]
      /\ loc' = [loc EXCEPT ![Loop] = [Blank EXCEPT !.ts = s]]
  BY <1>1 DEF ReserveIdle, Reserve
<1>3. /\ pc'[Loop] = "recheck" /\ loc'[Loop].ts = s /\ loc'[Loop].items = {}
      /\ active'.ts = s /\ active'.task = None
      /\ \A t \in Turns : pc'[t] = pc[t] /\ loc'[t] = loc[t]
  BY <1>2, KeepTypes DEF Blank
<1>4. \A p \in Procs : loc[p].ts # s
  BY <1>1 DEF FreeStates
<1>5. HoldsState'
  BY <1>3 DEF KeepsInv, HoldsState, Filling, Charged
<1>6. HoldsAlone'
  BY <1>3, <1>4, KeepTypes DEF KeepsInv, HoldsAlone, Filling, Charged
<1>7. Empty'
  <2>1. pending'[s] = {} /\ \A r \in TStates \ {s} : pending'[r] = pending[r]
    BY <1>2, KeepTypes
  <2>2. \A t \in Turns : pc'[t] \in {"terminal", "release"} => pending'[loc'[t].ts] = {}
    BY <1>3, <1>4, <2>1, KeepTypes DEF KeepsInv, Empty, HoldsState, FinishPCs
  <2> QED  BY <1>2, <1>3, <2>1, <2>2, KeepTypes DEF KeepsInv, Empty
<1>8. Kept'
  <2>1. \A r \in TStates : InUse(r) => r # s /\ \E q \in Turns : loc[q].ts = r
    BY <1>2, <1>4, KeepTypes DEF InUse, KeepsInv, HoldsState
  <2>2. \A q \in Procs : loc[q].items \subseteq loc'[q].items
    BY <1>2, <1>3, KeepTypes DEF KeepsInv, Empty
  <2>3. \A r \in TStates : InUse(r) =>
           /\ pending[r] \subseteq pending'[r]
           /\ r = active'.ts \/ \E q \in Procs : loc'[q].ts = r
    BY <1>2, <1>3, <2>1, KeepTypes
  <2> QED  BY <1>2, <2>2, <2>3, KeptStill DEF KeepsInv
<1> QED  BY <1>5, <1>6, <1>7, <1>8 DEF KeepsInv

\* The loop goes on filling the slot.
LEMMA FillHolds ==
    ASSUME Serial, TurnInv, SerialInv, KeepsInv, NEW n \in Filling,
           pc[Loop] \in Filling, pc'[Loop] = n, n \in {"recheck", "prepare"} => pc[Loop] = "recheck",
           \A t \in Turns : pc'[t] = pc[t] \/ (pc[t] = "unborn" /\ pc'[t] = "created"),
           \A t \in Turns : loc'[t] = loc[t],
           loc'[Loop].ts = loc[Loop].ts, active' = active
    PROVE  HoldsState' /\ HoldsAlone'
<1>0. \A t \in Turns : pc'[t] \in FinishPCs <=> pc[t] \in FinishPCs
  BY DEF FinishPCs
<1>1. HoldsState'
  BY <1>0 DEF KeepsInv, HoldsState, Filling, Charged
<1>2. HoldsAlone'
  BY <1>0 DEF KeepsInv, HoldsAlone, Filling, Charged
<1> QED  BY <1>1, <1>2

\* The second look at the mailbox finds nothing that asks for a turn.
LEMMA RecheckKeeps ==
    ASSUME Serial, TurnInv, SerialInv, KeepsInv, RecheckIdle
    PROVE  KeepsInv'
<1>1. /\ UNCHANGED <<active, loc, pending, mailbox, turn, history, sent, dropped>>
      /\ pc[Loop] = "recheck" /\ pc' = [pc EXCEPT ![Loop] = "prepare"]
  BY SerialWorld DEF RecheckIdle
<1>2. pc'[Loop] = "prepare" /\ \A t \in Turns : pc'[t] = pc[t]
  BY <1>1, KeepTypes
<1>3. HoldsState' /\ HoldsAlone'
  BY <1>1, <1>2, FillHolds DEF Filling
<1>4. Empty'
  BY <1>1, <1>2, KeepTypes DEF KeepsInv, Empty
<1>5. Kept'
  BY <1>1, KeptStill DEF KeepsInv, InUse
<1> QED  BY <1>3, <1>4, <1>5 DEF KeepsInv

\* A refused start gives back a turn state without items.
LEMMA RefuseKeeps ==
    ASSUME Serial, TurnInv, SerialInv, KeepsInv, RefuseIdle
    PROVE  KeepsInv'
<1>0. /\ pc[Loop] = "prepare" /\ loc[Loop].ts = active.ts /\ active.task = None
      /\ active.ts \in TStates /\ pending[active.ts] = {}
      /\ \A t \in Turns : pc[t] \in FinishPCs => loc[t].ts # active.ts
  BY DEF RefuseIdle, SerialInv, Charge, KeepsInv, HoldsState, HoldsAlone, Empty, Filling
<1>1. /\ UNCHANGED <<pending, mailbox, turn, history, sent, dropped>>
      /\ pc' = [pc EXCEPT ![Loop] = "idle"] /\ loc' = [loc EXCEPT ![Loop] = Blank]
      /\ active' = NoActive
  BY <1>0, KeepTypes DEF RefuseIdle, ClearReserved
<1>2. /\ pc'[Loop] = "idle" /\ loc'[Loop].ts = None /\ loc'[Loop].items = {}
      /\ active'.ts = None /\ active'.task = None
      /\ \A t \in Turns : pc'[t] = pc[t] /\ loc'[t] = loc[t]
  BY <1>1, KeepTypes DEF Blank, NoActive
<1>3. HoldsState'
  BY <1>2 DEF KeepsInv, HoldsState, Filling, Charged
<1>4. HoldsAlone'
  BY <1>2 DEF KeepsInv, HoldsAlone, Filling, Charged
<1>5. Empty'
  BY <1>1, <1>2, KeepTypes DEF KeepsInv, Empty
<1>6. Kept'
  <2>1. \A r \in TStates : InUse(r) => pending[r] = {} \/ \E q \in Procs : loc'[q].ts = r
    BY <1>0, <1>2, KeepTypes DEF InUse
  <2>2. \A q \in Procs : loc[q].items \subseteq loc'[q].items
    BY <1>0, <1>2, KeepTypes DEF KeepsInv, Empty
  <2> QED  BY <1>1, <2>1, <2>2, KeptStill DEF KeepsInv
<1> QED  BY <1>3, <1>4, <1>5, <1>6 DEF KeepsInv

\* The input of an idle start goes to the task or into the reserved state.
LEMMA AcceptKeeps ==
    ASSUME Serial, TurnInv, SerialInv, KeepsInv, NEW u \in UserInputs,
           NEW kind \in IdleStarts, NEW t \in Turns, AcceptIdle(u, kind, t)
    PROVE  KeepsInv'
<1>0. /\ pc[Loop] = "prepare" /\ loc[Loop].ts = active.ts
      /\ active.ts \in TStates /\ pending[active.ts] = {} /\ loc[Loop].items = {}
      /\ \A q \in Turns : pc[q] \in FinishPCs => loc[q].ts # active.ts
  BY KeepTypes DEF AcceptIdle, KeepsInv, HoldsState, HoldsAlone, Empty, Filling
<1>1. /\ UNCHANGED <<active, mailbox, history, dropped>>
      /\ pc' = [pc EXCEPT ![Loop] = "drain", ![t] = "created"]
      /\ loc' = [loc EXCEPT ![Loop].new = t]
      /\ pc[t] = "unborn"
  BY NewTurnUnborn DEF AcceptIdle
<1>2. /\ pc'[Loop] = "drain" /\ loc'[Loop].ts = active.ts /\ loc'[Loop].items = {}
      /\ \A q \in Turns : loc'[q] = loc[q] /\ (q # t => pc'[q] = pc[q])
      /\ pc'[t] = "created"
  BY <1>0, <1>1, KeepTypes DEF Locals
<1>3. /\ turn[t].input = {} /\ \A q \in Turns \ {t} : turn'[q] = turn[q]
      /\ kind = "User" => turn'[t].input = {u}
  BY <1>1, KeepTypes DEF AcceptIdle, NewTurn, KeepsInv, Empty
<1>4. /\ \A r \in TStates \ {active.ts} : pending'[r] = pending[r]
      /\ kind = "Automatic" => u \in pending'[active.ts]
  BY <1>0, KeepTypes DEF AcceptIdle
<1>5. HoldsState' /\ HoldsAlone'
  BY <1>0, <1>1, <1>2, FillHolds DEF Filling
<1>6. Empty'
  <2>1. \A q \in Turns : pc'[q] \in {"terminal", "release"} => pending'[loc'[q].ts] = {}
    BY <1>0, <1>2, <1>4, KeepTypes DEF KeepsInv, Empty, HoldsState, FinishPCs
  <2>2. \A p \in Procs : pc'[p] \notin {"attach", "record"} => loc'[p].items = {}
    <3>1. \A q \in Turns : pc'[q] \notin {"attach", "record"} => loc[q].items = {}
      BY <1>1, <1>2, KeepTypes DEF KeepsInv, Empty
    <3> QED  BY <1>2, <3>1, KeepTypes
  <2>3. \A q \in Turns : pc'[q] = "unborn" => turn'[q].input = {}
    BY <1>2, <1>3 DEF KeepsInv, Empty
  <2> QED  BY <1>2, <2>1, <2>2, <2>3 DEF Empty
<1>7. Kept'
  <2>1. ASSUME NEW r \in TStates, InUse(r), NEW x \in pending[r]
        PROVE  Held(x)'
    <3>1. r # active.ts
      BY <1>0, <2>1
    <3>2. \E q \in Procs : loc'[q].ts = r
      BY <1>0, <1>2, <2>1, <3>1, KeepTypes DEF InUse
    <3> QED  BY <1>4, <2>1, <3>1, <3>2, HeldNext
  <2>2. /\ \A x \in mailbox : Held(x)'
        /\ \A q \in Procs : \A x \in loc[q].items : Held(x)'
        /\ \A q \in Turns : \A x \in turn[q].input : Held(x)'
    BY <1>0, <1>1, <1>2, <1>3, HeldNext, KeepTypes
  <2>3. \A x \in sent' \ sent : Held(x)'
    <3>1. CASE kind = "Recovery"
      BY <3>1 DEF AcceptIdle
    <3>2. CASE kind = "User"
      BY <1>3, <3>2, HeldNext DEF AcceptIdle
    <3>3. CASE kind = "Automatic"
      BY <1>0, <1>1, <1>4, <3>3, HeldNext DEF AcceptIdle
    <3>4. kind \in {"User", "Automatic", "Recovery"}
      BY ConstantsAssumption
    <3> QED  BY <3>1, <3>2, <3>3, <3>4
  <2> QED  BY <1>1, <2>1, <2>2, <2>3, KeptStep DEF KeepsInv
<1> QED  BY <1>5, <1>6, <1>7 DEF KeepsInv
\* start_task drains the mailbox.
LEMMA DrainMailboxKeeps ==
    ASSUME Serial, TurnInv, SerialInv, KeepsInv, DrainMailbox(Loop)
    PROVE  KeepsInv'
<1>1. /\ UNCHANGED <<active, pending, turn, history, sent, dropped>>
      /\ pc[Loop] = "drain" /\ pc' = [pc EXCEPT ![Loop] = "attach"]
      /\ loc' = [loc EXCEPT ![Loop].items = mailbox]
  BY DEF DrainMailbox
<1>2. /\ pc'[Loop] = "attach" /\ loc'[Loop].ts = loc[Loop].ts /\ loc'[Loop].items = mailbox
      /\ \A t \in Turns : pc'[t] = pc[t] /\ loc'[t] = loc[t]
  BY <1>1, KeepTypes DEF Locals
<1>3. HoldsState' /\ HoldsAlone'
  BY <1>1, <1>2, FillHolds DEF Filling
<1>4. Empty'
  BY <1>1, <1>2, KeepTypes DEF KeepsInv, Empty
<1>5. Kept'
  <2>1. loc[Loop].items = {}
    BY <1>1, KeepTypes DEF KeepsInv, Empty
  <2>2. /\ \A x \in mailbox : Held(x)'
        /\ \A q \in Procs : \A x \in loc[q].items : Held(x)'
        /\ \A q \in Turns : \A x \in turn[q].input : Held(x)'
    BY <1>1, <1>2, <2>1, HeldNext, KeepTypes
  <2>3. \A q \in Procs : loc'[q].ts = loc[q].ts
    BY <1>2, KeepTypes
  <2>4. \A r \in TStates : InUse(r) => \A x \in pending[r] : Held(x)'
    BY <1>1, <2>3, HeldNext DEF InUse
  <2> QED  BY <1>1, <2>2, <2>4, KeptStep DEF KeepsInv
<1> QED  BY <1>3, <1>4, <1>5 DEF KeepsInv

\* The turn state start_task finds in the slot or makes: no finishing turn has
\* it, and a new one is nobody's.
LEMMA SlotStateKeeps ==
    ASSUME Serial, TurnInv, SerialInv, KeepsInv, pc[Loop] \in {"attach", "install"}, CanFillSlot
    PROVE  /\ SlotState \in TStates /\ active.task = None
           /\ active.ts = None \/ active.ts = SlotState
           /\ active.ts = None => ~InUse(SlotState)
           /\ SlotPending = IF active.ts = None THEN {} ELSE pending[SlotState]
           /\ \A t \in Turns : pc[t] \in FinishPCs => loc[t].ts # SlotState
<1>1. active.task = None /\ \A t \in Turns : pc[t] \in FinishPCs => loc[t].ts # active.ts
  BY DEF SerialInv, Charge, KeepsInv, HoldsAlone, Filling
<1>2. CASE active.ts = None
  <2>1. SlotState = FreshState /\ FreshState \in FreeStates
    BY <1>2 DEF SlotState, CanFillSlot, FreshState
  <2> QED  BY <1>1, <1>2, <2>1, KeepTypes DEF FreeStates, InUse, SlotPending
<1>3. CASE active.ts # None
  BY <1>1, <1>3, KeepTypes DEF SlotState, SlotPending
<1> QED  BY <1>2, <1>3

\* start_task buffers the drained mail in the turn state of the slot.
LEMMA AttachKeeps ==
    ASSUME Serial, TurnInv, SerialInv, KeepsInv, AttachState(Loop)
    PROVE  KeepsInv'
<1>0. pc[Loop] = "attach" /\ CanFillSlot
  BY DEF AttachState
<1>1. PICK s \in TStates : /\ s = SlotState /\ active.task = None
                           /\ active.ts = None \/ active.ts = s
                           /\ active.ts = None => ~InUse(s)
                           /\ SlotPending = IF active.ts = None THEN {} ELSE pending[s]
                           /\ \A t \in Turns : pc[t] \in FinishPCs => loc[t].ts # s
  BY <1>0, SlotStateKeeps
<1>2. /\ UNCHANGED <<mailbox, turn, history, sent, dropped>>
      /\ pc' = [pc EXCEPT ![Loop] = "install"]
      /\ active' = [active EXCEPT !.ts = s]
      /\ loc' = [loc EXCEPT ![Loop].ts = s, ![Loop].items = {}]
      /\ pending' = [pending EXCEPT ![s] = SlotPending \cup loc[Loop].items]
  BY <1>1 DEF AttachState
<1>3. /\ pc'[Loop] = "install" /\ loc'[Loop].ts = s /\ loc'[Loop].items = {}
      /\ active'.ts = s /\ active'.task = None
      /\ \A t \in Turns : pc'[t] = pc[t] /\ loc'[t] = loc[t]
  BY <1>1, <1>2, KeepTypes DEF Locals
<1>4. /\ pending'[s] = SlotPending \cup loc[Loop].items
      /\ \A r \in TStates \ {s} : pending'[r] = pending[r]
  BY <1>2, KeepTypes
<1>5. HoldsState'
  BY <1>3 DEF KeepsInv, HoldsState, Filling, Charged
<1>6. HoldsAlone'
  BY <1>1, <1>3 DEF KeepsInv, HoldsAlone, Filling, Charged
<1>7. Empty'
  <2>1. \A t \in Turns : pc'[t] \in {"terminal", "release"} => pending'[loc'[t].ts] = {}
    BY <1>1, <1>3, <1>4 DEF KeepsInv, Empty, HoldsState, FinishPCs
  <2> QED  BY <1>2, <1>3, <2>1, KeepTypes DEF KeepsInv, Empty
<1>8. Kept'
  <2>1. \A x \in pending'[s] : Held(x)'
    BY <1>3, HeldNext
  <2>2. ASSUME NEW r \in TStates, InUse(r), NEW x \in pending[r]
        PROVE  Held(x)'
    <3>1. CASE r = s
      BY <1>1, <1>4, <2>1, <2>2, <3>1, KeepTypes
    <3>2. CASE r # s
      <4>1. loc[Loop].ts = active.ts
        BY <1>0 DEF KeepsInv, HoldsState, Filling
      <4>2. \E q \in Procs : loc'[q].ts = r
        BY <1>1, <1>3, <2>2, <3>2, <4>1, KeepTypes DEF InUse
      <4> QED  BY <1>4, <2>2, <3>2, <4>2, HeldNext
    <3> QED  BY <3>1, <3>2
  <2>3. /\ \A x \in mailbox : Held(x)'
        /\ \A q \in Procs : \A x \in loc[q].items : Held(x)'
        /\ \A q \in Turns : \A x \in turn[q].input : Held(x)'
    BY <1>2, <1>3, <1>4, <2>1, HeldNext, KeepTypes
  <2> QED  BY <1>2, <2>2, <2>3, KeptStep DEF KeepsInv
<1> QED  BY <1>5, <1>6, <1>7, <1>8 DEF KeepsInv

\* start_task installs the task in the slot.
LEMMA InstallKeeps ==
    ASSUME Serial, TurnInv, NewHeld, SerialInv, KeepsInv, InstallTask(Loop)
    PROVE  KeepsInv'
<1>0. pc[Loop] = "install" /\ CanFillSlot /\ loc[Loop].ts = active.ts
      /\ loc[Loop].items = {} /\ Loop \in Procs
  BY KeepTypes DEF InstallTask, KeepsInv, HoldsState, Empty, Filling
<1>1. PICK s \in TStates : /\ s = SlotState /\ active.task = None
                           /\ active.ts = None \/ active.ts = s
                           /\ active.ts = None => ~InUse(s)
                           /\ SlotPending = IF active.ts = None THEN {} ELSE pending[s]
                           /\ \A t \in Turns : pc[t] \in FinishPCs => loc[t].ts # s
  BY <1>0, SlotStateKeeps
<1>2. PICK t \in Turns : t = loc[Loop].new
  BY <1>0 DEF NewHeld, Starts
<1>3. pc[t] = "created"
  BY <1>0, <1>2, KeepTypes DEF TurnInv, StartingTurns
<1>4. PICK n \in {"idle", "exited"} : n = Home(Loop)
  BY SerialWorld DEF Home
<1>5. /\ UNCHANGED <<mailbox, history, sent, dropped>>
      /\ active' = [ts |-> s, task |-> t]
      /\ pending' = [pending EXCEPT ![s] = SlotPending]
      /\ pc' = [q \in Procs |-> CASE q = t -> "begin" [] q = Loop -> n
                                  [] q = None -> "done" [] OTHER -> pc[q]]
      /\ loc' = [q \in Procs |-> IF q \in {Loop, None} THEN Blank ELSE loc[q]]
      /\ turn' = [q \in Turns |-> IF q = None THEN [turn[q] EXCEPT !.input = {}] ELSE turn[q]]
  BY <1>1, <1>2, <1>4 DEF InstallTask
<1>6. \A q \in Procs : q # None
  BY ConstantsAssumption DEF Procs
<1>7. /\ pc'[t] = "begin" /\ pc'[Loop] = n /\ \A q \in Turns \ {t} : pc'[q] = pc[q]
      /\ loc'[Loop].ts = None /\ loc'[Loop].items = {} /\ \A q \in Turns : loc'[q] = loc[q]
      /\ \A q \in Turns : turn'[q] = turn[q]
      /\ active'.ts = s /\ active'.task = t
  BY <1>5, <1>6, KeepTypes, BlankFields
<1>8. /\ \A r \in TStates \ {s} : pending'[r] = pending[r]
      /\ pending'[s] = SlotPending
  BY <1>5, KeepTypes
<1>9. \A q \in Turns : pc'[q] \in FinishPCs <=> pc[q] \in FinishPCs
  BY <1>3, <1>7 DEF FinishPCs
<1>10. HoldsState'
  BY <1>7, <1>9 DEF KeepsInv, HoldsState, Filling, Charged
<1>11. HoldsAlone'
  BY <1>1, <1>7, <1>9, KeepTypes DEF KeepsInv, HoldsAlone, Filling, Charged
<1>12. Empty'
  <2>1. \A q \in Turns : pc'[q] \in {"terminal", "release"} => pending'[loc'[q].ts] = {}
    BY <1>1, <1>3, <1>7, <1>8 DEF KeepsInv, Empty, HoldsState, FinishPCs
  <2>2. \A q \in Procs : pc'[q] \notin {"attach", "record"} => loc'[q].items = {}
    BY <1>3, <1>7, KeepTypes DEF KeepsInv, Empty
  <2>3. \A q \in Turns : pc'[q] = "unborn" => turn'[q].input = {}
    BY <1>7 DEF KeepsInv, Empty
  <2> QED  BY <1>7, <2>1, <2>2, <2>3 DEF Empty
<1>13. Kept'
  <2>1. ASSUME NEW r \in TStates, InUse(r)
        PROVE  pending[r] \subseteq pending'[r] /\ (r = active'.ts \/ \E q \in Procs : loc'[q].ts = r)
    <3>1. CASE r = s
      BY <1>1, <1>7, <1>8, <2>1, <3>1, KeepTypes
    <3>2. CASE r # s
      BY <1>0, <1>1, <1>7, <1>8, <2>1, <3>2, KeepTypes DEF InUse
    <3> QED  BY <3>1, <3>2
  <2>2. \A q \in Procs : loc[q].items \subseteq loc'[q].items
    BY <1>0, <1>7, KeepTypes
  <2> QED  BY <1>5, <1>7, <2>1, <2>2, KeptStill DEF KeepsInv
<1> QED  BY <1>10, <1>11, <1>12, <1>13 DEF KeepsInv
(***************************************************************************)
(* Aborts by the loop.                                                     *)
(***************************************************************************)

\* The loop takes the task and its turn state out of the slot.
LEMMA TakeKeeps ==
    ASSUME Serial, TurnInv, SerialInv, KeepsInv, TakeActive(Loop) \/ Suspend, HasTask
    PROVE  KeepsInv'
<1>0. /\ active.task # None /\ active.ts \in TStates /\ ~turn[active.task].cancelled
      /\ pc[Loop] \in {"take", "idle"} /\ loc[Loop].ts = None /\ loc[Loop].items = {}
      /\ \A t \in Turns : pc[t] \in FinishPCs => loc[t].ts # active.ts
  BY KeepTypes
     DEF TakeActive, Suspend, HasTask, SerialInv, Charge, KeepsInv, HoldsState, HoldsAlone, Empty
<1>1. /\ UNCHANGED <<pending, mailbox, history, sent, dropped>> /\ active' = NoActive
      /\ turn' = [turn EXCEPT ![active.task].cancelled = TRUE]
      /\ \E n \in {"cancel", "suspend"} : pc' = [pc EXCEPT ![Loop] = n]
  BY <1>0 DEF TakeActive, TakeAndCancel, Suspend
<1>2. /\ loc'[Loop].ts = active.ts /\ loc'[Loop].items = {}
      /\ \A t \in Turns : loc'[t] = loc[t]
  <2>1. CASE Suspend
    BY <2>1, KeepTypes DEF Suspend, Blank
  <2>2. CASE TakeActive(Loop)
    <3>1. PICK b : /\ b = [Blank EXCEPT !.victim = active.task, !.ts = active.ts,
                                         !.new = loc[Loop].new, !.reason = loc[Loop].reason]
                   /\ loc' = [loc EXCEPT ![Loop] = b]
      BY <2>2 DEF TakeActive, TakeAndCancel
    <3>2. b.ts = active.ts /\ b.items = {}
      BY <3>1 DEF Blank
    <3> QED  BY <3>1, <3>2, KeepTypes
  <2> QED  BY <2>1, <2>2
<1>3. PICK n \in {"cancel", "suspend"} : pc'[Loop] = n /\ \A t \in Turns : pc'[t] = pc[t]
  BY <1>1, KeepTypes
<1>4. active'.ts = None /\ active'.task = None
  BY <1>1 DEF NoActive
<1>5. \A t \in Turns : turn'[t].input = turn[t].input
  BY <1>1, KeepTypes DEF Contexts
<1>6. HoldsState'
  BY <1>2, <1>3, <1>4 DEF KeepsInv, HoldsState, Filling, Charged
<1>7. HoldsAlone'
  BY <1>0, <1>2, <1>3, <1>4 DEF KeepsInv, HoldsAlone, Filling, Charged
<1>8. Empty'
  <2>1. \A q \in Procs : pc'[q] \notin {"attach", "record"} => loc'[q].items = {}
    BY <1>2, <1>3, KeepTypes DEF KeepsInv, Empty
  <2>2. \A t \in Turns : pc'[t] = "unborn" => turn'[t].input = {}
    BY <1>3, <1>5 DEF KeepsInv, Empty
  <2>3. \A t \in Turns : pc'[t] \in {"terminal", "release"} => pending'[loc'[t].ts] = {}
    BY <1>1, <1>2, <1>3 DEF KeepsInv, Empty
  <2> QED  BY <1>3, <2>1, <2>2, <2>3 DEF Empty
<1>9. Kept'
  <2>1. \A r \in TStates : InUse(r) => \E q \in Procs : loc'[q].ts = r
    BY <1>0, <1>2, KeepTypes DEF InUse
  <2>2. \A q \in Procs : loc[q].items \subseteq loc'[q].items
    BY <1>0, <1>2, KeepTypes
  <2> QED  BY <1>1, <1>5, <2>1, <2>2, KeptStill DEF KeepsInv
<1> QED  BY <1>6, <1>7, <1>8, <1>9 DEF KeepsInv

\* The loop empties a slot without a task: a finishing turn holds its turn
\* state.
LEMMA TakeNothingKeeps ==
    ASSUME Serial, TurnInv, SerialInv, KeepsInv, TakeActive(Loop), ~HasTask
    PROVE  KeepsInv'
<1>0. /\ pc[Loop] = "take" /\ loc[Loop].ts = None /\ active.task = None
      /\ active.ts # None => \E t \in Turns : pc[t] \in FinishPCs /\ loc[t].ts = active.ts
      /\ loc[Loop].items = {}
  BY KeepTypes DEF TakeActive, HasTask, KeepsInv, HoldsState, HoldsAlone, Empty, Filling
<1>1. /\ UNCHANGED <<pending, mailbox, history, sent, dropped, loc, turn>> /\ active' = NoActive
      /\ \E n \in {"drain", "idle", "exited"} : pc' = [pc EXCEPT ![Loop] = n]
  BY SerialWorld DEF TakeActive, TakeAndCancel, Home
<1>2. PICK n \in {"drain", "idle", "exited"} : pc'[Loop] = n /\ \A t \in Turns : pc'[t] = pc[t]
  BY <1>1, KeepTypes
<1>3. active'.ts = None /\ active'.task = None
  BY <1>1 DEF NoActive
<1>4. HoldsState'
  BY <1>0, <1>1, <1>2, <1>3 DEF KeepsInv, HoldsState, Filling, Charged
<1>5. HoldsAlone'
  BY <1>1, <1>2, <1>3, KeepTypes DEF KeepsInv, HoldsAlone, HoldsState, Filling, Charged
<1>6. Empty'
  BY <1>0, <1>1, <1>2, KeepTypes DEF KeepsInv, Empty
<1>7. Kept'
  <2>1. \A r \in TStates : InUse(r) => \E q \in Procs : loc'[q].ts = r
    BY <1>0, <1>1, KeepTypes DEF InUse
  <2> QED  BY <1>1, <2>1, KeptStill DEF KeepsInv
<1> QED  BY <1>4, <1>5, <1>6, <1>7 DEF KeepsInv

\* The task the loop holds is dead; what it carried is discarded.
LEMMA StopKeeps ==
    ASSUME Serial, TurnInv, SerialInv, KeepsInv, StopVictim(Loop)
    PROVE  KeepsInv'
<1>0. pc[Loop] = "cancel" /\ loc[Loop].victim \in Turns
  BY SerialTypes DEF StopVictim, Charged
<1>1. PICK v \in Turns : v = loc[Loop].victim
  BY <1>0
<1>2. /\ pc' = [pc EXCEPT ![Loop] = "emit", ![v] = "done"]
      /\ loc' = [loc EXCEPT ![v] = Blank] /\ turn' = [turn EXCEPT ![v].input = {}]
      /\ dropped' = dropped \cup loc[v].items \cup turn[v].input
      /\ UNCHANGED <<active, pending, mailbox, history, sent>>
  BY <1>1 DEF StopVictim
<1>3. pc[v] \notin FinishPCs /\ loc[v].ts = None
  BY <1>0, <1>1 DEF SerialInv, Charge, KeepsInv, HoldsState, BodyPCs, FinishPCs
<1>4. /\ pc'[Loop] = "emit" /\ pc'[v] = "done" /\ \A t \in Turns \ {v} : pc'[t] = pc[t]
      /\ loc'[Loop] = loc[Loop] /\ \A t \in Turns \ {v} : loc'[t] = loc[t]
      /\ loc'[v].ts = None /\ loc'[v].items = {}
  BY <1>2, KeepTypes, BlankFields
<1>5. turn'[v].input = {} /\ \A t \in Turns \ {v} : turn'[t] = turn[t]
  BY <1>2, KeepTypes DEF Contexts
<1>6. \A t \in Turns : /\ pc'[t] \in FinishPCs <=> pc[t] \in FinishPCs
                       /\ loc'[t].ts = loc[t].ts
  BY <1>3, <1>4 DEF FinishPCs
<1>7. HoldsState'
  BY <1>0, <1>2, <1>4, <1>6 DEF KeepsInv, HoldsState, Filling, Charged
<1>8. HoldsAlone'
  <2>1. active'.ts = None /\ loc'[Loop].ts = loc[Loop].ts /\ active'.task = None
    BY <1>0, <1>2, <1>4, KeepTypes DEF KeepsInv, HoldsState, Charged
  <2> QED  BY <1>0, <1>4, <1>6, <2>1 DEF KeepsInv, HoldsAlone, Filling, Charged
<1>9. Empty'
  <2>1. \A q \in Procs : pc'[q] \notin {"attach", "record"} => loc'[q].items = {}
    BY <1>0, <1>4, KeepTypes DEF KeepsInv, Empty
  <2>2. \A t \in Turns : pc'[t] \in {"terminal", "release"} => pending'[loc'[t].ts] = {}
    BY <1>2, <1>4 DEF KeepsInv, Empty
  <2>3. \A t \in Turns : pc'[t] = "unborn" => turn'[t].input = {}
    BY <1>4, <1>5 DEF KeepsInv, Empty
  <2> QED  BY <1>4, <2>1, <2>2, <2>3 DEF Empty
<1>10. Kept'
  <2>1. \A q \in Procs : loc'[q].ts = loc[q].ts
    BY <1>4, <1>6, KeepTypes
  <2>2. \A r \in TStates : InUse(r) => \A x \in pending[r] : Held(x)'
    BY <1>2, <2>1, HeldNext DEF InUse
  <2>3. /\ \A x \in mailbox : Held(x)'
        /\ \A q \in Procs : \A x \in loc[q].items : Held(x)'
        /\ \A t \in Turns : \A x \in turn[t].input : Held(x)'
    BY <1>2, <1>4, <1>5, HeldNext, KeepTypes
  <2> QED  BY <1>2, <2>2, <2>3, KeptStep DEF KeepsInv
<1> QED  BY <1>7, <1>8, <1>9, <1>10 DEF KeepsInv

\* The suspended task is dead; what it carried and what waited for it is
\* discarded.
LEMMA SuspendDoneKeeps ==
    ASSUME Serial, TurnInv, SerialInv, KeepsInv, SuspendDone
    PROVE  KeepsInv'
<1>0. pc[Loop] = "suspend" /\ loc[Loop].victim \in Turns /\ loc[Loop].ts \in TStates
      /\ active.ts = None /\ loc[Loop].items = {}
  BY KeepTypes
     DEF SuspendDone, Charged, TurnInv, LocalsInUse, KeepsInv, HoldsState, Empty
<1>1. PICK v \in Turns, s \in TStates : v = loc[Loop].victim /\ s = loc[Loop].ts
  BY <1>0
<1>2. PICK reason \in {"Shutdown", "Interrupted"} :
      /\ pc' = [pc EXCEPT ![Loop] = "take", ![v] = "done"]
      /\ loc' = [loc EXCEPT ![Loop] = [Blank EXCEPT !.reason = reason], ![v] = Blank]
      /\ turn' = [turn EXCEPT ![v].input = {}]
      /\ dropped' = dropped \cup pending[s] \cup loc[v].items \cup turn[v].input
      /\ pending' = [pending EXCEPT ![s] = {}]
      /\ UNCHANGED <<active, mailbox, history, sent>>
  BY <1>1 DEF SuspendDone
<1>3. pc[v] \notin FinishPCs /\ loc[v].ts = None
  BY <1>0, <1>1 DEF SerialInv, Charge, KeepsInv, HoldsState, BodyPCs, FinishPCs
<1>4. /\ pc'[Loop] = "take" /\ pc'[v] = "done" /\ \A t \in Turns \ {v} : pc'[t] = pc[t]
      /\ loc'[Loop].ts = None /\ loc'[Loop].items = {}
      /\ \A t \in Turns \ {v} : loc'[t] = loc[t]
      /\ loc'[v].ts = None /\ loc'[v].items = {}
  BY <1>2, KeepTypes DEF Blank
<1>5. turn'[v].input = {} /\ \A t \in Turns \ {v} : turn'[t] = turn[t]
  BY <1>2, KeepTypes DEF Contexts
<1>6. \A t \in Turns : /\ pc'[t] \in FinishPCs <=> pc[t] \in FinishPCs
                       /\ loc'[t].ts = loc[t].ts
  BY <1>3, <1>4 DEF FinishPCs
<1>7. HoldsState'
  BY <1>0, <1>2, <1>4, <1>6 DEF KeepsInv, HoldsState, Filling, Charged
<1>8. HoldsAlone'
  BY <1>0, <1>2, <1>4, <1>6, KeepTypes DEF KeepsInv, HoldsAlone, Filling, Charged
<1>9. Empty'
  <2>1. \A q \in Procs : pc'[q] \notin {"attach", "record"} => loc'[q].items = {}
    BY <1>0, <1>4, KeepTypes DEF KeepsInv, Empty
  <2>2. \A t \in Turns : pc'[t] \in {"terminal", "release"} => pending'[loc'[t].ts] = {}
    BY <1>2, <1>4, KeepTypes DEF KeepsInv, Empty, HoldsState, FinishPCs
  <2>3. \A t \in Turns : pc'[t] = "unborn" => turn'[t].input = {}
    BY <1>4, <1>5 DEF KeepsInv, Empty
  <2> QED  BY <1>4, <2>1, <2>2, <2>3 DEF Empty
<1>10. Kept'
  <2>1. ASSUME NEW r \in TStates, InUse(r), NEW x \in pending[r]
        PROVE  Held(x)'
    <3>1. CASE r = s
      BY <1>2, <2>1, <3>1, HeldNext
    <3>2. CASE r # s
      <4>1. \E q \in Procs : loc'[q].ts = r
        BY <1>0, <1>1, <1>6, <2>1, <3>2, KeepTypes DEF InUse
      <4>2. x \in pending'[r]
        BY <1>2, <2>1, <3>2, KeepTypes
      <4> QED  BY <4>1, <4>2, HeldNext
    <3> QED  BY <3>1, <3>2
  <2>3. /\ \A x \in mailbox : Held(x)'
        /\ \A q \in Procs : \A x \in loc[q].items : Held(x)'
        /\ \A t \in Turns : \A x \in turn[t].input : Held(x)'
    BY <1>0, <1>2, <1>4, <1>5, HeldNext, KeepTypes
  <2> QED  BY <1>2, <2>1, <2>3, KeptStep DEF KeepsInv
<1> QED  BY <1>7, <1>8, <1>9, <1>10 DEF KeepsInv

\* The abort is reported.
LEMMA EmitKeeps ==
    ASSUME Serial, TurnInv, SerialInv, KeepsInv, EmitAborted(Loop)
    PROVE  KeepsInv'
<1>1. /\ UNCHANGED <<active, pending, mailbox, loc, turn, history, sent, dropped>>
      /\ pc[Loop] = "emit" /\ pc' = [pc EXCEPT ![Loop] = "clear"]
  BY DEF EmitAborted
<1>2. pc'[Loop] = "clear" /\ \A t \in Turns : pc'[t] = pc[t]
  BY <1>1, KeepTypes
<1>3. HoldsState' /\ HoldsAlone'
  BY <1>1, <1>2 DEF KeepsInv, HoldsState, HoldsAlone, Filling, Charged
<1>4. Empty'
  BY <1>1, <1>2, KeepTypes DEF KeepsInv, Empty
<1>5. Kept'
  BY <1>1, KeptStill DEF KeepsInv, InUse
<1> QED  BY <1>3, <1>4, <1>5 DEF KeepsInv

\* clear_pending discards what waited for the turn that was aborted.
LEMMA ClearKeeps ==
    ASSUME Serial, TurnInv, SerialInv, KeepsInv, ClearPending(Loop)
    PROVE  KeepsInv'
<1>0. pc[Loop] = "clear" /\ loc[Loop].ts \in TStates /\ active.ts = None /\ loc[Loop].items = {}
  BY KeepTypes
     DEF ClearPending, Charged, TurnInv, LocalsInUse, KeepsInv, HoldsState, Empty
<1>1. PICK s \in TStates : s = loc[Loop].ts
  BY <1>0
<1>2. /\ UNCHANGED <<active, mailbox, turn, history, sent>>
      /\ pending' = [pending EXCEPT ![s] = {}] /\ dropped' = dropped \cup pending[s]
      /\ \E n \in {"drain", "wake"} : pc' = [pc EXCEPT ![Loop] = n]
  BY <1>1 DEF ClearPending
<1>3. /\ loc'[Loop].ts = None /\ loc'[Loop].items = {} /\ \A t \in Turns : loc'[t] = loc[t]
  BY <1>0, KeepTypes DEF ClearPending, Locals
<1>4. PICK n \in {"drain", "wake"} : pc'[Loop] = n /\ \A t \in Turns : pc'[t] = pc[t]
  BY <1>2, KeepTypes
<1>5. HoldsState'
  BY <1>0, <1>2, <1>3, <1>4 DEF KeepsInv, HoldsState, Filling, Charged
<1>6. HoldsAlone'
  BY <1>0, <1>2, <1>3, <1>4, KeepTypes DEF KeepsInv, HoldsAlone, HoldsState, Filling, Charged
<1>7. Empty'
  <2>1. \A q \in Procs : pc'[q] \notin {"attach", "record"} => loc'[q].items = {}
    BY <1>3, <1>4, KeepTypes DEF KeepsInv, Empty
  <2>2. \A t \in Turns : pc'[t] \in {"terminal", "release"} => pending'[loc'[t].ts] = {}
    BY <1>2, <1>3, <1>4, KeepTypes DEF KeepsInv, Empty, HoldsState, FinishPCs
  <2> QED  BY <1>2, <1>4, <2>1, <2>2 DEF KeepsInv, Empty
<1>8. Kept'
  <2>1. ASSUME NEW r \in TStates, InUse(r), NEW x \in pending[r]
        PROVE  Held(x)'
    <3>1. CASE r = s
      BY <1>2, <2>1, <3>1, HeldNext
    <3>2. CASE r # s
      <4>1. \E q \in Procs : loc'[q].ts = r
        BY <1>0, <1>1, <1>3, <2>1, <3>2, KeepTypes DEF InUse
      <4>2. x \in pending'[r]
        BY <1>2, <2>1, <3>2, KeepTypes
      <4> QED  BY <4>1, <4>2, HeldNext
    <3> QED  BY <3>1, <3>2
  <2>3. /\ \A x \in mailbox : Held(x)'
        /\ \A q \in Procs : \A x \in loc[q].items : Held(x)'
        /\ \A t \in Turns : \A x \in turn[t].input : Held(x)'
    BY <1>0, <1>2, <1>3, HeldNext, KeepTypes
  <2> QED  BY <1>2, <2>1, <2>3, KeptStep DEF KeepsInv
<1> QED  BY <1>5, <1>6, <1>7, <1>8 DEF KeepsInv

\* Every step of a serial session without injections keeps the items.
LEMMA StepKeeps ==
    ASSUME Serial, Injections = {}, TurnInv, NewHeld, SerialInv, KeepsInv, [Next]_vars
    PROVE  KeepsInv'
<1>1. CASE LoopOp
  <2>1. CASE Suspend
    BY <2>1, TakeKeeps DEF Suspend
  <2> QED  BY <1>1, <2>1, IdleKeeps, ReserveKeeps DEF LoopOp
<1>2. CASE IdleStep
  BY <1>2, RecheckKeeps, RefuseKeeps, AcceptKeeps, SuspendDoneKeeps DEF IdleStep
<1>3. CASE Inject
  BY <1>3 DEF Inject
<1>4. CASE \E p \in {Loop} \cup Routers : Submit(p)
  <2>1. Submit(Loop)
    BY <1>4 DEF Serial
  <2> QED  BY <2>1, SteerKeeps, IdleKeeps DEF Submit
<1>5. CASE \E p \in Guards : GuardianAbort(p)
  BY <1>5 DEF Serial
<1>6. CASE \E p \in Procs : AbortStep(p) \/ StartStep(p)
  <2>1. PICK p \in Procs : AbortStep(p) \/ StartStep(p)
    BY <1>6
  <2>2. Where
    BY DEF SerialInv
  <2>3. CASE AbortStep(Loop)
    BY <2>3, TakeKeeps, TakeNothingKeeps, StopKeeps, EmitKeeps, ClearKeeps DEF AbortStep
  <2>4. CASE CheckWork(Loop) \/ DrainMailbox(Loop) \/ AttachState(Loop) \/ InstallTask(Loop)
    BY <2>4, IdleKeeps, DrainMailboxKeeps, AttachKeeps, InstallKeeps
  <2>5. CASE p \in Turns /\ CheckWork(p) /\ pc[p] = "wake"
    BY <2>5, WakeKeeps
  <2> QED  BY <2>1, <2>2, <2>3, <2>4, <2>5, OnlyLoop
<1>7. CASE \E t \in Turns : TurnStep(t)
  BY <1>7, GoOnKeeps, EnterKeeps, DrainKeeps, RecordKeeps DEF TurnStep
<1>8. CASE \E t \in Turns : FinishStep(t)
  BY <1>8, FinishKeeps, SettleKeeps, ReleaseKeeps DEF FinishStep
<1>9. CASE UNCHANGED vars
  BY <1>9 DEF vars, KeepsInv, HoldsState, HoldsAlone, Empty, Kept, Held, InUse
<1> QED  BY <1>1, <1>2, <1>3, <1>4, <1>5, <1>6, <1>7, <1>8, <1>9 DEF Next

\* Initially there are no items and nobody holds a turn state.
LEMMA InitKeeps ==
    ASSUME Serial, Init
    PROVE  KeepsInv
<1>1. /\ pc[Loop] = "idle" /\ loc[Loop] = Blank /\ active.ts = None /\ active.task = None
      /\ \A t \in Turns : pc[t] = "unborn" /\ loc[t] = Blank /\ turn[t].input = {}
      /\ sent = {} /\ \A p \in Procs : loc[p].items = {}
  BY SerialWorld DEF Init, NoActive, Blank
<1> QED  BY <1>1, BlankFields
            DEF KeepsInv, HoldsState, HoldsAlone, Empty, Kept, Filling, Charged, FinishPCs

\* Everything a serial session accepts, user input, steered input and mail,
\* stays where it will be recorded from until it is recorded or discarded by
\* an abort or a failing turn; injections are what can be lost.
THEOREM NothingIsLost == ASSUME Serial, Injections = {} PROVE Spec => []NoSilentLoss
<1>1. Init => KeepsInv
  BY InitKeeps
<1>2. TurnInv /\ NewHeld /\ SerialInv /\ KeepsInv /\ [Next]_vars => KeepsInv'
  BY StepKeeps
<1>3. KeepsInv => NoSilentLoss
  <2> SUFFICES ASSUME KeepsInv, NEW x \in sent PROVE x \in Reachable
    BY DEF NoSilentLoss
  <2>1. Held(x)
    BY DEF KeepsInv, Kept
  <2>2. \A r \in TStates : InUse(r) => r \in TStates \ FreeStates
    BY DEF InUse, FreeStates
  <2>3. (\E p \in Procs : x \in loc[p].items) => x \in Carried
    BY DEF Carried
  <2>4. (\E t \in Turns : x \in turn[t].input) => x \in Owned
    BY DEF Owned
  <2>5. (\E s \in TStates : InUse(s) /\ x \in pending[s]) => x \in Buffered
    BY <2>2 DEF Buffered
  <2> QED  BY <2>1, <2>3, <2>4, <2>5 DEF Held, Reachable
<1> QED  BY <1>1, <1>2, <1>3, SerialInvariance, PTL DEF Spec

(***************************************************************************)
(* Work that asks for a turn.                                              *)
(***************************************************************************)

\* Nobody interrupts: turns end by themselves, are replaced, or are aborted
\* by a shutdown.
Uninterrupted ==
    Guards = {} /\ AbortOps \subseteq {"Shutdown"} /\ DurableSleep = FALSE

Aborting == {"take", "cancel", "emit", "clear"}
Starting == Aborting \cup {"drain", "attach", "install"}
Looking  == Aborting \cup {"wake", "reserve", "drain"}
Holding  == FinishPCs \cup {"recheck", "prepare", "collect", "fill"}

\* The loop is shutting down or has exited.
Closing ==
    \/ pc[Loop] = "exited"
    \/ pc[Loop] \in Starting \cup Looking \cup {"collect", "fill"}
          /\ loc[Loop].reason = "Shutdown"

\* Whoever aborts a turn does it to start the next one.
Replacing ==
    \A p \in Procs : /\ pc[p] # "suspend"
                     /\ pc[p] \in Aborting => p \notin Turns /\ loc[p].reason = "Replaced"

\* The task in the slot runs and was not told to stop.
LiveTask ==
    /\ active.task # None => pc[active.task] \in BodyPCs /\ ~turn[active.task].cancelled
    /\ \A t \in Turns : pc[t] = "created" => ~turn[t].cancelled

\* A slot that is taken has a task, will get one, or has a holder who gives
\* it back.
Minded ==
    active.ts # None =>
        \/ active.task # None
        \/ \E p \in Procs : \/ pc[p] \in Starting
                            \/ pc[p] \in Holding /\ loc[p].ts = active.ts

\* Triggering mail finds the slot taken or somebody who will look at the
\* mailbox; the loop does not prepare a turn over it.
Pursued ==
    HasTrigger => active.ts # None \/ \E p \in Procs : pc[p] \in Looking

Prepared == pc[Loop] = "prepare" => ~HasTrigger

WorkInv == Replacing /\ LiveTask /\ Minded /\ Pursued /\ Prepared

\* What the proofs below use of the types and the constants.
LEMMA WorkTypes ==
    ASSUME TurnInv
    PROVE  /\ pc \in [Procs -> PCs] /\ loc \in [Procs -> Locals] /\ turn \in [Turns -> Contexts]
           /\ active.ts \in TStates \cup {None} /\ active.task \in Turns \cup {None}
           /\ active.ts = None => active.task = None
           /\ Turns \subseteq Procs /\ Routers \subseteq Procs
           /\ Loop \in Procs /\ Loop \notin Turns /\ None \notin Turns /\ None \notin TStates
BY Types, ConstantsAssumption DEF Procs

\* Process p takes a step that leaves the slot alone and perhaps creates a
\* turn: it goes on pursuing what it pursued and minding what it minded.
LEMMA WorkMove ==
    ASSUME TurnInv, WorkInv, NEW p \in Procs,
           active' = active,
           \A q \in Procs \ {p} :
              /\ pc'[q] = pc[q] \/ (pc[q] = "unborn" /\ pc'[q] = "created")
              /\ loc'[q] = loc[q],
           \A t \in Turns : \/ turn'[t].cancelled = turn[t].cancelled
                            \/ pc'[t] = "created" /\ ~turn'[t].cancelled,
           \A t \in Turns : pc'[t] = "created" /\ pc[t] # "created" => ~turn'[t].cancelled,
           HasTrigger' => HasTrigger \/ (p = Loop /\ pc'[p] \in Looking),
           pc'[p] = "prepare" => ~HasTrigger',
           pc'[p] \notin {"suspend", "created"},
           pc'[p] \in Aborting => p \notin Turns /\ loc'[p].reason = "Replaced",
           p = active.task => pc'[p] \in BodyPCs,
           pc[p] \in Starting => pc'[p] \in Starting,
           pc[p] \in Holding /\ loc[p].ts = active.ts =>
              pc'[p] \in Starting \/ (pc'[p] \in Holding /\ loc'[p].ts = loc[p].ts),
           pc[p] \in Looking => pc'[p] \in Looking \/ ~HasTrigger' \/ active.ts # None
    PROVE  WorkInv'
<1>0. /\ active.task \in Turns \cup {None} /\ Turns \subseteq Procs /\ Loop \in Procs
      /\ active.task # None => pc[active.task] \notin {"unborn", "created"}
  BY WorkTypes DEF TurnInv, SpawnedTasks
<1>1. Replacing'
  BY DEF WorkInv, Replacing, Aborting
<1>2. LiveTask'
  BY <1>0 DEF WorkInv, LiveTask, BodyPCs
<1>3. Minded'
  <2> SUFFICES ASSUME active.ts # None, active.task = None
               PROVE  \E q \in Procs : \/ pc'[q] \in Starting
                                       \/ pc'[q] \in Holding /\ loc'[q].ts = active.ts
    BY DEF Minded
  <2>1. PICK q \in Procs : pc[q] \in Starting \/ (pc[q] \in Holding /\ loc[q].ts = active.ts)
    BY DEF WorkInv, Minded
  <2>2. pc[q] # "unborn"
    BY <2>1 DEF Starting, Holding, Aborting, FinishPCs
  <2> QED  BY <2>1, <2>2
<1>4. Pursued'
  <2> SUFFICES ASSUME HasTrigger', active.ts = None
               PROVE  \E q \in Procs : pc'[q] \in Looking
    BY DEF Pursued
  <2>1. CASE HasTrigger
    <3>1. PICK q \in Procs : pc[q] \in Looking
      BY <2>1 DEF WorkInv, Pursued
    <3>2. pc[q] # "unborn"
      BY <3>1 DEF Looking, Aborting
    <3> QED  BY <3>1, <3>2
  <2> QED  BY <2>1
<1>5. Prepared'
  <2>1. CASE p = Loop
    BY <2>1 DEF Prepared
  <2>2. CASE p # Loop
    BY <1>0, <2>2 DEF WorkInv, Prepared
  <2> QED  BY <2>1, <2>2
<1> QED  BY <1>1, <1>2, <1>3, <1>4, <1>5 DEF WorkInv

\* The steps of a running task that do not end it.
LEMMA TurnStepWork ==
    ASSUME TurnInv, WorkInv, NEW t \in Turns, TurnStep(t)
    PROVE  WorkInv'
<1>0. pc \in [Procs -> PCs] /\ loc \in [Procs -> Locals] /\ t \in Procs
      /\ turn \in [Turns -> Contexts] /\ Loop \notin Turns
  BY WorkTypes
<1>1. /\ pc[t] \in BodyPCs /\ active' = active
      /\ \A q \in Procs \ {t} : pc'[q] = pc[q]
  BY <1>0 DEF TurnStep, BeginTurn, CancelPrewarm, EnterTurn, FailEntry, DrainPending,
     RecordPending, FollowUp, RecoverWindow, FinalAnswer, FailSampling, AfterAnswer,
     AfterRunTurn, EndTurn, RecordInputs, GetPendingInput, Step, BodyPCs
<1>2. pc'[t] \in BodyPCs \cup {"done"} /\ (pc'[t] = "done" => turn[t].cancelled)
  BY <1>0 DEF TurnStep, BeginTurn, CancelPrewarm, EnterTurn, FailEntry, DrainPending,
     RecordPending, FollowUp, RecoverWindow, FinalAnswer, FailSampling, AfterAnswer,
     AfterRunTurn, EndTurn, RecordInputs, GetPendingInput, Step, BodyPCs
<1>3. \A q \in Procs \ {t} : loc'[q] = loc[q]
  BY <1>0 DEF TurnStep, BeginTurn, CancelPrewarm, EnterTurn, FailEntry, DrainPending,
     RecordPending, FollowUp, RecoverWindow, FinalAnswer, FailSampling, AfterAnswer,
     AfterRunTurn, EndTurn, GetPendingInput
<1>4. \A u \in Turns : turn'[u].cancelled = turn[u].cancelled
  BY <1>0 DEF TurnStep, BeginTurn, CancelPrewarm, EnterTurn, FailEntry, DrainPending,
     RecordPending, FollowUp, RecoverWindow, FinalAnswer, FailSampling, AfterAnswer,
     AfterRunTurn, EndTurn, Contexts
<1>5. mailbox' \subseteq mailbox
  BY DEF TurnStep, BeginTurn, CancelPrewarm, EnterTurn, FailEntry, DrainPending,
     RecordPending, FollowUp, RecoverWindow, FinalAnswer, FailSampling, AfterAnswer,
     AfterRunTurn, EndTurn, GetPendingInput
<1>6. HasTrigger' => HasTrigger
  BY <1>5 DEF HasTrigger
<1>7. t = active.task => pc'[t] \in BodyPCs
  BY <1>0, <1>2, ConstantsAssumption DEF WorkInv, LiveTask
<1>8. /\ pc'[t] \notin Aborting \cup {"suspend", "created", "prepare"}
      /\ pc[t] \notin Starting \cup Holding \cup Looking
  BY <1>1, <1>2 DEF BodyPCs, Aborting, Starting, Holding, Looking, FinishPCs
<1>9. \A u \in Turns : pc'[u] = "created" => pc[u] = "created"
  BY <1>0, <1>1, <1>8, WorkTypes
<1> QED  BY <1>0, <1>1, <1>3, <1>4, <1>6, <1>7, <1>8, <1>9, WorkMove

\* A process creates a turn and goes on to start it.
LEMMA CreateWork ==
    ASSUME TurnInv, WorkInv, NEW p \in Procs, NEW t \in Turns, NEW kind, NEW input, NEW next,
           NewTurn(t, kind, input),
           next = "drain" \/ (next = "take" /\ p \notin Turns /\ loc'[p].reason = "Replaced"),
           pc[p] \notin {"unborn", "created"} \cup BodyPCs \cup Starting,
           pc[p] \in Looking => active.ts # None,
           pc' = [pc EXCEPT ![p] = next, ![t] = "created"],
           active' = active, mailbox' = mailbox,
           \A q \in Procs \ {p} : loc'[q] = loc[q]
    PROVE  WorkInv'
<1>0. /\ pc \in [Procs -> PCs] /\ turn \in [Turns -> Contexts] /\ Turns \subseteq Procs
      /\ active.task \in Turns \cup {None} /\ None \notin Turns
  BY WorkTypes
<1>1. pc[t] = "unborn" /\ t # p
  BY NewTurnUnborn
<1>2. /\ pc'[p] = next /\ pc'[t] = "created"
      /\ \A q \in Procs \ {p, t} : pc'[q] = pc[q]
  BY <1>0, <1>1
<1>3. ~turn'[t].cancelled /\ \A u \in Turns \ {t} : turn'[u] = turn[u]
  BY <1>0 DEF NewTurn
<1>4. HasTrigger' => HasTrigger
  BY DEF HasTrigger
<1>5. p # active.task \/ active.task = None
  BY <1>0 DEF WorkInv, LiveTask
<1>6. p \in Procs /\ p # None
  BY ConstantsAssumption DEF Procs
<1>7. next \in Starting /\ next \notin {"prepare", "suspend", "created"}
      /\ (next \in Aborting => next = "take")
  BY DEF Starting, Aborting
<1> QED  BY <1>0, <1>1, <1>2, <1>3, <1>4, <1>5, <1>6, <1>7, WorkMove

\* What the loop and the router are asked to do.
LEMMA SubmitWork ==
    ASSUME TurnInv, WorkInv, NEW p \in {Loop} \cup Routers, Submit(p)
    PROVE  WorkInv'
<1>0. pc \in [Procs -> PCs] /\ loc \in [Procs -> Locals] /\ p \in Procs /\ p \notin Turns
  BY WorkTypes, ConstantsAssumption
<1>1. ASSUME NEW u \in UserInputs, Steer(p, u)
      PROVE  WorkInv'
  BY <1>1 DEF Steer, WorkInv, Replacing, LiveTask, Minded, Pursued, Prepared, HasTrigger
<1>2. ASSUME NEW u \in UserInputs, NEW t \in Turns, StartTurn(p, u, t)
      PROVE  WorkInv'
  <2>1. /\ loc'[p].reason = "Replaced" /\ \A q \in Procs \ {p} : loc'[q] = loc[q]
    BY <1>0, <1>2 DEF StartTurn, Blank
  <2>2. pc[p] = "idle" /\ NewTurn(t, "Regular", {u}) /\ active' = active /\ mailbox' = mailbox
        /\ pc' = [pc EXCEPT ![p] = "take", ![t] = "created"]
    BY <1>2 DEF StartTurn
  <2>3. pc[p] \notin {"unborn", "created"} \cup BodyPCs \cup Starting \cup Looking
    BY <2>2 DEF BodyPCs, Starting, Aborting, Looking
  <2> QED  BY <1>0, <2>1, <2>2, <2>3, CreateWork
<1> QED  BY <1>1, <1>2 DEF Submit

\* Compaction, review and shell commands, and mail.
LEMMA LoopOpWork ==
    ASSUME TurnInv, WorkInv, DurableSleep = FALSE,
           (\E t \in Turns, kind \in OtherKinds : StartOther(kind, t))
           \/ \E m \in Mails : Communicate(m)
    PROVE  WorkInv'
<1>0. pc \in [Procs -> PCs] /\ loc \in [Procs -> Locals] /\ Loop \in Procs /\ Loop \notin Turns
      /\ Loop # active.task
  BY WorkTypes, ConstantsAssumption
<1>1. ASSUME NEW kind \in OtherKinds, NEW t \in Turns, StartOther(kind, t)
      PROVE  WorkInv'
  <2>1. /\ loc'[Loop].reason = "Replaced" /\ \A q \in Procs \ {Loop} : loc'[q] = loc[q]
    BY <1>0, <1>1 DEF StartOther, Blank
  <2>2. pc[Loop] = "idle" /\ NewTurn(t, kind, {}) /\ active' = active /\ mailbox' = mailbox
        /\ pc' = [pc EXCEPT ![Loop] = "take", ![t] = "created"]
    BY <1>1 DEF StartOther
  <2>3. pc[Loop] \notin {"unborn", "created"} \cup BodyPCs \cup Starting \cup Looking
    BY <2>2 DEF BodyPCs, Starting, Aborting, Looking
  <2> QED  BY <1>0, <2>1, <2>2, <2>3, CreateWork
<1>2. ASSUME NEW m \in Mails, Communicate(m)
      PROVE  WorkInv'
  <2>1. /\ pc[Loop] = "idle" /\ active' = active /\ turn' = turn
        /\ \A q \in Procs \ {Loop} : pc'[q] = pc[q] /\ loc'[q] = loc[q]
        /\ pc'[Loop] = IF m \in TriggerMails THEN "wake" ELSE "idle"
    BY <1>0, <1>2 DEF Communicate
  <2>2. HasTrigger' => HasTrigger \/ m \in TriggerMails
    BY <1>2 DEF Communicate, HasTrigger
  <2>3. /\ pc[Loop] \notin Starting \cup Holding \cup Looking
        /\ pc'[Loop] \notin Aborting \cup {"suspend", "created", "prepare"}
        /\ "wake" \in Looking
    BY <2>1 DEF Starting, Aborting, Holding, Looking, FinishPCs
  <2>4. \A u \in Turns : pc'[u] = pc[u]
    BY <1>0, <2>1, WorkTypes
  <2> QED  BY <1>0, <2>1, <2>2, <2>3, <2>4, WorkMove
<1> QED  BY <1>1, <1>2

\* Reserving the empty slot.
LEMMA ReserveWork ==
    ASSUME TurnInv, WorkInv, NEW p \in Procs, Reserve, pc[p] \in {"idle", "reserve"},
           NEW next \in {"recheck", "collect"}, pc' = [pc EXCEPT ![p] = next],
           loc'[p].ts = FreshState, \A q \in Procs \ {p} : loc'[q] = loc[q],
           turn' = turn, mailbox' = mailbox
    PROVE  WorkInv'
<1>0. pc \in [Procs -> PCs] /\ Turns \subseteq Procs /\ Loop \in Procs /\ None \notin TStates
  BY WorkTypes
<1>1. active'.ts = FreshState /\ active'.task = None /\ active'.ts # None
  BY <1>0, FreshStateIn DEF Reserve
<1>2. pc'[p] = next /\ \A q \in Procs \ {p} : pc'[q] = pc[q]
  BY <1>0
<1>3. Replacing'
  BY <1>2 DEF WorkInv, Replacing, Aborting
<1>4. LiveTask'
  BY <1>0, <1>1, <1>2 DEF WorkInv, LiveTask
<1>5. Minded'
  BY <1>1, <1>2 DEF Minded, Holding
<1>6. Pursued' /\ Prepared'
  BY <1>0, <1>1, <1>2 DEF WorkInv, Pursued, Prepared, HasTrigger
<1> QED  BY <1>3, <1>4, <1>5, <1>6 DEF WorkInv

\* The holder of the slot gives it back and, when triggering mail may have
\* come meanwhile, looks at the mailbox.
LEMMA GiveBackWork ==
    ASSUME TurnInv, WorkInv, NEW p \in Procs, pc[p] \in Holding, ClearReserved(p),
           NEW next \in {"wake", "idle", "done"}, pc' = [pc EXCEPT ![p] = next],
           next = "wake" \/ ~HasTrigger \/ active # [ts |-> loc[p].ts, task |-> None],
           \A q \in Procs \ {p} : loc'[q] = loc[q],
           turn' = turn, mailbox' = mailbox
    PROVE  WorkInv'
<1>0. pc \in [Procs -> PCs] /\ Turns \subseteq Procs /\ Loop \in Procs
      /\ active.task \in Turns \cup {None}
      /\ active \in [ts : TStates \cup {None}, task : Turns \cup {None}]
  BY WorkTypes, Types
<1>1. pc'[p] = next /\ \A q \in Procs \ {p} : pc'[q] = pc[q]
  BY <1>0
<1>2. pc[p] \notin BodyPCs \cup Starting \cup Looking
  BY DEF Holding, FinishPCs, BodyPCs, Starting, Looking, Aborting
<1>3. active' = NoActive \/ (active' = active /\ ~(active.ts = loc[p].ts /\ active.task = None))
  BY <1>0 DEF ClearReserved
<1>4. Replacing'
  BY <1>1 DEF WorkInv, Replacing, Aborting
<1>5. LiveTask'
  <2>1. active'.task # None => active' = active
    BY <1>3 DEF NoActive
  <2>2. active.task # None => active.task # p
    BY <1>2 DEF WorkInv, LiveTask
  <2> QED  BY <1>0, <1>1, <2>1, <2>2 DEF WorkInv, LiveTask
<1>6. Minded'
  <2>1. active'.ts # None => active' = active /\ ~(active.ts = loc[p].ts /\ active.task = None)
    BY <1>3 DEF NoActive
  <2> SUFFICES ASSUME active'.ts # None, active'.task = None
               PROVE  \E q \in Procs : \/ pc'[q] \in Starting
                                       \/ pc'[q] \in Holding /\ loc'[q].ts = active'.ts
    BY DEF Minded
  <2>2. PICK q \in Procs : pc[q] \in Starting \/ (pc[q] \in Holding /\ loc[q].ts = active.ts)
    BY <2>1 DEF WorkInv, Minded
  <2>3. q # p
    BY <1>2, <2>1, <2>2
  <2> QED  BY <1>1, <2>1, <2>2, <2>3
<1>7. Pursued'
  <2>1. next = "wake" => next \in Looking
    BY DEF Looking
  <2>2. HasTrigger' => HasTrigger
    BY DEF HasTrigger
  <2>3. CASE next = "wake"
    BY <1>1, <2>1, <2>3 DEF Pursued
  <2>4. CASE ~HasTrigger
    BY <2>2, <2>4 DEF Pursued
  <2>5. CASE active # [ts |-> loc[p].ts, task |-> None]
    <3>1. active' = active
      BY <2>5 DEF ClearReserved
    <3> QED  BY <1>1, <1>2, <2>2, <3>1 DEF WorkInv, Pursued
  <2> QED  BY <2>3, <2>4, <2>5
<1>8. Prepared'
  BY <1>0, <1>1 DEF WorkInv, Prepared, HasTrigger
<1> QED  BY <1>4, <1>5, <1>6, <1>7, <1>8 DEF WorkInv

\* start_if_idle from the reservation to the turn it starts.
LEMMA IdleWork ==
    ASSUME TurnInv, WorkInv, ReserveIdle \/ IdleStep
    PROVE  WorkInv'
<1>0. pc \in [Procs -> PCs] /\ loc \in [Procs -> Locals] /\ Loop \in Procs /\ Loop \notin Turns
      /\ Loop # active.task
  BY WorkTypes, ConstantsAssumption
<1>1. CASE ReserveIdle
  <2>1. loc'[Loop].ts = FreshState /\ \A q \in Procs \ {Loop} : loc'[q] = loc[q]
    BY <1>0, <1>1 DEF ReserveIdle, Blank
  <2>2. /\ Reserve /\ pc[Loop] = "idle" /\ pc' = [pc EXCEPT ![Loop] = "recheck"]
        /\ turn' = turn /\ mailbox' = mailbox
    BY <1>1 DEF ReserveIdle
  <2> QED  BY <1>0, <2>1, <2>2, ReserveWork
<1>2. CASE RecheckIdle /\ HasTrigger
  <2>1. /\ ClearReserved(Loop) /\ pc[Loop] = "recheck" /\ pc' = [pc EXCEPT ![Loop] = "wake"]
        /\ turn' = turn /\ mailbox' = mailbox /\ \A q \in Procs \ {Loop} : loc'[q] = loc[q]
    BY <1>0, <1>2 DEF RecheckIdle
  <2>2. pc[Loop] \in Holding
    BY <2>1 DEF Holding
  <2> QED  BY <1>0, <2>1, <2>2, GiveBackWork
<1>3. CASE RecheckIdle /\ ~HasTrigger
  <2>1. /\ pc[Loop] = "recheck" /\ pc'[Loop] = "prepare" /\ loc' = loc /\ turn' = turn
        /\ active' = active /\ mailbox' = mailbox /\ \A q \in Procs \ {Loop} : pc'[q] = pc[q]
    BY <1>0, <1>3 DEF RecheckIdle
  <2>2. pc[Loop] \notin Starting \cup Looking /\ pc'[Loop] \in Holding \ Aborting
    BY <2>1 DEF Holding, Starting, Looking, Aborting, FinishPCs
  <2>3. ~HasTrigger'
    BY <1>3, <2>1 DEF HasTrigger
  <2>4. \A u \in Turns : pc'[u] = pc[u]
    BY <1>0, <2>1, WorkTypes
  <2> QED  BY <1>0, <2>1, <2>2, <2>3, <2>4, WorkMove
<1>4. CASE RefuseIdle
  <2>1. /\ ClearReserved(Loop) /\ pc[Loop] = "prepare" /\ pc' = [pc EXCEPT ![Loop] = "idle"]
        /\ turn' = turn /\ mailbox' = mailbox /\ \A q \in Procs \ {Loop} : loc'[q] = loc[q]
    BY <1>0, <1>4 DEF RefuseIdle
  <2>2. pc[Loop] \in Holding /\ ~HasTrigger
    BY <2>1 DEF Holding, WorkInv, Prepared
  <2> QED  BY <1>0, <2>1, <2>2, GiveBackWork
<1>5. ASSUME NEW u \in UserInputs, NEW kind \in IdleStarts, NEW t \in Turns,
             AcceptIdle(u, kind, t)
      PROVE  WorkInv'
  <2>1. /\ pc[Loop] = "prepare" /\ pc' = [pc EXCEPT ![Loop] = "drain", ![t] = "created"]
        /\ active' = active /\ mailbox' = mailbox /\ \A q \in Procs \ {Loop} : loc'[q] = loc[q]
        /\ NewTurn(t, "Regular", IF kind = "User" THEN {u} ELSE {})
    BY <1>0, <1>5 DEF AcceptIdle
  <2>2. pc[Loop] \notin {"unborn", "created"} \cup BodyPCs \cup Starting \cup Looking
    BY <2>1 DEF BodyPCs, Starting, Aborting, Looking
  <2> QED  BY <1>0, <2>1, <2>2, CreateWork
<1>6. CASE SuspendDone
  BY <1>0, <1>6 DEF SuspendDone, WorkInv, Replacing
<1> QED  BY <1>1, <1>2, <1>3, <1>4, <1>5, <1>6 DEF IdleStep

\* on_task_finished: the finishing task holds the slot until it gives it back.
LEMMA FinishWork ==
    ASSUME TurnInv, WorkInv, NEW t \in Turns, FinishStep(t)
    PROVE  WorkInv'
<1>0. /\ pc \in [Procs -> PCs] /\ loc \in [Procs -> Locals] /\ t \in Procs /\ Loop \notin Turns
      /\ turn \in [Turns -> Contexts] /\ Turns \subseteq Procs /\ Loop \in Procs
      /\ None \notin Turns
  BY WorkTypes
<1>1. CASE FinishTake(t) /\ HasTask
  <2>1. /\ active'.ts = active.ts /\ active'.task = None /\ turn' = turn /\ mailbox' = mailbox
        /\ pc'[t] = "settle" /\ \A q \in Procs \ {t} : pc'[q] = pc[q] /\ loc'[q] = loc[q]
        /\ pc[t] = "finish"
    BY <1>0, <1>1, Types DEF FinishTake, Step
  <2>2. loc'[t].ts = active.ts
    BY <1>0, <1>1, WorkTypes DEF FinishTake, Locals
  <2>3. Replacing'
    BY <2>1 DEF WorkInv, Replacing, Aborting
  <2>4. LiveTask'
    BY <1>0, <2>1 DEF WorkInv, LiveTask
  <2>5. Minded'
    BY <1>0, <2>1, <2>2 DEF Minded, Holding, FinishPCs
  <2>6. Pursued'
    <3>1. pc[t] \notin Looking
      BY <2>1 DEF Looking, Aborting
    <3> QED  BY <2>1, <3>1 DEF WorkInv, Pursued, HasTrigger
  <2>7. Prepared'
    BY <1>0, <2>1 DEF WorkInv, Prepared, HasTrigger
  <2> QED  BY <2>3, <2>4, <2>5, <2>6, <2>7 DEF WorkInv
<1>2. CASE (FinishTake(t) /\ ~HasTask) \/ SettlePending(t) \/ EmitTerminal(t)
  <2>1. /\ active' = active /\ turn' = turn /\ mailbox' = mailbox /\ loc' = loc
        /\ \A q \in Procs \ {t} : pc'[q] = pc[q]
    BY <1>0, <1>2 DEF FinishTake, SettlePending, EmitTerminal, RecordInputs, Step
  <2>2. \/ pc[t] = "finish" /\ pc'[t] = "done" /\ active.task = None
        \/ pc[t] \in {"settle", "terminal"} /\ pc'[t] \in {"terminal", "release"}
    BY <1>0, <1>2 DEF FinishTake, SettlePending, EmitTerminal, RecordInputs, Step, HasTask
  <2>3. /\ pc[t] \notin Starting \cup Looking
        /\ pc'[t] \notin Aborting \cup {"suspend", "created", "prepare"}
        /\ pc[t] \in Holding => pc'[t] \in Holding
    BY <2>2 DEF Starting, Aborting, Holding, Looking, FinishPCs
  <2>4. t # active.task
    <3>1. pc[t] # "finish" => pc[t] \notin BodyPCs
      BY <2>2 DEF BodyPCs
    <3> QED  BY <1>0, <2>2, <3>1 DEF WorkInv, LiveTask
  <2>5. HasTrigger' => HasTrigger
    BY <2>1 DEF HasTrigger
  <2>6. \A u \in Turns : pc'[u] = "created" => pc[u] = "created"
    BY <1>0, <2>1, <2>3
  <2> QED  BY <1>0, <2>1, <2>3, <2>4, <2>5, <2>6, WorkMove
<1>3. CASE ReleaseSlot(t)
  <2>1. PICK next : /\ next = (IF active = [ts |-> loc[t].ts, task |-> None] THEN "wake" ELSE "done")
                    /\ pc' = [pc EXCEPT ![t] = next]
    BY <1>3 DEF ReleaseSlot, Step
  <2>2. /\ pc[t] = "release" /\ ClearReserved(t) /\ turn' = turn /\ mailbox' = mailbox
        /\ \A q \in Procs \ {t} : loc'[q] = loc[q]
    BY <1>0, <1>3 DEF ReleaseSlot
  <2>3. pc[t] \in Holding
    BY <2>2 DEF Holding, FinishPCs
  <2> QED  BY <1>0, <2>1, <2>2, <2>3, GiveBackWork
<1> QED  BY <1>1, <1>2, <1>3 DEF FinishStep

\* Aborting the turn that is replaced.
LEMMA AbortWork ==
    ASSUME TurnInv, WorkInv, NEW p \in Procs, AbortStep(p)
    PROVE  WorkInv'
<1>0. /\ pc \in [Procs -> PCs] /\ loc \in [Procs -> Locals] /\ Loop \notin Turns
      /\ turn \in [Turns -> Contexts] /\ Turns \subseteq Procs /\ Loop \in Procs
      /\ None \notin Turns /\ active.task \in Turns \cup {None} /\ p # None
  BY WorkTypes, ConstantsAssumption DEF Procs
<1>1. /\ pc[p] \in {"take", "cancel", "emit", "clear"} /\ loc[p].reason = "Replaced"
      /\ p \notin Turns
  BY DEF AbortStep, TakeActive, StopVictim, EmitAborted, ClearPending, WorkInv, Replacing, Aborting
<1>2. "cancel" \in Looking \cap Starting /\ "clear" \in Looking \cap Starting
      /\ "drain" \in Looking \cap Starting /\ "emit" \in Looking \cap Starting
  BY DEF Looking, Starting, Aborting
<1>3. CASE TakeActive(p)
  <2>1. /\ active' = NoActive /\ mailbox' = mailbox
        /\ \A q \in Procs \ {p} : pc'[q] = pc[q] /\ loc'[q] = loc[q]
    BY <1>0, <1>3 DEF TakeActive, TakeAndCancel
  <2>2. pc'[p] \in {"cancel", "clear", "drain"}
    BY <1>0, <1>1, <1>3 DEF TakeActive, TakeAndCancel
  <2>3. loc'[p].reason = "Replaced"
    <3>1. CASE HasTask
      <4>1. PICK n : TakeAndCancel(p, "Replaced", n)
        BY <1>1, <1>3 DEF TakeActive
      <4>2. PICK b : b = [Blank EXCEPT !.victim = active.task, !.ts = active.ts, !.new = n,
                                       !.reason = "Replaced"]
        OBVIOUS
      <4>3. loc'[p] = b
        BY <1>0, <3>1, <4>1, <4>2 DEF TakeAndCancel
      <4> QED  BY <4>2, <4>3 DEF Blank
    <3>2. CASE ~HasTask
      BY <1>1, <1>3, <3>2 DEF TakeActive, TakeAndCancel
    <3> QED  BY <3>1, <3>2
  <2>4. Replacing'
    BY <1>1, <2>1, <2>2, <2>3 DEF WorkInv, Replacing, Aborting
  <2>5. LiveTask'
    <3>1. active'.task = None
      BY <2>1 DEF NoActive
    <3>2. \A u \in Turns : pc[u] = "created" => turn'[u].cancelled = turn[u].cancelled
      <4>1. active.task # None => pc[active.task] # "created"
        BY DEF TurnInv, SpawnedTasks
      <4> QED  BY <1>0, <1>3, <4>1 DEF TakeActive, TakeAndCancel, HasTask
    <3>3. \A u \in Turns : pc'[u] = pc[u]
      BY <1>0, <1>1, <2>1
    <3> QED  BY <3>1, <3>2, <3>3 DEF WorkInv, LiveTask
  <2>6. Minded' /\ Pursued'
    BY <1>2, <2>1, <2>2 DEF Minded, Pursued, NoActive
  <2>7. Prepared'
    BY <1>0, <2>1, <2>2 DEF WorkInv, Prepared, HasTrigger
  <2> QED  BY <2>4, <2>5, <2>6, <2>7 DEF WorkInv
<1>4. CASE StopVictim(p)
  <2>1. PICK v \in Turns : v = loc[p].victim
    BY <1>4 DEF StopVictim, TurnInv, LocalsInUse
  <2>2. /\ pc' = [pc EXCEPT ![p] = "emit", ![v] = "done"] /\ loc' = [loc EXCEPT ![v] = Blank]
        /\ active' = active /\ mailbox' = mailbox /\ turn' = [turn EXCEPT ![v].input = {}]
    BY <1>4, <2>1 DEF StopVictim
  <2>3. /\ pc'[p] = "emit" /\ pc'[v] = "done" /\ loc'[p] = loc[p]
        /\ \A q \in Procs \ {p, v} : pc'[q] = pc[q] /\ loc'[q] = loc[q]
    BY <1>0, <1>1, <2>1, <2>2
  <2>4. v # active.task
    BY <1>0, <2>1 DEF TurnInv, HandleUnique
  <2>5. \A u \in Turns : turn'[u].cancelled = turn[u].cancelled
    BY <1>0, <2>2 DEF Contexts
  <2>6. Replacing'
    BY <1>1, <2>3 DEF WorkInv, Replacing, Aborting
  <2>7. LiveTask'
    BY <1>0, <1>1, <2>2, <2>3, <2>4, <2>5 DEF WorkInv, LiveTask
  <2>8. Minded' /\ Pursued'
    BY <1>2, <2>3 DEF Minded, Pursued
  <2>9. Prepared'
    BY <1>0, <2>1, <2>2, <2>3 DEF WorkInv, Prepared, HasTrigger
  <2> QED  BY <2>6, <2>7, <2>8, <2>9 DEF WorkInv
<1>5. CASE EmitAborted(p) \/ ClearPending(p)
  <2>1. /\ active' = active /\ turn' = turn /\ mailbox' = mailbox
        /\ \A q \in Procs \ {p} : pc'[q] = pc[q] /\ loc'[q] = loc[q]
        /\ pc'[p] \in {"clear", "drain"}
    BY <1>0, <1>1, <1>5 DEF EmitAborted, ClearPending
  <2>2. loc'[p].reason = loc[p].reason
    BY <1>0, <1>5 DEF EmitAborted, ClearPending, Locals
  <2>3. pc[p] \notin Holding
    BY <1>1 DEF Holding, FinishPCs
  <2>4. HasTrigger' => HasTrigger
    BY <2>1 DEF HasTrigger
  <2>5. \A u \in Turns : pc'[u] = pc[u]
    BY <1>0, <1>1, <2>1
  <2>6. p # active.task
    BY <1>0, <1>1
  <2> QED  BY <1>0, <1>1, <1>2, <2>1, <2>2, <2>3, <2>4, <2>5, <2>6, WorkMove
<1> QED  BY <1>3, <1>4, <1>5 DEF AbortStep

\* Looking at the mailbox and reserving the slot for the work in it.
LEMMA LookWork ==
    ASSUME TurnInv, WorkInv, DurableSleep = FALSE, NEW p \in Procs,
           CheckWork(p) \/ ReserveForWork(p) \/ CollectWork(p) \/ (\E t \in Turns : FillReserved(p, t))
    PROVE  WorkInv'
<1>0. /\ pc \in [Procs -> PCs] /\ loc \in [Procs -> Locals] /\ Turns \subseteq Procs
      /\ Home(p) \in {"done", "idle", "exited"} /\ active.task \in Turns \cup {None} /\ p # None
  BY WorkTypes, ConstantsAssumption DEF Procs, Home
<1>1. ASSUME NEW t \in Turns, FillReserved(p, t)
      PROVE  WorkInv'
  <2>1. /\ pc[p] = "fill" /\ pc' = [pc EXCEPT ![p] = "drain", ![t] = "created"]
        /\ active' = active /\ mailbox' = mailbox /\ \A q \in Procs \ {p} : loc'[q] = loc[q]
        /\ NewTurn(t, "Regular", {})
    BY <1>0, <1>1 DEF FillReserved
  <2>2. pc[p] \notin {"unborn", "created"} \cup BodyPCs \cup Starting \cup Looking
    BY <2>1 DEF BodyPCs, Starting, Aborting, Looking
  <2> QED  BY <2>1, <2>2, CreateWork
<1>2. CASE ReserveForWork(p) /\ active.ts = None
  <2>1. /\ Reserve /\ pc[p] = "reserve" /\ pc' = [pc EXCEPT ![p] = "collect"]
        /\ turn' = turn /\ mailbox' = mailbox /\ \A q \in Procs \ {p} : loc'[q] = loc[q]
    BY <1>0, <1>2 DEF ReserveForWork
  <2>2. loc'[p].ts = FreshState
    BY <1>0, <1>2 DEF ReserveForWork, Locals
  <2> QED  BY <2>1, <2>2, ReserveWork
<1>3. CASE CheckWork(p) \/ (ReserveForWork(p) /\ active.ts # None) \/ CollectWork(p)
  <2>1. /\ active' = active /\ turn' = turn
        /\ \A q \in Procs \ {p} : pc'[q] = pc[q] /\ loc'[q] = loc[q]
    BY <1>0, <1>3 DEF CheckWork, ReserveForWork, CollectWork, Return, GetPendingInput
  <2>2. mailbox' \subseteq mailbox
    BY <1>3 DEF CheckWork, ReserveForWork, CollectWork, GetPendingInput
  <2>3. \/ pc[p] = "wake" /\ pc'[p] = "reserve"
        \/ pc[p] = "wake" /\ pc'[p] = Home(p) /\ ~WorkWaiting
        \/ pc[p] = "reserve" /\ pc'[p] = Home(p) /\ active.ts # None
        \/ pc[p] = "collect" /\ pc'[p] = "fill"
    BY <1>0, <1>3 DEF CheckWork, ReserveForWork, CollectWork, Return, GetPendingInput
  <2>4. pc[p] = "collect" => loc'[p].ts = loc[p].ts
    BY <1>0, <1>3 DEF CheckWork, ReserveForWork, CollectWork, GetPendingInput, Locals
  <2>5. HasTrigger' => HasTrigger /\ WorkWaiting
    BY <2>2 DEF HasTrigger, WorkWaiting
  <2>6. /\ pc[p] \notin Starting /\ pc'[p] \notin Aborting \cup {"suspend", "created", "prepare"}
        /\ pc[p] \in Holding => pc[p] = "collect" /\ pc'[p] \in Holding
        /\ pc[p] \in Looking => pc'[p] \in Looking \/ ~WorkWaiting \/ active.ts # None
    BY <1>0, <2>3 DEF Starting, Aborting, Holding, Looking, FinishPCs
  <2>7. p # active.task
    <3>1. pc[p] \notin BodyPCs
      BY <2>3 DEF BodyPCs
    <3> QED  BY <1>0, <3>1 DEF WorkInv, LiveTask
  <2>8. \A u \in Turns : pc'[u] = "created" => pc[u] = "created"
    BY <1>0, <2>1, <2>6
  <2> QED  BY <2>1, <2>4, <2>5, <2>6, <2>7, <2>8, WorkMove
<1> QED  BY <1>1, <1>2, <1>3

\* start_task: the mailbox is drained, the slot filled and the task installed.
LEMMA StartWork ==
    ASSUME TurnInv, NewHeld, WorkInv, NEW p \in Procs,
           DrainMailbox(p) \/ AttachState(p) \/ InstallTask(p)
    PROVE  WorkInv'
<1>0. /\ pc \in [Procs -> PCs] /\ loc \in [Procs -> Locals] /\ Turns \subseteq Procs
      /\ Home(p) \in {"done", "idle", "exited"} /\ active.task \in Turns \cup {None} /\ p # None
      /\ turn \in [Turns -> Contexts] /\ Loop \in Procs /\ None \notin Turns /\ None \notin TStates
      /\ active.ts \in TStates \cup {None}
  BY WorkTypes, ConstantsAssumption DEF Procs, Home
<1>1. CASE DrainMailbox(p)
  <2>1. /\ active' = active /\ turn' = turn /\ pc[p] = "drain" /\ pc'[p] = "attach"
        /\ \A q \in Procs \ {p} : pc'[q] = pc[q] /\ loc'[q] = loc[q]
        /\ ~HasTrigger'
    BY <1>0, <1>1 DEF DrainMailbox, HasTrigger
  <2>2. pc[p] \notin Holding \cup BodyPCs /\ pc'[p] \in Starting \ Aborting
    BY <2>1 DEF Starting, Aborting, Holding, FinishPCs, BodyPCs
  <2>3. p # active.task
    BY <1>0, <2>2 DEF WorkInv, LiveTask
  <2>4. \A u \in Turns : pc'[u] = "created" => pc[u] = "created"
    BY <1>0, <2>1
  <2> QED  BY <2>1, <2>2, <2>3, <2>4, WorkMove
<1>2. CASE AttachState(p)
  <2>1. PICK s : s = SlotState
    OBVIOUS
  <2>2. s # None
    BY <1>0, <1>2, <2>1, FreshStateIn DEF AttachState, SlotState, CanFillSlot
  <2>3. /\ active'.ts = s /\ active'.task = active.task /\ turn' = turn /\ mailbox' = mailbox
        /\ pc[p] = "attach" /\ pc'[p] = "install"
        /\ \A q \in Procs \ {p} : pc'[q] = pc[q] /\ loc'[q] = loc[q]
    BY <1>0, <1>2, <2>1, Types DEF AttachState
  <2>4. Replacing'
    BY <2>3 DEF WorkInv, Replacing, Aborting
  <2>5. LiveTask'
    <3>1. active.task # None => active.task # p
      BY <2>3 DEF WorkInv, LiveTask, BodyPCs
    <3> QED  BY <1>0, <2>3, <3>1 DEF WorkInv, LiveTask
  <2>6. Minded' /\ Pursued'
    BY <2>2, <2>3 DEF Minded, Pursued, Starting
  <2>7. Prepared'
    BY <1>0, <2>3 DEF WorkInv, Prepared, HasTrigger
  <2> QED  BY <2>4, <2>5, <2>6, <2>7 DEF WorkInv
<1>3. CASE InstallTask(p)
  <2>1. PICK t \in Turns : t = loc[p].new
    BY <1>3 DEF InstallTask, NewHeld, Starts
  <2>2. PICK old : old = active.task
    OBVIOUS
  <2>3. PICK s : s = SlotState
    OBVIOUS
  <2>4. s # None
    BY <1>0, <1>3, <2>3, FreshStateIn DEF InstallTask, SlotState, CanFillSlot
  <2>5. /\ active'.ts = s /\ active'.task = t /\ mailbox' = mailbox
        /\ pc' = [q \in Procs |-> CASE q = t -> "begin" [] q = p -> Home(p)
                                    [] q = old -> "done" [] OTHER -> pc[q]]
        /\ loc' = [q \in Procs |-> IF q \in {p, old} THEN Blank ELSE loc[q]]
        /\ turn' = [q \in Turns |-> IF q = old THEN [turn[q] EXCEPT !.input = {}] ELSE turn[q]]
    BY <1>3, <2>1, <2>2, <2>3 DEF InstallTask
  <2>6. pc[t] = "created" /\ t # p /\ t # old
    BY <1>0, <1>3, <2>1, <2>2 DEF InstallTask, TurnInv, StartingTurns, SpawnedTasks
  <2>7. \A q \in Procs : \/ pc'[q] \in {"begin", "done", "idle", "exited"}
                         \/ pc'[q] = pc[q] /\ loc'[q] = loc[q]
    BY <1>0, <2>5
  <2>8. pc'[t] = "begin"
    BY <1>0, <2>1, <2>5, <2>6
  <2>9. \A u \in Turns : turn'[u].cancelled = turn[u].cancelled
    BY <1>0, <2>5 DEF Contexts
  <2>10. Replacing'
    BY <2>7 DEF WorkInv, Replacing, Aborting
  <2>11. LiveTask'
    BY <1>0, <2>5, <2>6, <2>7, <2>8, <2>9 DEF WorkInv, LiveTask, BodyPCs
  <2>12. Minded' /\ Pursued'
    BY <1>0, <2>4, <2>5 DEF Minded, Pursued
  <2>13. Prepared'
    BY <1>0, <2>5, <2>7 DEF WorkInv, Prepared, HasTrigger
  <2> QED  BY <2>10, <2>11, <2>12, <2>13 DEF WorkInv
<1> QED  BY <1>1, <1>2, <1>3

\* A shutdown is not undone: the loop does not become idle again.
LEMMA ClosingStays ==
    ASSUME TurnInv, Guards = {}, Closing, [Next]_vars
    PROVE  Closing'
<1>0. /\ pc \in [Procs -> PCs] /\ loc \in [Procs -> Locals] /\ Turns \subseteq Procs
      /\ Loop \in Procs /\ Loop \notin Turns /\ active.task \in Turns \cup {None} /\ Loop # None
  BY WorkTypes, ConstantsAssumption
<1> DEFINE Same == pc'[Loop] = pc[Loop] /\ loc'[Loop] = loc[Loop]
           On == /\ loc'[Loop].reason = "Shutdown"
                 /\ pc'[Loop] \in Starting \cup Looking \cup {"collect", "fill"}
<1>1. pc[Loop] \notin {"idle", "recheck", "prepare", "suspend"}
  BY DEF Closing, Starting, Looking, Aborting
<1>2. Same \/ On \/ pc'[Loop] = "exited" => Closing'
  BY DEF Closing
<1>3. CASE LoopOp \/ IdleStep
  BY <1>1, <1>3 DEF LoopOp, IdleStep, StartOther, AbortAll, Communicate, ReserveIdle, Suspend,
     RecheckIdle, RefuseIdle, AcceptIdle, SuspendDone
<1>4. CASE Inject \/ UNCHANGED vars
  BY <1>2, <1>4 DEF Inject, InjectNoNewTurn, InjectHookContext, vars
<1>5. ASSUME NEW p \in {Loop} \cup Routers, Submit(p)
      PROVE  Closing'
  <2>0. p # Loop \/ \E u \in UserInputs : Steer(p, u)
    BY <1>1, <1>5 DEF Submit, StartTurn
  <2>1. CASE \E u \in UserInputs : Steer(p, u)
    BY <1>2, <2>1 DEF Steer
  <2>2. ASSUME NEW u \in UserInputs, NEW t \in Turns, StartTurn(p, u, t), p # Loop
        PROVE  Same
    BY <1>0, <2>2 DEF StartTurn
  <2> QED  BY <1>2, <1>5, <2>0, <2>1, <2>2 DEF Submit
<1>6. ASSUME NEW t \in Turns, TurnStep(t) \/ FinishStep(t)
      PROVE  Closing'
  <2>1. pc'[Loop] = pc[Loop]
    BY <1>0, <1>6 DEF TurnStep, FinishStep, BeginTurn, CancelPrewarm, EnterTurn, FailEntry,
     DrainPending, RecordPending, FollowUp, RecoverWindow, FinalAnswer, FailSampling, AfterAnswer,
     AfterRunTurn, EndTurn, FinishTake, SettlePending, EmitTerminal, ReleaseSlot, RecordInputs,
     GetPendingInput, Step
  <2>2. loc'[Loop] = loc[Loop]
    BY <1>0, <1>6 DEF TurnStep, FinishStep, BeginTurn, CancelPrewarm, EnterTurn, FailEntry,
     DrainPending, RecordPending, FollowUp, RecoverWindow, FinalAnswer, FailSampling, AfterAnswer,
     AfterRunTurn, EndTurn, FinishTake, SettlePending, EmitTerminal, ReleaseSlot, GetPendingInput
  <2> QED  BY <1>2, <2>1, <2>2
<1>7. ASSUME NEW p \in Procs, AbortStep(p)
      PROVE  Closing'
  <2>0. p = Loop => loc[Loop].reason = "Shutdown" /\ Home(p) = "exited"
    BY <1>0, <1>7 DEF AbortStep, TakeActive, StopVictim, EmitAborted, ClearPending, Closing, Home
  <2>1. CASE TakeActive(p) /\ p # Loop
    BY <1>0, <1>2, <2>1 DEF TakeActive, TakeAndCancel
  <2>2. CASE TakeActive(p) /\ p = Loop
    <3>1. CASE HasTask
      <4>0. PICK b : b = [Blank EXCEPT !.victim = active.task, !.ts = active.ts,
                                       !.new = loc[Loop].new, !.reason = "Shutdown"]
        OBVIOUS
      <4>1. loc'[Loop].reason = "Shutdown"
        <5>1. loc'[Loop] = b
          BY <1>0, <2>0, <2>2, <3>1, <4>0 DEF TakeActive, TakeAndCancel
        <5> QED  BY <4>0, <5>1 DEF Blank
      <4>2. pc'[Loop] \in {"clear", "cancel"}
        BY <1>0, <2>2, <3>1 DEF TakeActive, TakeAndCancel
      <4> QED  BY <1>2, <4>1, <4>2 DEF Starting, Aborting
    <3>2. CASE ~HasTask
      BY <1>0, <1>2, <2>0, <2>2, <3>2 DEF TakeActive, TakeAndCancel
    <3> QED  BY <3>1, <3>2
  <2>3. CASE StopVictim(p)
    <3>1. PICK v \in Turns : v = loc[p].victim
      BY <2>3 DEF StopVictim, TurnInv, LocalsInUse
    <3>2. /\ pc' = [pc EXCEPT ![p] = "emit", ![v] = "done"] /\ loc' = [loc EXCEPT ![v] = Blank]
      BY <2>3, <3>1 DEF StopVictim
    <3>3. loc'[Loop] = loc[Loop] /\ pc'[Loop] = (IF p = Loop THEN "emit" ELSE pc[Loop])
      BY <1>0, <3>1, <3>2
    <3> QED  BY <1>2, <2>0, <3>3 DEF Starting, Aborting
  <2>4. CASE EmitAborted(p)
    BY <1>0, <1>2, <2>0, <2>4 DEF EmitAborted, Starting, Aborting
  <2>5. CASE ClearPending(p)
    <3>1. loc'[Loop].reason = loc[Loop].reason /\ (p # Loop => loc'[Loop] = loc[Loop])
      BY <1>0, <2>5 DEF ClearPending, Locals
    <3>2. IF p = Loop THEN pc'[Loop] = "wake" ELSE pc'[Loop] = pc[Loop]
      BY <1>0, <2>0, <2>5 DEF ClearPending
    <3> QED  BY <1>2, <2>0, <3>1, <3>2 DEF Looking
  <2> QED  BY <1>7, <2>1, <2>2, <2>3, <2>4, <2>5 DEF AbortStep
<1>8. ASSUME NEW p \in Procs, StartStep(p)
      PROVE  Closing'
  <2>0. p = Loop => loc[Loop].reason = "Shutdown" /\ Home(p) = "exited"
    BY <1>0, <1>8 DEF StartStep, CheckWork, ReserveForWork, CollectWork, FillReserved, DrainMailbox,
       AttachState, InstallTask, Closing, Home
  <2>1. CASE CheckWork(p) \/ ReserveForWork(p) \/ CollectWork(p)
    <3>1. p # Loop => Same
      BY <1>0, <2>1 DEF CheckWork, ReserveForWork, CollectWork, Return, GetPendingInput
    <3>2. p = Loop => pc'[Loop] = "exited" \/ pc'[Loop] \in {"reserve", "collect", "fill"}
      BY <1>0, <2>0, <2>1 DEF CheckWork, ReserveForWork, CollectWork, Return, GetPendingInput
    <3>3. p = Loop => pc'[Loop] = "exited" \/ loc'[Loop].reason = loc[Loop].reason
      BY <1>0, <2>0, <2>1 DEF CheckWork, ReserveForWork, CollectWork, Return, GetPendingInput, Locals
    <3> QED  BY <1>2, <2>0, <3>1, <3>2, <3>3 DEF Looking
  <2>2. ASSUME NEW t \in Turns, FillReserved(p, t)
        PROVE  Closing'
    <3>1. pc'[Loop] = (IF p = Loop THEN "drain" ELSE pc[Loop])
      BY <1>0, <2>2 DEF FillReserved
    <3>2. loc'[Loop].reason = loc[Loop].reason /\ (p # Loop => loc'[Loop] = loc[Loop])
      BY <1>0, <2>2 DEF FillReserved, Locals
    <3> QED  BY <1>2, <2>0, <3>1, <3>2 DEF Looking
  <2>3. CASE DrainMailbox(p) \/ AttachState(p)
    <3>1. IF p = Loop THEN pc'[Loop] \in {"attach", "install"} ELSE pc'[Loop] = pc[Loop]
      BY <1>0, <2>3 DEF DrainMailbox, AttachState
    <3>2. loc'[Loop].reason = loc[Loop].reason /\ (p # Loop => loc'[Loop] = loc[Loop])
      BY <1>0, <2>3 DEF DrainMailbox, AttachState, Locals
    <3> QED  BY <1>2, <2>0, <3>1, <3>2 DEF Starting
  <2>4. CASE InstallTask(p)
    <3>1. PICK t, old : /\ t = loc[p].new /\ old = active.task
      OBVIOUS
    <3>2. /\ pc' = [q \in Procs |-> CASE q = t -> "begin" [] q = p -> Home(p)
                                    [] q = old -> "done" [] OTHER -> pc[q]]
          /\ loc' = [q \in Procs |-> IF q \in {p, old} THEN Blank ELSE loc[q]]
      BY <2>4, <3>1 DEF InstallTask
    <3>3. Loop # t /\ Loop # old
      BY <1>0, <3>1 DEF Locals
    <3> QED  BY <1>0, <1>2, <2>0, <3>2, <3>3
  <2> QED  BY <1>8, <2>1, <2>2, <2>3, <2>4 DEF StartStep
<1> QED  BY <1>3, <1>4, <1>5, <1>6, <1>7, <1>8 DEF Next

\* A step of an uninterrupted session that is not shutting down.
LEMMA StepWork ==
    ASSUME TurnInv, NewHeld, Uninterrupted, WorkInv, [Next]_vars
    PROVE  Closing' \/ WorkInv'
<1>0. pc \in [Procs -> PCs] /\ loc \in [Procs -> Locals] /\ Loop \in Procs
  BY WorkTypes
<1>1. CASE LoopOp
  <2>1. ASSUME NEW reason \in AbortOps \ {"Suspend"}, AbortAll(reason)
        PROVE  Closing'
    <3>1. reason = "Shutdown"
      BY ConstantsAssumption DEF Uninterrupted
    <3>2. loc'[Loop].reason = "Shutdown" /\ pc'[Loop] = "take"
      BY <1>0, <2>1, <3>1 DEF AbortAll, Blank
    <3> QED  BY <3>2 DEF Closing, Starting, Aborting
  <2> QED  BY <1>1, <2>1, LoopOpWork, IdleWork DEF LoopOp, Uninterrupted
<1>2. CASE Inject
  BY <1>2 DEF Inject, InjectNoNewTurn, InjectHookContext, WorkInv, Replacing, LiveTask, Minded,
     Pursued, Prepared, HasTrigger
<1>3. CASE UNCHANGED vars
  BY <1>3 DEF vars, WorkInv, Replacing, LiveTask, Minded, Pursued, Prepared, HasTrigger
<1>4. CASE \E p \in Guards : GuardianAbort(p)
  BY <1>4 DEF Uninterrupted
<1>5. CASE \E p \in Procs : AbortStep(p) \/ StartStep(p)
  BY <1>5, AbortWork, LookWork, StartWork DEF StartStep, Uninterrupted
<1> QED  BY <1>1, <1>2, <1>3, <1>4, <1>5, SubmitWork, IdleWork, TurnStepWork, FinishWork DEF Next

\* Initially the slot and the mailbox are empty.
LEMMA InitWork == Init => WorkInv
<1> SUFFICES ASSUME Init PROVE WorkInv
  OBVIOUS
<1>1. /\ active.ts = None /\ active.task = None /\ ~HasTrigger
      /\ \A p \in Procs : pc[p] \in {"unborn", "idle"}
      /\ Turns \subseteq Procs /\ Loop \in Procs
  BY DEF Init, NoActive, HasTrigger, Procs
<1> QED  BY <1>1 DEF WorkInv, Replacing, LiveTask, Minded, Pursued, Prepared, Aborting

\* Mail that asks for a turn never waits in a session in which nothing runs:
\* with any number of routers, injections and turns replaced by others, the
\* wake-up is not lost unless somebody interrupts.
THEOREM WorkIsPursued == ASSUME Uninterrupted PROVE Spec => []NoStuckWork
<1>1. Init => Closing \/ WorkInv
  BY InitWork
<1>2. TurnInv /\ NewHeld /\ (Closing \/ WorkInv) /\ [Next]_vars => (Closing \/ WorkInv)'
  BY StepWork, ClosingStays DEF Uninterrupted
<1>3. TurnInv /\ (Closing \/ WorkInv) => NoStuckWork
  <2> SUFFICES ASSUME TurnInv, Closing \/ WorkInv, Quiet, WorkWaiting PROVE FALSE
    BY DEF NoStuckWork
  <2>1. pc[Loop] = "idle" /\ \A p \in Procs : pc[p] \notin Starting \cup Looking \cup Holding \cup BodyPCs
    BY DEF Quiet, Starting, Looking, Aborting, Holding, FinishPCs, BodyPCs
  <2>2. WorkInv
    BY <2>1 DEF Closing, Starting, Looking, Aborting
  <2>3. HasTrigger
    BY DEF WorkWaiting, Uninterrupted
  <2>4. active.ts # None
    BY <2>1, <2>2, <2>3 DEF WorkInv, Pursued
  <2>5. active.task # None
    BY <2>1, <2>2, <2>4 DEF WorkInv, Minded
  <2>6. active.task \in Procs
    BY <2>5, WorkTypes
  <2> QED  BY <2>1, <2>2, <2>5, <2>6 DEF WorkInv, LiveTask
<1>4. Init => NewHeld
  BY InitHeld
<1>5. TurnInv /\ NewHeld /\ [Next]_vars => NewHeld'
  BY StepHeld
<1> QED  BY <1>1, <1>2, <1>3, <1>4, <1>5, TurnInvariance, PTL DEF Spec
=============================================================================
