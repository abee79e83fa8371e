----------------------------- MODULE RolloutLog -----------------------------
(***************************************************************************)
(* The durable history of one thread: the rollout JSONL file, the writer   *)
(* task of every recorder opened on it (rollout/src/recorder.rs,           *)
(* ordinal.rs), the thread store's operations on it                        *)
(* (thread-store/src/local/live_writer.rs, update_thread_metadata.rs) and  *)
(* the SQLite projection that trails it (thread_history*.rs).              *)
(*                                                                         *)
(* A line of the file is [item, ord, ok]; ok says that the bytes of the    *)
(* line parse as a record.  `ended` says that the last byte of the file is *)
(* a newline.  Thread-store operations hold the thread's live_writer lock, *)
(* so there is one client; metadata updates append without the lock.       *)
(***************************************************************************)
EXTENDS Naturals, Sequences

CONSTANTS
    Items,          \* rollout items, each recorded at most once
    Meta,           \* the SessionMeta record
    MetaUpdate,     \* a SessionMeta record of a metadata update
    Modes,          \* the ThreadHistoryModes considered
    BaseOrdinal,    \* history_base.end_ordinal_exclusive, else 0
    MaxOrdinal,     \* u64::MAX
    Capacity,       \* of the command channel
    MaxWriters,     \* bound: recorders opened on the file
    Bounds          \* per mode: failing I/O operations, process crashes,
                    \* metadata updates, and the lifecycle operations used

Writers == 1..MaxWriters
NoOrdinal == MaxOrdinal + 1

ASSUME RolloutAssumption ==
    /\ Meta \notin Items /\ MetaUpdate \notin Items /\ Meta # MetaUpdate
    /\ Modes \subseteq {"Legacy", "Paginated"}
    /\ BaseOrdinal \in Nat /\ MaxOrdinal \in Nat /\ BaseOrdinal <= MaxOrdinal
    /\ Capacity \in Nat \ {0} /\ MaxWriters \in Nat \ {0}
    /\ Bounds \in [Modes -> [faults : Nat, crashes : Nat, updates : Nat,
                             ops : SUBSET {"Cancel", "Discard"}]]

VARIABLES
    mode,       \* the thread's ThreadHistoryMode
    file,       \* the lines of the rollout file
    ended,      \* the file is empty or ends with a newline
    exists,     \* the file has been created
    w,          \* RolloutWriterState of every writer task, and where it is
    chan,       \* the command channel of every writer task
    recorder,   \* LocalThreadStore::live_recorders; 0: no live recorder
    client,     \* the operation that holds the live_writer lock
    updater,    \* update_thread_metadata's append to the path
    db,         \* the projection: checkpoint (lines, ordinal) and items
    accepted,   \* per recorder, the items it accepted, in order
    acked,      \* items a successful operation has promised durable
    count       \* I/O faults, crashes and metadata updates so far

vars == <<mode, file, ended, exists, w, chan, recorder, client, updater, db,
          accepted, acked, count>>

Paginated == mode = "Paginated"
Bound == Bounds[mode]

Records == Items \cup {Meta, MetaUpdate}
Line(item, ord, ok) == [item |-> item, ord |-> ord, ok |-> ok]
Lines == [item : Records, ord : 0..NoOrdinal, ok : BOOLEAN]

WriterPCs == {"unused", "recv", "open", "meta", "items", "stopped"}
CmdOps    == {"Add", "Persist", "Flush", "Shutdown"}
Commands  == [op : CmdOps, item : Records, ack : BOOLEAN]
ClientPCs == {"idle", "add", "wait", "project"}
Outcomes  == {"none", "torn", "bare", "whole"}

Unused == [pc |-> "unused", cmd |-> [op |-> "Flush", item |-> Meta, ack |-> FALSE],
           open |-> FALSE, deferred |-> FALSE, meta |-> FALSE,
           pending |-> <<>>, next |-> BaseOrdinal, tries |-> 0]

\* The type of the state; a command is tried at most twice.
TypeOK ==
    /\ mode \in Modes
    /\ file \in Seq(Lines)
    /\ ended \in BOOLEAN
    /\ exists \in BOOLEAN
    /\ w \in [Writers -> [pc : WriterPCs, cmd : Commands, open : BOOLEAN,
                          deferred : BOOLEAN, meta : BOOLEAN,
                          pending : Seq(Items), next : 0..NoOrdinal,
                          tries : 0..2]]
    /\ chan \in [Writers -> Seq(Commands)]
    /\ recorder \in 0..MaxWriters
    /\ client \in [pc : ClientPCs, op : CmdOps]
    /\ updater \in {"idle", "write"}
    /\ db \in [off : Nat, next : 0..NoOrdinal, rows : SUBSET Records]
    /\ accepted \in [Writers -> Seq(Items)]
    /\ acked \subseteq Items
    /\ count \in [faults : 0..Bound.faults, crashes : 0..Bound.crashes,
                  updates : 0..Bound.updates]

\* RolloutRecorderParams::Create: nothing is written until the first barrier.
Init ==
    /\ mode \in Modes
    /\ file = <<>> /\ ended = TRUE /\ exists = FALSE
    /\ w = [n \in Writers |-> IF n = 1
                              THEN [Unused EXCEPT !.pc = "recv", !.meta = TRUE,
                                                  !.deferred = TRUE]
                              ELSE Unused]
    /\ chan = [n \in Writers |-> <<>>]
    /\ recorder = 1
    /\ client = [pc |-> "idle", op |-> "Flush"]
    /\ updater = "idle"
    /\ db = [off |-> 0, next |-> BaseOrdinal, rows |-> {}]
    /\ accepted = [n \in Writers |-> <<>>]
    /\ acked = {}
    /\ count = [faults |-> 0, crashes |-> 0, updates |-> 0]

(***************************************************************************)
(* The file.                                                               *)
(***************************************************************************)
Elems(s) == {s[i] : i \in DOMAIN s}
OkLines == {i \in DOMAIN file : file[i].ok}
Parsed == {file[i].item : i \in OkLines}

\* RolloutOrdinalState: Legacy records carry no ordinal; a paginated writer
\* past u64::MAX cannot write.
Exhausted(n) == Paginated /\ w[n].next = NoOrdinal
OrdinalOf(n) == IF Paginated THEN w[n].next ELSE NoOrdinal
\* Mutant: the ordinal saturates at its maximum.
AdvanceSaturates(ord) == IF Paginated /\ ord < MaxOrdinal THEN ord + 1 ELSE ord

Advance(ord) == IF Paginated THEN ord + 1 ELSE ord

\* write_line: the whole line reaches the file, or the write fails after
\* nothing, a part that does not parse, or all but the final newline.  Bytes
\* after an unterminated line join that line, which no longer parses.
Put(line, outcome) ==
    /\ file' = IF outcome = "none" THEN file
               ELSE IF ended
               THEN Append(file, [line EXCEPT !.ok = outcome # "torn"])
               ELSE [file EXCEPT ![Len(file)].ok = FALSE]
    /\ ended' = IF outcome = "none" THEN ended ELSE outcome = "whole"

Fault == /\ count.faults < Bound.faults
         /\ count' = [count EXCEPT !.faults = @ + 1]

\* read_session_meta_line skips what does not parse; ordinal_state_for_rollout
\* insists that the first line parses.
HasMeta == Meta \in Parsed
FirstParses == file # <<>> => file[1].ok
\* Mutant: resuming reads the ordinal of the first record.
FirstOrdinal == file[1].ord

LastOrdinal == file[CHOOSE i \in OkLines : \A j \in OkLines : j <= i].ord

(***************************************************************************)
(* The writer task.                                                        *)
(***************************************************************************)
IsDeferred(n) == ~w[n].open /\ w[n].deferred

\* The command is answered; an ack nobody waits for any more is dropped.
Reply(n, cmd, ok) ==
    /\ client' = IF ~cmd.ack THEN client
                 ELSE [client EXCEPT !.pc = IF ok THEN "project" ELSE "idle"]
    /\ acked' = IF cmd.ack /\ ok THEN acked \cup Elems(accepted[n]) ELSE acked

AfterReply(cmd, ok) == IF cmd.op = "Shutdown" /\ ok THEN "stopped" ELSE "recv"

\* Mutant: a barrier on a deferred rollout answers Ok whatever is pending.
ReceiveDeferredOk(n) ==
    /\ w[n].pc = "recv" /\ chan[n] # <<>>
    /\ LET cmd == Head(chan[n])
           idle == IsDeferred(n) /\ cmd.op # "Persist"
       IN /\ chan' = [chan EXCEPT ![n] = Tail(@)]
          /\ w' = [w EXCEPT ![n].pending = IF cmd.op = "Add"
                                           THEN Append(@, cmd.item) ELSE @,
                            ![n].cmd = cmd,
                            ![n].pc = IF idle THEN AfterReply(cmd, TRUE)
                                      ELSE "open",
                            ![n].tries = 1]
          /\ IF idle THEN Reply(n, cmd, TRUE) ELSE UNCHANGED <<client, acked>>
    /\ UNCHANGED <<file, ended, exists, recorder, updater, db, accepted, count>>

Receive(n) ==
    /\ w[n].pc = "recv" /\ chan[n] # <<>>
    /\ LET cmd == Head(chan[n])
           items == IF cmd.op = "Add" THEN Append(w[n].pending, cmd.item)
                    ELSE w[n].pending
           idle == IsDeferred(n) /\ \/ cmd.op = "Add"
                                    \/ cmd.op # "Persist" /\ items = <<>>
       IN /\ chan' = [chan EXCEPT ![n] = Tail(@)]
          /\ w' = [w EXCEPT ![n].pending = items,
                            ![n].cmd = cmd,
                            ![n].pc = IF idle THEN AfterReply(cmd, TRUE)
                                      ELSE "open",
                            ![n].tries = 1]
          /\ IF idle THEN Reply(n, cmd, TRUE) ELSE UNCHANGED <<client, acked>>
    /\ UNCHANGED <<file, ended, exists, recorder, updater, db, accepted, count>>

\* Mutant: recovery gives up the buffered items.
FailedClears(n) ==
    /\ w' = [w EXCEPT ![n].open = FALSE, ![n].tries = 2, ![n].pending = <<>>,
                      ![n].pc = IF w[n].tries = 1 THEN "open" ELSE "recv"]
    /\ IF w[n].tries = 1 THEN UNCHANGED <<client, acked>>
       ELSE Reply(n, w[n].cmd, FALSE)

\* Mutant: recovery counts the item whose write failed as written.
FailedSkips(n) ==
    /\ w' = [w EXCEPT ![n].open = FALSE, ![n].tries = 2,
                      ![n].pending = IF @ = <<>> THEN @ ELSE Tail(@),
                      ![n].pc = IF w[n].tries = 1 THEN "open" ELSE "recv"]
    /\ IF w[n].tries = 1 THEN UNCHANGED <<client, acked>>
       ELSE Reply(n, w[n].cmd, FALSE)

\* Mutant: a failing write is retried until it succeeds, whatever the error is.
FailedForever(n) ==
    /\ w' = [w EXCEPT ![n].open = FALSE, ![n].tries = 2, ![n].pc = "open"]
    /\ UNCHANGED <<client, acked>>

\* Mutant: a failing write is retried without limit.
FailedRetries(n) ==
    /\ w' = [w EXCEPT ![n].open = FALSE, ![n].tries = @ + 1, ![n].pc = "open"]
    /\ UNCHANGED <<client, acked>>

\* write_pending_with_recovery: drop the handle, then try once more or report.
Failed(n) ==
    IF w[n].tries = 1
    THEN /\ w' = [w EXCEPT ![n].open = FALSE, ![n].tries = 2, ![n].pc = "open"]
         /\ UNCHANGED <<client, acked>>
    ELSE /\ w' = [w EXCEPT ![n].open = FALSE,
                           ![n].pc = AfterReply(w[n].cmd, FALSE)]
         /\ Reply(n, w[n].cmd, FALSE)

\* ensure_writer_open: opening repairs an unterminated last line.  It may fail
\* before or after the file is created and the missing newline is written.
OpenLog(n) ==
    /\ w[n].pc = "open"
    /\ \/ /\ w' = [w EXCEPT ![n].pc = "meta", ![n].open = TRUE,
                            ![n].deferred = IF w[n].open THEN @ ELSE FALSE]
          /\ exists' = TRUE
          /\ ended' = IF w[n].open THEN ended ELSE TRUE
          /\ UNCHANGED <<client, acked, count>>
       \/ /\ ~w[n].open
          /\ Fault
          /\ Failed(n)
          /\ exists' \in {exists, TRUE} /\ ended' \in {ended, TRUE}
    /\ UNCHANGED <<file, chan, recorder, updater, db, accepted>>

\* write_session_meta_if_needed
WriteMeta(n) ==
    /\ w[n].pc = "meta"
    /\ \/ /\ ~w[n].meta
          /\ w' = [w EXCEPT ![n].pc = "items"]
          /\ UNCHANGED <<file, ended, client, acked, count>>
       \/ /\ w[n].meta
          /\ Put(Line(Meta, OrdinalOf(n), TRUE), "whole")
          /\ w' = [w EXCEPT ![n].pc = "items", ![n].meta = FALSE,
                            ![n].next = Advance(@)]
          /\ UNCHANGED <<client, acked, count>>
       \/ /\ w[n].meta
          /\ Fault
          /\ \E outcome \in Outcomes \ {"whole"} :
                Put(Line(Meta, OrdinalOf(n), TRUE), outcome)
          /\ Failed(n)
    /\ UNCHANGED <<exists, chan, recorder, updater, db, accepted>>

\* write_pending_items_once: an item leaves the queue once it is written.
WriteItem(n) ==
    /\ w[n].pc = "items" /\ w[n].pending # <<>>
    /\ LET line == Line(Head(w[n].pending), OrdinalOf(n), TRUE)
       IN \/ /\ ~Exhausted(n)
             /\ Put(line, "whole")
             /\ w' = [w EXCEPT ![n].pending = Tail(@), ![n].next = Advance(@)]
             /\ UNCHANGED <<client, acked, count>>
          \/ /\ ~Exhausted(n)
             /\ Fault
             /\ \E outcome \in Outcomes \ {"whole"} : Put(line, outcome)
             /\ Failed(n)
          \/ /\ Exhausted(n)
             /\ Failed(n)
             /\ UNCHANGED <<file, ended, count>>
    /\ UNCHANGED <<exists, chan, recorder, updater, db, accepted>>

\* Everything pending is written: answer Ok.
Written(n) ==
    /\ w[n].pc = "items" /\ w[n].pending = <<>>
    /\ w' = [w EXCEPT ![n].pc = AfterReply(w[n].cmd, TRUE)]
    /\ Reply(n, w[n].cmd, TRUE)
    /\ UNCHANGED <<file, ended, exists, chan, recorder, updater, db, accepted,
                   count>>

\* Every sender is gone and the channel is drained: rx.recv() returns None.
CloseWriter(n) ==
    /\ w[n].pc = "recv" /\ chan[n] = <<>> /\ recorder # n
    /\ w' = [w EXCEPT ![n].pc = "stopped"]
    /\ UNCHANGED <<file, ended, exists, chan, recorder, client, updater, db,
                   accepted, acked, count>>

(***************************************************************************)
(* Thread-store operations.                                                *)
(***************************************************************************)
Send(cmd) ==
    /\ recorder # 0 /\ w[recorder].pc # "stopped"
    /\ Len(chan[recorder]) < Capacity
    /\ chan' = [chan EXCEPT ![recorder] = Append(@, cmd)]

\* durable_write(AppendItems): record_canonical_items, then flush.
AppendItems(i) ==
    /\ client.pc = "idle"
    /\ \A n \in Writers : i \notin Elems(accepted[n])
    /\ Send([op |-> "Add", item |-> i, ack |-> FALSE])
    /\ accepted' = [accepted EXCEPT ![recorder] = Append(@, i)]
    /\ client' = [pc |-> "add", op |-> "Flush"]
    /\ UNCHANGED <<file, ended, exists, w, recorder, updater, db, acked, count>>

Barrier(op) ==
    /\ \/ client.pc = "idle"
       \/ client.pc = "add" /\ op = "Flush"
    /\ Send([op |-> op, item |-> Meta, ack |-> TRUE])
    /\ client' = [pc |-> "wait", op |-> op]
    /\ UNCHANGED <<file, ended, exists, w, recorder, updater, db, accepted,
                   acked, count>>

\* The caller's task is aborted while it waits; commands it sent stay queued.
Cancel ==
    /\ "Cancel" \in Bound.ops
    /\ client.pc # "idle"
    /\ client' = [client EXCEPT !.pc = "idle"]
    /\ chan' = [n \in Writers |-> [k \in DOMAIN chan[n] |->
                                     [chan[n][k] EXCEPT !.ack = FALSE]]]
    /\ w' = [n \in Writers |-> [w[n] EXCEPT !.cmd.ack = FALSE]]
    /\ UNCHANGED <<file, ended, exists, recorder, updater, db, accepted, acked,
                   count>>

\* The writer task has stopped for a shutdown whose caller is gone: commands
\* queued behind it are dropped with their acks, later ones cannot be sent,
\* and the operation fails.
WriterGone ==
    /\ client.pc \in {"add", "wait"}
    /\ recorder # 0 /\ w[recorder].pc = "stopped"
    /\ client' = [client EXCEPT !.pc = "idle"]
    /\ chan' = [chan EXCEPT ![recorder] = <<>>]
    /\ UNCHANGED <<file, ended, exists, w, recorder, updater, db, accepted, acked,
                   count>>

\* read_projection_steps: of the complete lines after the checkpoint, those
\* that parse and whose ordinal is not below the expected one.
Complete == IF ended THEN Len(file) ELSE Len(file) - 1
\* Mutant: a record with exactly the expected ordinal counts as a duplicate.
FreshAfter == {i \in OkLines :
                 /\ db.off < i /\ i <= Complete
                 /\ file[i].ord > db.next
                 /\ \A j \in OkLines : db.off < j /\ j < i
                                       => file[j].ord < file[i].ord}

Fresh == {i \in OkLines :
            /\ db.off < i /\ i <= Complete
            /\ file[i].ord >= db.next
            /\ \A j \in OkLines : db.off < j /\ j < i
                                  => file[j].ord < file[i].ord}

\* materialize_to_sqlite and apply_projection, one transaction that may fail.
\* An ordinal with no successor fails it for good.
Projected ==
    IF Fresh = {} THEN [db EXCEPT !.off = Complete]
    ELSE [off |-> Complete,
          next |-> file[CHOOSE i \in Fresh : \A j \in Fresh : j <= i].ord + 1,
          rows |-> db.rows \cup {file[i].item : i \in Fresh}]

\* The rest of write_and_project and shutdown_thread after the barrier.
Project ==
    /\ client.pc = "project"
    /\ \/ UNCHANGED db
       \/ /\ Paginated /\ HasMeta
          /\ \A i \in Fresh : file[i].ord < MaxOrdinal
          /\ db' = Projected
    /\ client' = [client EXCEPT !.pc = "idle"]
    /\ recorder' = IF client.op = "Shutdown" THEN 0 ELSE recorder
    /\ UNCHANGED <<file, ended, exists, w, chan, updater, accepted, acked, count>>

\* discard_thread drops the recorder, not the writer task behind it.
Discard ==
    /\ "Discard" \in Bound.ops
    /\ client.pc = "idle" /\ recorder # 0
    /\ recorder' = 0
    /\ UNCHANGED <<file, ended, exists, w, chan, client, updater, db, accepted,
                   acked, count>>

\* resume_thread: RolloutRecorderParams::Resume and open_rollout_for_append.
Resume(n) ==
    /\ client.pc = "idle" /\ recorder = 0
    /\ w[n].pc = "unused" /\ \A m \in 1..(n - 1) : w[m].pc # "unused"
    /\ exists /\ HasMeta /\ FirstParses
    /\ ended' = TRUE
    /\ recorder' = n
    /\ w' = [w EXCEPT ![n] = [Unused EXCEPT !.pc = "recv", !.open = TRUE,
                                            !.next = IF Paginated
                                                     THEN Advance(LastOrdinal)
                                                     ELSE BaseOrdinal]]
    /\ UNCHANGED <<file, exists, chan, client, updater, db, accepted, acked,
                   count>>

(***************************************************************************)
(* update_thread_metadata of a Legacy thread appends to the path, whether  *)
(* or not a live recorder has the file open.                               *)
(***************************************************************************)
OpenForUpdate ==
    /\ updater = "idle" /\ ~Paginated
    /\ count.updates < Bound.updates
    /\ exists /\ HasMeta /\ FirstParses
    /\ ended' = TRUE
    /\ updater' = "write"
    /\ count' = [count EXCEPT !.updates = @ + 1]
    /\ UNCHANGED <<file, exists, w, chan, recorder, client, db, accepted, acked>>

WriteUpdate ==
    /\ updater = "write"
    /\ LET line == Line(MetaUpdate, NoOrdinal, TRUE)
       IN \/ Put(line, "whole") /\ UNCHANGED count
          \/ Fault /\ \E outcome \in Outcomes \ {"whole"} : Put(line, outcome)
    /\ updater' = "idle"
    /\ UNCHANGED <<exists, w, chan, recorder, client, db, accepted, acked>>

(***************************************************************************)
(* A crash loses everything but the file and the database.  A write under  *)
(* way may have reached the file in part.                                  *)
(***************************************************************************)
InFlight ==
    {Line(Meta, OrdinalOf(n), TRUE) :
        n \in {m \in Writers : w[m].pc = "meta" /\ w[m].meta}}
    \cup {Line(Head(w[n].pending), OrdinalOf(n), TRUE) :
        n \in {m \in Writers : /\ w[m].pc = "items" /\ w[m].pending # <<>>
                               /\ ~Exhausted(m)}}
    \cup (IF updater = "write" THEN {Line(MetaUpdate, NoOrdinal, TRUE)} ELSE {})

Crash ==
    /\ count.crashes < Bound.crashes
    /\ count' = [count EXCEPT !.crashes = @ + 1]
    /\ \/ UNCHANGED <<file, ended>>
       \/ \E line \in InFlight, outcome \in {"torn", "bare"} : Put(line, outcome)
    /\ w' = [n \in Writers |-> IF w[n].pc = "unused" THEN w[n]
                               ELSE [Unused EXCEPT !.pc = "stopped"]]
    /\ chan' = [n \in Writers |-> <<>>]
    /\ recorder' = 0
    /\ client' = [client EXCEPT !.pc = "idle"]
    /\ updater' = "idle"
    /\ UNCHANGED <<exists, db, accepted, acked>>

(***************************************************************************)
(* The specification.                                                      *)
(***************************************************************************)
WriterStep(n) ==
    /\ \/ Receive(n) \/ OpenLog(n) \/ WriteMeta(n) \/ WriteItem(n)
       \/ Written(n) \/ CloseWriter(n)
    /\ UNCHANGED mode

StoreOp ==
    \/ \E i \in Items : AppendItems(i)
    \/ \E op \in CmdOps \ {"Add"} : Barrier(op)
    \/ Discard
    \/ \E n \in Writers : Resume(n)

\* A store operation that is under way goes on to its next await.
OperationStep ==
    /\ (client.pc = "add" /\ Barrier("Flush")) \/ WriterGone \/ Project
    /\ UNCHANGED mode

Next ==
    \/ \E n \in Writers : WriterStep(n)
    \/ OperationStep
    \/ /\ StoreOp \/ Cancel \/ OpenForUpdate \/ WriteUpdate \/ Crash
       /\ UNCHANGED mode

Spec == Init /\ [][Next]_vars

\* The runtime polls the writer task and the store operation.
FairSpec ==
    /\ Spec
    /\ \A n \in Writers : WF_vars(WriterStep(n))
    /\ WF_vars(OperationStep)

(***************************************************************************)
(* Properties.                                                             *)
(***************************************************************************)

\* What a successful append, persist, flush or shutdown promised is in the
\* file as a record that parses, and stays there whatever fails or crashes
\* afterwards.
AckedDurable == acked \subseteq Parsed

\* The items of one recorder reach the file in the order it accepted them,
\* with none left out: retries neither reorder nor skip.
FileOrder ==
    \A n \in Writers : \A i, j \in DOMAIN accepted[n] :
        (i < j /\ accepted[n][j] \in Parsed) =>
            \E k \in OkLines :
                /\ file[k].item = accepted[n][i]
                /\ \A l \in OkLines :
                      file[l].item = accepted[n][j] => k < l

\* Ordinals of the records that parse grow along the file, across retries,
\* crashes and resumes; one is used twice only for the same item.
OrdinalsIdentify ==
    Paginated => \A i, j \in OkLines : i < j =>
        \/ file[i].ord < file[j].ord
        \/ file[i].ord = file[j].ord /\ file[i].item = file[j].item

\* The SQLite view is exactly the items of the lines before its checkpoint:
\* it never runs ahead of the file and never passes over a durable item.
ProjectionExact ==
    Paginated => db.rows = {file[i].item : i \in {k \in OkLines : k <= db.off}}

\* A rollout that a successful operation made durable can be opened again.
AckedReopens == acked # {} => FirstParses

\* Every store operation returns.
OperationReturns == (client.pc # "idle") ~> (client.pc = "idle")
=============================================================================
