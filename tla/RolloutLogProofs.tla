-------------------------- MODULE RolloutLogProofs --------------------------
(***************************************************************************)
(* Proofs about RolloutLog: what each action changes, and that the state    *)
(* keeps its types for every file, fault and interleaving.                 *)
(***************************************************************************)
EXTENDS RolloutLog, SequenceTheorems, NaturalsInduction, WellFoundedInduction, TLAPS

WriterStates == [pc : WriterPCs, cmd : Commands, open : BOOLEAN, deferred : BOOLEAN,
                 meta : BOOLEAN, pending : Seq(Items), next : 0..NoOrdinal, tries : 0..2]

(***************************************************************************)
(* The state of a writer task.                                             *)
(***************************************************************************)

\* Writer n takes a step: where it is, its command, whether its handle is open
\* and the SessionMeta unwritten, its pending items and its next ordinal.
Turns(n, p, c, o, m, q, x) ==
    /\ w' \in [Writers -> WriterStates]
    /\ \A k \in Writers : k # n => w'[k] = w[k]
    /\ w'[n].pc = p /\ w'[n].cmd = c /\ w'[n].open = o /\ w'[n].meta = m
    /\ w'[n].pending = q /\ w'[n].next = x

\* The fields of a writer's state have their types.
LEMMA FieldTypes ==
    ASSUME TypeOK, NEW n \in Writers
    PROVE  /\ w \in [Writers -> WriterStates]
           /\ w[n].pc \in WriterPCs /\ w[n].cmd \in Commands /\ w[n].open \in BOOLEAN
           /\ w[n].deferred \in BOOLEAN /\ w[n].meta \in BOOLEAN /\ w[n].pending \in Seq(Items)
           /\ w[n].next \in 0..NoOrdinal /\ w[n].tries \in 0..2
BY DEF TypeOK, WriterStates

\* One writer's state is replaced.
LEMMA OneTurns ==
    ASSUME NEW f \in [Writers -> WriterStates], NEW n \in Writers, NEW g,
           g = [k \in Writers |-> g[k]], \A k \in Writers : k # n => g[k] = f[k],
           g[n] \in WriterStates
    PROVE  g \in [Writers -> WriterStates]
OBVIOUS

\* Only the step changes.
LEMMA PcTurns ==
    ASSUME TypeOK, NEW n \in Writers, NEW p \in WriterPCs, w' = [w EXCEPT ![n].pc = p]
    PROVE  Turns(n, p, w[n].cmd, w[n].open, w[n].meta, w[n].pending, w[n].next)
<1>1. w \in [Writers -> WriterStates]
  BY FieldTypes
<1>2. PICK f, g : f = w /\ g = w'
  OBVIOUS
<1>4. f \in [Writers -> WriterStates] /\ g = [f EXCEPT ![n].pc = p]
  BY <1>1, <1>2
<1>5. /\ g = [k \in Writers |-> g[k]] /\ \A k \in Writers : k # n => g[k] = f[k]
      /\ g[n] = [f[n] EXCEPT !.pc = p] /\ f[n] \in WriterStates
  BY ONLY <1>4, n \in Writers
<1>6. /\ g[n] \in WriterStates
      /\ g[n].pc = p /\ g[n].cmd = f[n].cmd /\ g[n].open = f[n].open
      /\ g[n].meta = f[n].meta /\ g[n].pending = f[n].pending /\ g[n].next = f[n].next
  BY ONLY <1>5, p \in WriterPCs DEF WriterStates
<1>7. g \in [Writers -> WriterStates]
  BY <1>4, <1>5, <1>6, OneTurns
<1> QED  BY <1>2, <1>5, <1>6, <1>7 DEF Turns

\* Receive.
LEMMA ReceiveTurns ==
    ASSUME TypeOK, NEW n \in Writers, NEW p \in WriterPCs, NEW c \in Commands,
           NEW q \in Seq(Items),
           w' = [w EXCEPT ![n].pending = q, ![n].cmd = c, ![n].pc = p, ![n].tries = 1]
    PROVE  Turns(n, p, c, w[n].open, w[n].meta, q, w[n].next)
<1>1. w \in [Writers -> WriterStates]
  BY FieldTypes
<1>2. PICK f, g : f = w /\ g = w'
  OBVIOUS
<1>3. PICK t \in 0..2 : t = 1
  OBVIOUS
<1>4. /\ f \in [Writers -> WriterStates]
      /\ g = [f EXCEPT ![n].pending = q, ![n].cmd = c, ![n].pc = p, ![n].tries = t]
  BY <1>1, <1>2, <1>3
<1>5. /\ g = [k \in Writers |-> g[k]] /\ \A k \in Writers : k # n => g[k] = f[k]
      /\ g[n] = [f[n] EXCEPT !.pending = q, !.cmd = c, !.pc = p, !.tries = t]
      /\ f[n] \in WriterStates
  BY ONLY <1>4, n \in Writers
<1>6. /\ g[n] \in WriterStates
      /\ g[n].pc = p /\ g[n].cmd = c /\ g[n].open = f[n].open
      /\ g[n].meta = f[n].meta /\ g[n].pending = q /\ g[n].next = f[n].next
  BY ONLY <1>5, q \in Seq(Items), c \in Commands, p \in WriterPCs, t \in 0..2 DEF WriterStates
<1>7. g \in [Writers -> WriterStates]
  BY <1>4, <1>5, <1>6, OneTurns
<1> QED  BY <1>2, <1>3, <1>5, <1>6, <1>7 DEF Turns

\* A failed write drops the handle.
LEMMA CloseTurns ==
    ASSUME TypeOK, NEW n \in Writers, NEW p \in WriterPCs,
           \/ w' = [w EXCEPT ![n].open = FALSE, ![n].tries = 2, ![n].pc = p]
           \/ w' = [w EXCEPT ![n].open = FALSE, ![n].pc = p]
    PROVE  Turns(n, p, w[n].cmd, FALSE, w[n].meta, w[n].pending, w[n].next)
<1>1. CASE w' = [w EXCEPT ![n].open = FALSE, ![n].tries = 2, ![n].pc = p]
  <2>1. w \in [Writers -> WriterStates]
    BY FieldTypes
  <2>2. PICK f, g, o : f = w /\ g = w' /\ o = FALSE /\ o \in BOOLEAN
    OBVIOUS
  <2>3. PICK t \in 0..2 : t = 2
    OBVIOUS
  <2>4. f \in [Writers -> WriterStates] /\ g = [f EXCEPT ![n].open = o, ![n].tries = t, ![n].pc = p]
    BY <1>1, <2>1, <2>2, <2>3
  <2>5. /\ g = [k \in Writers |-> g[k]] /\ \A k \in Writers : k # n => g[k] = f[k]
        /\ g[n] = [f[n] EXCEPT !.open = o, !.tries = t, !.pc = p] /\ f[n] \in WriterStates
    BY ONLY <2>4, n \in Writers
  <2>6. /\ g[n] \in WriterStates
        /\ g[n].pc = p /\ g[n].cmd = f[n].cmd /\ g[n].open = o
        /\ g[n].meta = f[n].meta /\ g[n].pending = f[n].pending /\ g[n].next = f[n].next
    BY ONLY <2>2, <2>5, t \in 0..2, p \in WriterPCs DEF WriterStates
  <2>7. g \in [Writers -> WriterStates]
    BY <2>4, <2>5, <2>6, OneTurns
  <2> QED  BY <2>2, <2>3, <2>5, <2>6, <2>7 DEF Turns
<1>2. CASE w' = [w EXCEPT ![n].open = FALSE, ![n].pc = p]
  <2>1. w \in [Writers -> WriterStates]
    BY FieldTypes
  <2>2. PICK f, g : f = w /\ g = w'
    OBVIOUS
  <2>3. PICK o \in BOOLEAN : o = FALSE
    OBVIOUS
  <2>4. f \in [Writers -> WriterStates] /\ g = [f EXCEPT ![n].open = o, ![n].pc = p]
    BY <1>2, <2>1, <2>2, <2>3
  <2>5. /\ g = [k \in Writers |-> g[k]] /\ \A k \in Writers : k # n => g[k] = f[k]
        /\ g[n] = [f[n] EXCEPT !.open = o, !.pc = p] /\ f[n] \in WriterStates
    BY ONLY <2>4, n \in Writers
  <2>6. /\ g[n] \in WriterStates
        /\ g[n].pc = p /\ g[n].cmd = f[n].cmd /\ g[n].open = o
        /\ g[n].meta = f[n].meta /\ g[n].pending = f[n].pending /\ g[n].next = f[n].next
    BY ONLY <2>5, o \in BOOLEAN, p \in WriterPCs DEF WriterStates
  <2>7. g \in [Writers -> WriterStates]
    BY <2>4, <2>5, <2>6, OneTurns
  <2> QED  BY <2>2, <2>3, <2>5, <2>6, <2>7 DEF Turns
<1> QED  BY <1>1, <1>2

\* The file is opened.
LEMMA OpenTurns ==
    ASSUME TypeOK, NEW n \in Writers, NEW d \in BOOLEAN,
           w' = [w EXCEPT ![n].pc = "meta", ![n].open = TRUE, ![n].deferred = d]
    PROVE  Turns(n, "meta", w[n].cmd, TRUE, w[n].meta, w[n].pending, w[n].next)
<1>1. w \in [Writers -> WriterStates]
  BY FieldTypes
<1>2. PICK f, g : f = w /\ g = w'
  OBVIOUS
<1>3. PICK p \in WriterPCs, o \in BOOLEAN : p = "meta" /\ o = TRUE
  BY DEF WriterPCs
<1>4. /\ f \in [Writers -> WriterStates]
      /\ g = [f EXCEPT ![n].pc = p, ![n].open = o, ![n].deferred = d]
  BY <1>1, <1>2, <1>3
<1>5. /\ g = [k \in Writers |-> g[k]] /\ \A k \in Writers : k # n => g[k] = f[k]
      /\ g[n] = [f[n] EXCEPT !.pc = p, !.open = o, !.deferred = d] /\ f[n] \in WriterStates
  BY ONLY <1>4, n \in Writers
<1>6. /\ g[n] \in WriterStates
      /\ g[n].pc = p /\ g[n].cmd = f[n].cmd /\ g[n].open = o
      /\ g[n].meta = f[n].meta /\ g[n].pending = f[n].pending /\ g[n].next = f[n].next
  BY ONLY <1>5, p \in WriterPCs, o \in BOOLEAN, d \in BOOLEAN DEF WriterStates
<1>7. g \in [Writers -> WriterStates]
  BY <1>4, <1>5, <1>6, OneTurns
<1> QED  BY <1>2, <1>3, <1>5, <1>6, <1>7 DEF Turns

\* The SessionMeta record is written.
LEMMA MetaTurns ==
    ASSUME TypeOK, NEW n \in Writers, NEW x \in 0..NoOrdinal,
           w' = [w EXCEPT ![n].pc = "items", ![n].meta = FALSE, ![n].next = x]
    PROVE  Turns(n, "items", w[n].cmd, w[n].open, FALSE, w[n].pending, x)
<1>1. w \in [Writers -> WriterStates]
  BY FieldTypes
<1>2. PICK f, g : f = w /\ g = w'
  OBVIOUS
<1>3. PICK p \in WriterPCs, o \in BOOLEAN : p = "items" /\ o = FALSE
  BY DEF WriterPCs
<1>4. f \in [Writers -> WriterStates] /\ g = [f EXCEPT ![n].pc = p, ![n].meta = o, ![n].next = x]
  BY <1>1, <1>2, <1>3
<1>5. /\ g = [k \in Writers |-> g[k]] /\ \A k \in Writers : k # n => g[k] = f[k]
      /\ g[n] = [f[n] EXCEPT !.pc = p, !.meta = o, !.next = x] /\ f[n] \in WriterStates
  BY ONLY <1>4, n \in Writers
<1>6. /\ g[n] \in WriterStates
      /\ g[n].pc = p /\ g[n].cmd = f[n].cmd /\ g[n].open = f[n].open
      /\ g[n].meta = o /\ g[n].pending = f[n].pending /\ g[n].next = x
  BY ONLY <1>5, p \in WriterPCs, o \in BOOLEAN, x \in 0..NoOrdinal DEF WriterStates
<1>7. g \in [Writers -> WriterStates]
  BY <1>4, <1>5, <1>6, OneTurns
<1> QED  BY <1>2, <1>3, <1>5, <1>6, <1>7 DEF Turns

\* A pending item is written.
LEMMA ItemTurns ==
    ASSUME TypeOK, NEW n \in Writers, NEW q \in Seq(Items), NEW x \in 0..NoOrdinal,
           w' = [w EXCEPT ![n].pending = q, ![n].next = x]
    PROVE  Turns(n, w[n].pc, w[n].cmd, w[n].open, w[n].meta, q, x)
<1>1. w \in [Writers -> WriterStates]
  BY FieldTypes
<1>2. PICK f, g : f = w /\ g = w'
  OBVIOUS
<1>4. f \in [Writers -> WriterStates] /\ g = [f EXCEPT ![n].pending = q, ![n].next = x]
  BY <1>1, <1>2
<1>5. /\ g = [k \in Writers |-> g[k]] /\ \A k \in Writers : k # n => g[k] = f[k]
      /\ g[n] = [f[n] EXCEPT !.pending = q, !.next = x] /\ f[n] \in WriterStates
  BY ONLY <1>4, n \in Writers
<1>6. /\ g[n] \in WriterStates
      /\ g[n].pc = f[n].pc /\ g[n].cmd = f[n].cmd /\ g[n].open = f[n].open
      /\ g[n].meta = f[n].meta /\ g[n].pending = q /\ g[n].next = x
  BY ONLY <1>5, q \in Seq(Items), x \in 0..NoOrdinal DEF WriterStates
<1>7. g \in [Writers -> WriterStates]
  BY <1>4, <1>5, <1>6, OneTurns
<1> QED  BY <1>2, <1>5, <1>6, <1>7 DEF Turns

(***************************************************************************)
(* Types.  Every variable's type needs a little more than its type.        *)
(***************************************************************************)

Adds(cmd) == cmd.op = "Add"

FileOK ==
    /\ file \in Seq(Lines) /\ ended \in BOOLEAN
    /\ ~ended => file # <<>>
    /\ Paginated => \A i \in DOMAIN file : file[i].ord <= MaxOrdinal

WritersOK ==
    /\ w \in [Writers -> WriterStates]
    /\ \A n \in Writers : w[n].meta => w[n].next = BaseOrdinal /\ w[n].pc # "items"

ChannelsOK ==
    /\ chan \in [Writers -> Seq(Commands)]
    /\ \A n \in Writers : \A k \in DOMAIN chan[n] :
          Adds(chan[n][k]) => chan[n][k].item \in Items

StoreOK ==
    /\ exists \in BOOLEAN /\ recorder \in 0..MaxWriters /\ updater \in {"idle", "write"}
    /\ client \in [pc : ClientPCs, op : CmdOps]
    /\ updater = "write" => ~Paginated

RecordsOK ==
    /\ db \in [off : Nat, next : 0..NoOrdinal, rows : SUBSET Records]
    /\ accepted \in [Writers -> Seq(Items)]
    /\ acked \in SUBSET Items

CountOK ==
    count \in [faults : 0..Bound.faults, crashes : 0..Bound.crashes, updates : 0..Bound.updates]

Basics ==
    mode \in Modes /\ FileOK /\ WritersOK /\ ChannelsOK /\ StoreOK /\ RecordsOK /\ CountOK

\* The types are those of TypeOK.
LEMMA BasicTypes ==
    ASSUME Basics
    PROVE  TypeOK
BY DEF Basics, FileOK, WritersOK, WriterStates, ChannelsOK, StoreOK, RecordsOK, CountOK, TypeOK, Paginated

\* The assumptions on the constants, and what follows from them.
LEMMA Constants ==
    /\ BaseOrdinal \in 0..MaxOrdinal /\ MaxOrdinal \in Nat /\ NoOrdinal = MaxOrdinal + 1
    /\ BaseOrdinal \in 0..NoOrdinal /\ NoOrdinal \in 0..NoOrdinal
    /\ MaxWriters \in Nat /\ Writers = 1..MaxWriters /\ 0 \notin Writers /\ 1 \in Writers
    /\ Meta \in Records /\ MetaUpdate \in Records /\ Meta \notin Items /\ MetaUpdate \notin Items
    /\ Items \subseteq Records
BY RolloutAssumption DEF NoOrdinal, Writers, Records

\* A failed write is tried again or reported.
LEMMA FailedEffect ==
    ASSUME TypeOK, NEW n \in Writers, Failed(n)
    PROVE  \E p \in {"open", "recv"} :
              /\ Turns(n, p, w[n].cmd, FALSE, w[n].meta, w[n].pending, w[n].next)
              /\ \/ p = "open" /\ UNCHANGED <<client, acked>>
                 \/ p = "recv" /\ Reply(n, w[n].cmd, FALSE)
<1>1. "open" \in WriterPCs /\ "recv" \in WriterPCs /\ AfterReply(w[n].cmd, FALSE) = "recv"
  BY DEF WriterPCs, AfterReply
<1>2. CASE w[n].tries = 1
  BY <1>1, <1>2, CloseTurns DEF Failed
<1>3. CASE w[n].tries # 1
  <2>1. w' = [w EXCEPT ![n].open = FALSE, ![n].pc = "recv"] /\ Reply(n, w[n].cmd, FALSE)
    BY <1>1, <1>3 DEF Failed
  <2>2. Turns(n, "recv", w[n].cmd, FALSE, w[n].meta, w[n].pending, w[n].next)
    BY <1>1, <2>1, CloseTurns
  <2> QED  BY <2>1, <2>2
<1> QED  BY <1>2, <1>3

\* What a reply changes.
LEMMA ReplyEffect ==
    ASSUME Basics, NEW n \in Writers, NEW c \in Commands, NEW ok \in BOOLEAN, Reply(n, c, ok)
    PROVE  /\ client' \in [pc : ClientPCs, op : CmdOps] /\ acked' \in SUBSET Items
           /\ client'.op = client.op
           /\ ~c.ack => client' = client /\ acked' = acked
           /\ c.ack /\ ok => client'.pc = "project" /\ acked' = acked \cup Elems(accepted[n])
           /\ c.ack /\ ~ok => client'.pc = "idle" /\ acked' = acked
<1>1. client \in [pc : ClientPCs, op : CmdOps] /\ accepted[n] \in Seq(Items) /\ acked \in SUBSET Items
  BY DEF Basics, StoreOK, RecordsOK, Paginated
<1>2. Elems(accepted[n]) \subseteq Items
  BY <1>1 DEF Elems
<1> QED  BY <1>1, <1>2 DEF Reply, ClientPCs

\* What a write changes.
LEMMA PutEffect ==
    ASSUME FileOK, NEW x \in Records, NEW o \in 0..NoOrdinal, Paginated => o <= MaxOrdinal,
           mode' = mode, NEW outcome \in Outcomes, Put(Line(x, o, TRUE), outcome)
    PROVE  FileOK'
<1>1. CASE outcome = "none"
  BY <1>1 DEF Put, FileOK, Paginated
<1>2. CASE outcome # "none" /\ ended
  <2>1. PICK b \in BOOLEAN : b = (outcome # "torn")
    OBVIOUS
  <2>2. Line(x, o, b) \in Lines /\ Line(x, o, b).ord = o
    BY DEF Line, Lines
  <2>3. file' = Append(file, Line(x, o, b)) /\ ended' = (outcome = "whole")
    BY <1>2, <2>1 DEF Put, Line
  <2>4. file' \in Seq(Lines) /\ Len(file') = Len(file) + 1 /\ file' # <<>>
    BY <2>2, <2>3 DEF FileOK
  <2>5. \A i \in DOMAIN file' : file'[i] = IF i = Len(file) + 1 THEN Line(x, o, b) ELSE file[i]
    BY <2>2, <2>3, <2>4 DEF FileOK
  <2>6. \A i \in DOMAIN file' : i = Len(file) + 1 \/ i \in DOMAIN file
    BY <2>4 DEF FileOK
  <2>7. Paginated' => \A i \in DOMAIN file' : file'[i].ord <= MaxOrdinal
    BY <2>2, <2>5, <2>6 DEF FileOK, Paginated
  <2>8. ended' \in BOOLEAN
    BY <2>3
  <2> QED  BY <2>4, <2>7, <2>8 DEF FileOK
<1>3. CASE outcome # "none" /\ ~ended
  <2>1. file' = [file EXCEPT ![Len(file)].ok = FALSE] /\ ended' = (outcome = "whole")
    BY <1>3 DEF Put
  <2>2. file \in Seq(Lines) /\ file # <<>> /\ Len(file) \in Nat /\ Len(file) \in DOMAIN file
    BY <1>3 DEF FileOK
  <2>3. PICK l \in Lines : l = file[Len(file)]
    BY <2>2
  <2>4. [l EXCEPT !.ok = FALSE] \in Lines /\ [l EXCEPT !.ok = FALSE].ord = l.ord
    BY DEF Lines
  <2>5. file' = [file EXCEPT ![Len(file)] = [l EXCEPT !.ok = FALSE]]
    BY <2>1, <2>3
  <2>6. file' \in Seq(Lines) /\ Len(file') = Len(file) /\ DOMAIN file' = DOMAIN file
    BY <2>2, <2>4, <2>5
  <2>7. \A i \in DOMAIN file : file'[i].ord = file[i].ord
    BY <2>2, <2>3, <2>4, <2>5
  <2>8. file' # <<>>
    BY <2>2, <2>6
  <2> QED  BY <2>1, <2>6, <2>7, <2>8 DEF FileOK, Paginated
<1> QED  BY <1>1, <1>2, <1>3 DEF FileOK

\* A failing operation is counted.
LEMMA FaultEffect ==
    ASSUME Basics, mode' = mode, Fault
    PROVE  CountOK'
<1>1. Bound' = Bound /\ Bound.faults \in Nat /\ Bound.crashes \in Nat /\ Bound.updates \in Nat
  BY RolloutAssumption DEF Bound, Basics
<1> QED  BY <1>1 DEF Fault, CountOK, Basics

\* The count is not touched.
LEMMA CountStays ==
    ASSUME Basics, UNCHANGED <<mode, count>>
    PROVE  CountOK'
BY DEF Basics, CountOK, Bound

\* A writer's step.
LEMMA TurnsOK ==
    ASSUME WritersOK, NEW n \in Writers, NEW p, NEW c, NEW o, NEW m, NEW q, NEW x,
           Turns(n, p, c, o, m, q, x), m => x = BaseOrdinal /\ p # "items"
    PROVE  WritersOK'
BY DEF WritersOK, Turns

\* The ordinal of what a writer writes next.
LEMMA OrdinalRange ==
    ASSUME Basics, NEW n \in Writers, ~Exhausted(n) \/ w[n].meta
    PROVE  /\ OrdinalOf(n) \in 0..NoOrdinal /\ (Paginated => OrdinalOf(n) <= MaxOrdinal)
           /\ Advance(w[n].next) \in 0..NoOrdinal
<1>1. w[n].next \in 0..NoOrdinal /\ (w[n].meta => w[n].next = BaseOrdinal)
  BY BasicTypes, FieldTypes DEF Basics, WritersOK
<1> QED  BY <1>1, Constants DEF Exhausted, OrdinalOf, Advance

\* What a writer receives: the command, its pending items, and whether the
\* command is answered at once.
LEMMA ReceiveEffect ==
    ASSUME Basics, NEW n \in Writers, Receive(n)
    PROVE  \E c \in Commands, p \in WriterPCs, q \in Seq(Items) :
              /\ w[n].pc = "recv" /\ chan[n] # <<>> /\ c = Head(chan[n])
              /\ chan' = [chan EXCEPT ![n] = Tail(chan[n])]
              /\ q = IF Adds(c) THEN Append(w[n].pending, c.item) ELSE w[n].pending
              /\ Turns(n, p, c, w[n].open, w[n].meta, q, w[n].next)
              /\ \/ p = "open" /\ UNCHANGED <<client, acked>>
                 \/ /\ p = IF c.op = "Shutdown" THEN "stopped" ELSE "recv"
                    /\ Adds(c) \/ q = <<>>
                    /\ Reply(n, c, TRUE)
<1>1. TypeOK /\ chan[n] \in Seq(Commands) /\ w[n].pending \in Seq(Items)
  BY BasicTypes, FieldTypes DEF Basics, ChannelsOK
<1>2. w[n].pc = "recv" /\ chan[n] # <<>>
  BY DEF Receive
<1>3. PICK c \in Commands : c = Head(chan[n])
  BY <1>1, <1>2
<1>4. 1 \in DOMAIN chan[n] /\ c = chan[n][1]
  BY <1>1, <1>2, <1>3
<1>5. Adds(c) => c.item \in Items
  BY <1>4 DEF Basics, ChannelsOK
<1>6. PICK q \in Seq(Items) : q = IF Adds(c) THEN Append(w[n].pending, c.item) ELSE w[n].pending
  <2>1. CASE Adds(c)
    <3>1. Append(w[n].pending, c.item) \in Seq(Items)
      BY <1>1, <1>5, <2>1
    <3> QED  BY <2>1, <3>1
  <2>2. CASE ~Adds(c)
    BY <1>1, <2>2
  <2> QED  BY <2>1, <2>2
<1>7. PICK idle \in BOOLEAN :
          idle = (IsDeferred(n) /\ (c.op = "Add" \/ (c.op # "Persist" /\ q = <<>>)))
  OBVIOUS
<1>8. PICK p \in WriterPCs : p = IF idle THEN AfterReply(c, TRUE) ELSE "open"
  BY DEF WriterPCs, AfterReply
<1>9. /\ chan' = [chan EXCEPT ![n] = Tail(chan[n])]
      /\ w' = [w EXCEPT ![n].pending = q, ![n].cmd = c, ![n].pc = p, ![n].tries = 1]
      /\ IF idle THEN Reply(n, c, TRUE) ELSE UNCHANGED <<client, acked>>
  BY <1>3, <1>6, <1>7, <1>8 DEF Receive, Adds
<1>10. Turns(n, p, c, w[n].open, w[n].meta, q, w[n].next)
  BY <1>1, <1>9, ReceiveTurns
<1>11. CASE idle
  <2>1. /\ p = IF c.op = "Shutdown" THEN "stopped" ELSE "recv"
        /\ Adds(c) \/ q = <<>>
        /\ Reply(n, c, TRUE)
    BY <1>7, <1>8, <1>9, <1>11 DEF AfterReply, Adds
  <2> QED  BY <1>2, <1>3, <1>6, <1>9, <1>10, <2>1
<1>12. CASE ~idle
  <2>1. p = "open" /\ UNCHANGED <<client, acked>>
    BY <1>8, <1>9, <1>12
  <2> QED  BY <1>2, <1>3, <1>6, <1>9, <1>10, <2>1
<1> QED  BY <1>11, <1>12

\* A command is received.
LEMMA ReceiveBasics ==
    ASSUME Basics, mode' = mode, NEW n \in Writers, Receive(n)
    PROVE  Basics'
<1>1. UNCHANGED <<mode, file, ended, exists, recorder, updater, db, accepted, count>>
  BY DEF Receive
<1>2. PICK c \in Commands, p \in WriterPCs, q \in Seq(Items) :
          /\ chan[n] # <<>> /\ p # "items"
          /\ chan' = [chan EXCEPT ![n] = Tail(chan[n])]
          /\ Turns(n, p, c, w[n].open, w[n].meta, q, w[n].next)
          /\ UNCHANGED <<client, acked>> \/ Reply(n, c, TRUE)
  BY ReceiveEffect
<1>3. WritersOK'
  BY <1>2, TurnsOK DEF Basics, WritersOK
<1>4. ChannelsOK'
  <2>1. chan \in [Writers -> Seq(Commands)] /\ chan[n] \in Seq(Commands) /\ chan[n] # <<>>
    BY <1>2 DEF Basics, ChannelsOK
  <2>2. /\ Tail(chan[n]) \in Seq(Commands)
        /\ \A k \in DOMAIN Tail(chan[n]) : k + 1 \in DOMAIN chan[n] /\ Tail(chan[n])[k] = chan[n][k + 1]
    BY <2>1
  <2>3. chan' \in [Writers -> Seq(Commands)]
    BY <1>2, <2>1, <2>2
  <2> QED  BY <1>2, <2>1, <2>2, <2>3 DEF Basics, ChannelsOK
<1>5. client' \in [pc : ClientPCs, op : CmdOps] /\ acked' \in SUBSET Items
  BY <1>2, ReplyEffect DEF Basics, StoreOK, RecordsOK, Paginated
<1>6. FileOK' /\ StoreOK' /\ RecordsOK'
  BY <1>1, <1>5 DEF Basics, FileOK, Paginated, StoreOK, RecordsOK
<1> QED  BY <1>1, <1>3, <1>4, <1>6, CountStays DEF Basics

\* A write fails: only the file, the writer, the client and the count change.
LEMMA FailedBasics ==
    ASSUME Basics, FileOK', CountOK', NEW n \in Writers, Failed(n),
           exists' \in BOOLEAN, UNCHANGED <<mode, chan, recorder, updater, db, accepted>>
    PROVE  Basics'
<1>1. PICK p \in {"open", "recv"} :
              /\ Turns(n, p, w[n].cmd, FALSE, w[n].meta, w[n].pending, w[n].next)
              /\ UNCHANGED <<client, acked>> \/ Reply(n, w[n].cmd, FALSE)
  BY BasicTypes, FailedEffect
<1>2. w[n].cmd \in Commands
  BY BasicTypes, FieldTypes
<1>3. client' \in [pc : ClientPCs, op : CmdOps] /\ acked' \in SUBSET Items
  BY <1>1, <1>2, ReplyEffect DEF Basics, StoreOK, RecordsOK, Paginated
<1>4. WritersOK'
  BY <1>1 DEF Basics, WritersOK, Turns
<1>5. ChannelsOK' /\ StoreOK' /\ RecordsOK'
  BY <1>3 DEF Basics, ChannelsOK, StoreOK, RecordsOK, Paginated
<1> QED  BY <1>4, <1>5 DEF Basics

\* The file is opened, or opening fails.
LEMMA OpenLogBasics ==
    ASSUME Basics, mode' = mode, NEW n \in Writers, OpenLog(n)
    PROVE  Basics'
<1>1. UNCHANGED <<mode, file, chan, recorder, updater, db, accepted>>
  BY DEF OpenLog
<1>2. CASE Fault /\ Failed(n) /\ exists' \in {exists, TRUE} /\ ended' \in {ended, TRUE}
  <2>1. exists \in BOOLEAN /\ ended \in BOOLEAN /\ FileOK
    BY DEF Basics, FileOK, StoreOK
  <2>2. exists' \in BOOLEAN /\ ended' \in BOOLEAN /\ (ended => ended')
    BY <1>2, <2>1
  <2>3. FileOK'
    BY <1>1, <2>1, <2>2 DEF FileOK, Paginated
  <2>4. CountOK'
    BY <1>2, FaultEffect
  <2> QED  BY <1>1, <1>2, <2>2, <2>3, <2>4, FailedBasics
<1>3. CASE /\ w' = [w EXCEPT ![n].pc = "meta", ![n].open = TRUE,
                             ![n].deferred = IF w[n].open THEN @ ELSE FALSE]
           /\ exists' = TRUE
           /\ ended' = IF w[n].open THEN ended ELSE TRUE
           /\ UNCHANGED <<client, acked, count>>
  <2>1. PICK d \in BOOLEAN : d = IF w[n].open THEN w[n].deferred ELSE FALSE
    BY BasicTypes, FieldTypes
  <2>2. w' = [w EXCEPT ![n].pc = "meta", ![n].open = TRUE, ![n].deferred = d]
    BY <1>3, <2>1
  <2>3. Turns(n, "meta", w[n].cmd, TRUE, w[n].meta, w[n].pending, w[n].next)
    BY <2>2, BasicTypes, OpenTurns
  <2>4. WritersOK'
    BY <2>3 DEF Basics, WritersOK, Turns
  <2>5. FileOK' /\ ChannelsOK' /\ StoreOK' /\ RecordsOK'
    BY <1>1, <1>3 DEF Basics, FileOK, Paginated, ChannelsOK, StoreOK, RecordsOK
  <2> QED  BY <1>1, <1>3, <2>4, <2>5, CountStays DEF Basics
<1> QED  BY <1>2, <1>3 DEF OpenLog

\* The SessionMeta record is written, or need not be, or the write fails.
LEMMA WriteMetaBasics ==
    ASSUME Basics, mode' = mode, NEW n \in Writers, WriteMeta(n)
    PROVE  Basics'
<1>1. /\ UNCHANGED <<mode, exists, chan, recorder, updater, db, accepted>>
      /\ FileOK /\ exists' \in BOOLEAN
  BY DEF WriteMeta, Basics, StoreOK, RecordsOK
<1>2. CASE ~w[n].meta /\ w' = [w EXCEPT ![n].pc = "items"]
           /\ UNCHANGED <<file, ended, client, acked, count>>
  <2>1. "items" \in WriterPCs
    BY DEF WriterPCs
  <2>2. Turns(n, "items", w[n].cmd, w[n].open, w[n].meta, w[n].pending, w[n].next)
    BY <1>2, <2>1, BasicTypes, PcTurns
  <2>3. WritersOK'
    BY <1>2, <2>2 DEF Basics, WritersOK, Turns
  <2>4. FileOK' /\ ChannelsOK' /\ StoreOK' /\ RecordsOK'
    BY <1>1, <1>2 DEF Basics, FileOK, Paginated, ChannelsOK, StoreOK, RecordsOK
  <2> QED  BY <1>1, <1>2, <2>3, <2>4, CountStays DEF Basics
<1>3. CASE /\ w[n].meta /\ Put(Line(Meta, OrdinalOf(n), TRUE), "whole")
           /\ w' = [w EXCEPT ![n].pc = "items", ![n].meta = FALSE, ![n].next = Advance(@)]
           /\ UNCHANGED <<client, acked, count>>
  <2>1. /\ OrdinalOf(n) \in 0..NoOrdinal /\ (Paginated => OrdinalOf(n) <= MaxOrdinal)
        /\ Advance(w[n].next) \in 0..NoOrdinal /\ "whole" \in Outcomes
    BY <1>3, OrdinalRange DEF Outcomes
  <2>2. FileOK'
    BY <1>1, <1>3, <2>1, Constants, PutEffect
  <2>3. Turns(n, "items", w[n].cmd, w[n].open, FALSE, w[n].pending, Advance(w[n].next))
    BY <1>3, <2>1, BasicTypes, MetaTurns
  <2>4. WritersOK'
    BY <2>3 DEF Basics, WritersOK, Turns
  <2>5. ChannelsOK' /\ StoreOK' /\ RecordsOK'
    BY <1>1, <1>3 DEF Basics, ChannelsOK, StoreOK, RecordsOK, Paginated
  <2> QED  BY <1>1, <1>3, <2>2, <2>4, <2>5, CountStays DEF Basics
<1>4. CASE /\ w[n].meta /\ Fault /\ Failed(n)
           /\ \E outcome \in Outcomes \ {"whole"} : Put(Line(Meta, OrdinalOf(n), TRUE), outcome)
  <2>1. OrdinalOf(n) \in 0..NoOrdinal /\ (Paginated => OrdinalOf(n) <= MaxOrdinal)
    BY <1>4, OrdinalRange
  <2>2. FileOK' /\ CountOK'
    BY <1>1, <1>4, <2>1, Constants, PutEffect, FaultEffect
  <2> QED  BY <1>1, <1>4, <2>2, FailedBasics
<1> QED  BY <1>2, <1>3, <1>4 DEF WriteMeta

\* A pending item is written, or its write fails.
LEMMA WriteItemBasics ==
    ASSUME Basics, mode' = mode, NEW n \in Writers, WriteItem(n)
    PROVE  Basics'
<1>1. /\ UNCHANGED <<mode, exists, chan, recorder, updater, db, accepted>>
      /\ FileOK /\ exists' \in BOOLEAN
  BY DEF WriteItem, Basics, StoreOK, RecordsOK
<1>2. w[n].pending \in Seq(Items) /\ w[n].pending # <<>>
  BY BasicTypes, FieldTypes DEF WriteItem
<1>3. PICK x \in Records : x = Head(w[n].pending)
  BY <1>2, Constants
<1>4. Tail(w[n].pending) \in Seq(Items)
  BY <1>2
<1>5. CASE /\ ~Exhausted(n) /\ Put(Line(x, OrdinalOf(n), TRUE), "whole")
           /\ w' = [w EXCEPT ![n].pending = Tail(@), ![n].next = Advance(@)]
           /\ UNCHANGED <<client, acked, count>>
  <2>1. /\ OrdinalOf(n) \in 0..NoOrdinal /\ (Paginated => OrdinalOf(n) <= MaxOrdinal)
        /\ Advance(w[n].next) \in 0..NoOrdinal /\ "whole" \in Outcomes
    BY <1>5, OrdinalRange DEF Outcomes
  <2>2. FileOK'
    BY <1>1, <1>5, <2>1, PutEffect
  <2>3. Turns(n, w[n].pc, w[n].cmd, w[n].open, w[n].meta, Tail(w[n].pending), Advance(w[n].next))
    BY <1>4, <1>5, <2>1, BasicTypes, ItemTurns
  <2>4. WritersOK'
    BY <2>3 DEF Basics, WritersOK, Turns, WriteItem
  <2>5. ChannelsOK' /\ StoreOK' /\ RecordsOK'
    BY <1>1, <1>5 DEF Basics, ChannelsOK, StoreOK, RecordsOK, Paginated
  <2> QED  BY <1>1, <1>5, <2>2, <2>4, <2>5, CountStays DEF Basics
<1>6. CASE /\ ~Exhausted(n) /\ Fault /\ Failed(n)
           /\ \E outcome \in Outcomes \ {"whole"} : Put(Line(x, OrdinalOf(n), TRUE), outcome)
  <2>1. OrdinalOf(n) \in 0..NoOrdinal /\ (Paginated => OrdinalOf(n) <= MaxOrdinal)
    BY <1>6, OrdinalRange
  <2>2. FileOK' /\ CountOK'
    BY <1>1, <1>6, <2>1, PutEffect, FaultEffect
  <2> QED  BY <1>1, <1>6, <2>2, FailedBasics
<1>7. CASE Failed(n) /\ UNCHANGED <<file, ended, count>>
  <2>1. FileOK' /\ CountOK'
    BY <1>1, <1>7, CountStays DEF FileOK, Paginated
  <2> QED  BY <1>1, <1>7, <2>1, FailedBasics
<1> QED  BY <1>3, <1>5, <1>6, <1>7 DEF WriteItem

\* A command is answered, a channel closed.
LEMMA DoneBasics ==
    ASSUME Basics, mode' = mode, NEW n \in Writers, Written(n) \/ CloseWriter(n)
    PROVE  Basics'
<1>1. UNCHANGED <<mode, file, ended, exists, chan, recorder, updater, db, accepted, count>>
  BY DEF Written, CloseWriter
<1>2. PICK p \in {"stopped", "recv"} : w' = [w EXCEPT ![n].pc = p]
  BY DEF Written, CloseWriter, AfterReply
<1>3. p \in WriterPCs /\ w[n].cmd \in Commands
  BY <1>2, BasicTypes, FieldTypes DEF WriterPCs
<1>4. Turns(n, p, w[n].cmd, w[n].open, w[n].meta, w[n].pending, w[n].next)
  BY <1>2, <1>3, BasicTypes, PcTurns
<1>5. WritersOK'
  BY <1>2, <1>4 DEF Basics, WritersOK, Turns
<1>6. client' \in [pc : ClientPCs, op : CmdOps] /\ acked' \in SUBSET Items
  <2>1. CASE Written(n)
    BY <1>3, <2>1, ReplyEffect DEF Written
  <2>2. CASE CloseWriter(n)
    BY <2>2 DEF CloseWriter, Basics, StoreOK, RecordsOK, Paginated
  <2> QED  BY <2>1, <2>2
<1>7. FileOK' /\ ChannelsOK' /\ StoreOK' /\ RecordsOK'
  BY <1>1, <1>6 DEF Basics, FileOK, Paginated, ChannelsOK, StoreOK, RecordsOK
<1> QED  BY <1>1, <1>5, <1>7, CountStays DEF Basics

\* The elements of a sequence that grew.
LEMMA AppendAt ==
    ASSUME NEW S, NEW s \in Seq(S), NEW x \in S, NEW t, t = Append(s, x), NEW n, n = Len(s)
    PROVE  /\ t \in Seq(S) /\ Len(t) = n + 1 /\ n \in Nat /\ t # <<>>
           /\ DOMAIN s = 1..n /\ DOMAIN t = 1..(n + 1)
           /\ n + 1 \in DOMAIN t /\ t[n + 1] = x
           /\ \A k \in DOMAIN s : k \in DOMAIN t /\ t[k] = s[k]
           /\ \A k \in DOMAIN t : (k = n + 1 /\ t[k] = x) \/ (k \in DOMAIN s /\ t[k] = s[k])
<1>1. n \in Nat /\ DOMAIN s = 1..n
  OBVIOUS
<1>2. t \in Seq(S) /\ Len(t) = n + 1 /\ DOMAIN t = 1..(n + 1) /\ t # <<>>
  BY AppendProperties
<1>3. t[n + 1] = x /\ \A k \in 1..n : t[k] = s[k]
  BY AppendProperties
<1>4. \A k \in 1..(n + 1) : k = n + 1 \/ k \in 1..n
  BY <1>1
<1>5. n + 1 \in 1..(n + 1) /\ \A k \in 1..n : k \in 1..(n + 1)
  BY <1>1
<1> QED  BY ONLY <1>1, <1>2, <1>3, <1>4, <1>5

\* What a command that is sent changes.
LEMMA SendEffect ==
    ASSUME Basics, NEW c \in Commands, Send(c)
    PROVE  /\ recorder \in Writers /\ w[recorder].pc # "stopped"
           /\ chan[recorder] \in Seq(Commands)
           /\ chan' = [chan EXCEPT ![recorder] = Append(chan[recorder], c)]
           /\ chan' \in [Writers -> Seq(Commands)]
           /\ \A k \in DOMAIN chan'[recorder] :
                 \/ k = Len(chan[recorder]) + 1 /\ chan'[recorder][k] = c
                 \/ k \in DOMAIN chan[recorder] /\ chan'[recorder][k] = chan[recorder][k]
           /\ \A k \in DOMAIN chan[recorder] :
                 k \in DOMAIN chan'[recorder] /\ chan'[recorder][k] = chan[recorder][k]
           /\ Len(chan'[recorder]) = Len(chan[recorder]) + 1 /\ Len(chan[recorder]) \in Nat
           /\ Len(chan[recorder]) + 1 \in DOMAIN chan'[recorder]
           /\ chan'[recorder][Len(chan[recorder]) + 1] = c
           /\ \A n \in Writers : n # recorder => chan'[n] = chan[n]
<1>1. recorder \in Writers
  BY Constants DEF Send, Basics, StoreOK, Paginated
<1>2. chan \in [Writers -> Seq(Commands)] /\ chan[recorder] \in Seq(Commands)
  BY <1>1 DEF Basics, ChannelsOK
<1>3. PICK s, t, n : s = chan[recorder] /\ t = Append(s, c) /\ n = Len(s)
  OBVIOUS
<1>4. /\ s \in Seq(Commands) /\ t \in Seq(Commands) /\ Len(t) = n + 1 /\ n \in Nat
      /\ n + 1 \in DOMAIN t /\ t[n + 1] = c
      /\ \A k \in DOMAIN s : k \in DOMAIN t /\ t[k] = s[k]
      /\ \A k \in DOMAIN t : (k = n + 1 /\ t[k] = c) \/ (k \in DOMAIN s /\ t[k] = s[k])
  BY <1>2, <1>3, AppendAt
<1>5. chan' = [chan EXCEPT ![recorder] = t]
  BY <1>3 DEF Send
<1>6. /\ chan'[recorder] = t /\ chan' \in [Writers -> Seq(Commands)]
      /\ \A m \in Writers : m # recorder => chan'[m] = chan[m]
  BY <1>1, <1>2, <1>4, <1>5
<1>7. chan' = [chan EXCEPT ![recorder] = Append(chan[recorder], c)]
  BY DEF Send
<1> QED  BY <1>1, <1>2, <1>3, <1>4, <1>6, <1>7 DEF Send

\* An item is appended, a barrier sent.
LEMMA SendBasics ==
    ASSUME Basics, mode' = mode,
           \/ \E i \in Items : AppendItems(i)
           \/ \E op \in CmdOps \ {"Add"} : Barrier(op)
    PROVE  Basics'
<1>1. UNCHANGED <<mode, file, ended, exists, w, recorder, updater, db, acked, count>>
  BY DEF AppendItems, Barrier
<1>2. PICK c \in Commands : Send(c) /\ (Adds(c) => c.item \in Items)
  <2>1. CASE \E i \in Items : AppendItems(i)
    <3>1. PICK i \in Items : AppendItems(i)
      BY <2>1
    <3>2. PICK c : c = [op |-> "Add", item |-> i, ack |-> FALSE]
      OBVIOUS
    <3>3. c \in Commands /\ c.item = i
      BY <3>2, Constants DEF Commands, CmdOps
    <3> QED  BY <3>1, <3>2, <3>3 DEF AppendItems
  <2>2. CASE \E op \in CmdOps \ {"Add"} : Barrier(op)
    <3>1. PICK op \in CmdOps \ {"Add"} : Barrier(op)
      BY <2>2
    <3>2. PICK c : c = [op |-> op, item |-> Meta, ack |-> TRUE]
      OBVIOUS
    <3>3. c \in Commands /\ ~Adds(c)
      BY <3>2, Constants DEF Commands, CmdOps, Adds
    <3> QED  BY <3>1, <3>2, <3>3 DEF Barrier
  <2> QED  BY <2>1, <2>2
<1>3. ChannelsOK'
  <2> SUFFICES ASSUME NEW n \in Writers, NEW k \in DOMAIN chan'[n], Adds(chan'[n][k])
               PROVE  chan'[n][k].item \in Items
    BY <1>2, SendEffect DEF ChannelsOK
  <2>1. CASE n = recorder
    BY <1>2, <2>1, SendEffect DEF Basics, ChannelsOK
  <2>2. CASE n # recorder
    BY <1>2, <2>2, SendEffect DEF Basics, ChannelsOK
  <2> QED  BY <2>1, <2>2
<1>4. client' \in [pc : ClientPCs, op : CmdOps]
  <2>1. CASE \E i \in Items : AppendItems(i)
    BY <2>1 DEF AppendItems, ClientPCs, CmdOps
  <2>2. CASE \E op \in CmdOps \ {"Add"} : Barrier(op)
    BY <2>2 DEF Barrier, ClientPCs
  <2> QED  BY <2>1, <2>2
<1>5. accepted' \in [Writers -> Seq(Items)]
  <2>1. recorder \in Writers /\ accepted \in [Writers -> Seq(Items)]
    BY <1>2, SendEffect DEF Basics, RecordsOK
  <2>2. \A i \in Items : Append(accepted[recorder], i) \in Seq(Items)
    BY <2>1
  <2> QED  BY <2>1, <2>2 DEF AppendItems, Barrier
<1>6. FileOK' /\ WritersOK' /\ StoreOK' /\ RecordsOK'
  BY <1>1, <1>4, <1>5 DEF Basics, FileOK, Paginated, WritersOK, StoreOK, RecordsOK
<1> QED  BY <1>1, <1>3, <1>6, CountStays DEF Basics

\* A set of natural numbers that is not empty has a least element.
LEMMA LeastOf ==
    ASSUME NEW T, T \subseteq Nat, T # {}
    PROVE  \E i \in T : \A j \in T : i <= j
<1>1. PICK R : R = OpToRel(<, Nat)
  OBVIOUS
<1>2. IsWellFoundedOn(R, Nat)
  BY <1>1, NatLessThanWellFounded
<1>3. \A i, j \in Nat : i < j => <<i, j>> \in R
  BY <1>1 DEF OpToRel
<1>4. PICK x \in T : \A y \in T : ~ (<<y, x>> \in R)
  BY <1>2, WFMin
<1>5. x \in Nat /\ \A y \in T : y \in Nat /\ ~(y < x)
  BY <1>3, <1>4
<1>6. \A y \in T : x <= y
  BY <1>5
<1> QED  BY <1>6

\* And if it is bounded, a greatest.
LEMMA GreatestOf ==
    ASSUME NEW n \in Nat, NEW T, T \subseteq 1..n, T # {}
    PROVE  \E i \in T : \A j \in T : j <= i
<1>1. PICK U : U = {n - i : i \in T}
  OBVIOUS
<1>7. \A i \in T : i \in 1..n /\ n - i \in Nat
  OBVIOUS
<1>2. U \subseteq Nat /\ U # {}
  <2>1. U \subseteq Nat
    BY <1>1, <1>7
  <2>2. PICK i : i \in T
    OBVIOUS
  <2>3. n - i \in U
    BY <1>1, <2>2
  <2> QED  BY <2>1, <2>3
<1>3. PICK u \in U : \A v \in U : u <= v
  BY <1>2, LeastOf
<1>4. PICK i \in T : u = n - i
  BY <1>1, <1>3
<1>5. \A j \in T : n - i <= n - j
  BY <1>1, <1>3, <1>4
<1>6. \A j \in T : j <= i
  BY <1>5, <1>7
<1> QED  BY <1>6

\* The last record that parses.
LEMMA LastOne ==
    ASSUME FileOK, OkLines # {}
    PROVE  \E i \in OkLines : /\ \A j \in OkLines : j <= i
                              /\ LastOrdinal = file[i].ord /\ file[i].ord \in 0..NoOrdinal
<1>1. Len(file) \in Nat /\ DOMAIN file = 1..Len(file) /\ file \in Seq(Lines)
  BY DEF FileOK
<1>2. OkLines \subseteq 1..Len(file)
  BY <1>1 DEF OkLines
<1>3. \E i \in OkLines : \A j \in OkLines : j <= i
  BY <1>1, <1>2, GreatestOf
<1>4. PICK i : i = CHOOSE k \in OkLines : \A j \in OkLines : j <= k
  OBVIOUS
<1>5. i \in OkLines /\ \A j \in OkLines : j <= i
  BY <1>3, <1>4
<1>6. LastOrdinal = file[i].ord
  BY <1>4 DEF LastOrdinal
<1>7. file[i] \in Lines
  BY <1>1, <1>2, <1>5
<1> QED  BY <1>5, <1>6, <1>7 DEF Lines

\* A recorder is opened on the file.
LEMMA ResumeEffect ==
    ASSUME Basics, NEW n \in Writers, Resume(n)
    PROVE  \E x \in 0..NoOrdinal :
              /\ Turns(n, "recv", Unused.cmd, TRUE, FALSE, <<>>, x)
              /\ \E i \in OkLines : /\ \A j \in OkLines : j <= i
                                    /\ Paginated => x = file[i].ord + 1
                                    /\ ~Paginated => x = BaseOrdinal
<1>1. OkLines # {}
  BY DEF Resume, HasMeta, Parsed
<1>2. PICK i \in OkLines : /\ \A j \in OkLines : j <= i
                           /\ LastOrdinal = file[i].ord /\ file[i].ord \in 0..NoOrdinal
  BY <1>1, LastOne DEF Basics
<1>3. Paginated => file[i].ord <= MaxOrdinal
  BY DEF Basics, FileOK, OkLines
<1>4. PICK x \in 0..NoOrdinal : x = IF Paginated THEN file[i].ord + 1 ELSE BaseOrdinal
  BY <1>2, <1>3, Constants
<1>5. x = IF Paginated THEN Advance(LastOrdinal) ELSE BaseOrdinal
  BY <1>2, <1>4 DEF Advance
<1>6. PICK r : r = [Unused EXCEPT !.pc = "recv", !.open = TRUE, !.next = x]
  OBVIOUS
<1>7. Unused \in WriterStates
  BY Constants DEF Unused, WriterStates, WriterPCs, Commands, CmdOps
<1>8. r \in WriterStates
  BY <1>6, <1>7 DEF WriterStates, WriterPCs
<1>9. w' = [w EXCEPT ![n] = r]
  BY <1>5, <1>6 DEF Resume
<1>11. w \in [Writers -> WriterStates]
  BY DEF Basics, WritersOK
<1>12. /\ w' \in [Writers -> WriterStates] /\ w'[n] = r
       /\ \A k \in Writers : k # n => w'[k] = w[k]
  BY <1>8, <1>9, <1>11
<1>13. /\ r.pc = "recv" /\ r.cmd = Unused.cmd /\ r.open = TRUE /\ r.meta = FALSE
       /\ r.pending = <<>> /\ r.next = x
  BY <1>6 DEF Unused
<1>14. Turns(n, "recv", Unused.cmd, TRUE, FALSE, <<>>, x)
  BY <1>12, <1>13 DEF Turns
<1> QED  BY <1>2, <1>4, <1>14

\* The store lets go of a recorder, opens one, finishes an operation.
LEMMA StoreBasics ==
    ASSUME Basics, mode' = mode, Discard \/ \E n \in Writers : Resume(n)
    PROVE  Basics'
<1>1. /\ UNCHANGED <<file, exists, chan, client, updater, db, accepted, acked, count>>
      /\ recorder' \in 0..MaxWriters /\ (ended' = ended \/ ended' = TRUE)
  BY Constants DEF Discard, Resume
<1>2. WritersOK'
  <2>1. CASE Discard
    BY <2>1 DEF Basics, WritersOK, Discard
  <2>2. CASE \E n \in Writers : Resume(n)
    <3>1. PICK n \in Writers, x \in 0..NoOrdinal : Turns(n, "recv", Unused.cmd, TRUE, FALSE, <<>>, x)
      BY <2>2, ResumeEffect
    <3> QED  BY <3>1 DEF Basics, WritersOK, Turns
  <2> QED  BY <2>1, <2>2
<1>3. FileOK'
  <2>1. CASE ended' = ended
    BY <1>1, <2>1 DEF Basics, FileOK, Paginated
  <2>2. CASE ended' = TRUE
    BY <1>1, <2>2 DEF Basics, FileOK, Paginated
  <2> QED  BY <1>1, <2>1, <2>2
<1>4. ChannelsOK' /\ StoreOK' /\ RecordsOK'
  BY <1>1 DEF Basics, ChannelsOK, StoreOK, RecordsOK, Paginated
<1> QED  BY <1>1, <1>2, <1>3, <1>4, CountStays DEF Basics

\* A canceled command keeps everything but its ack.
LEMMA CancelEffect ==
    ASSUME Basics, Cancel
    PROVE  /\ client.pc # "idle" /\ client'.pc = "idle"
           /\ client' \in [pc : ClientPCs, op : CmdOps]
           /\ chan' \in [Writers -> Seq(Commands)] /\ w' \in [Writers -> WriterStates]
           /\ \A n \in Writers :
                 /\ DOMAIN chan'[n] = DOMAIN chan[n]
                 /\ \A k \in DOMAIN chan[n] :
                       /\ chan'[n][k].op = chan[n][k].op /\ chan'[n][k].item = chan[n][k].item
                       /\ ~chan'[n][k].ack
                 /\ w'[n].pc = w[n].pc /\ w'[n].open = w[n].open /\ w'[n].meta = w[n].meta
                 /\ w'[n].pending = w[n].pending /\ w'[n].next = w[n].next
                 /\ ~w'[n].cmd.ack
<1>1. /\ client.pc # "idle" /\ client'.pc = "idle"
      /\ client' \in [pc : ClientPCs, op : CmdOps]
  BY DEF Cancel, Basics, StoreOK, ClientPCs, Paginated
<1>2. \A c \in Commands : /\ [c EXCEPT !.ack = FALSE] \in Commands
                          /\ [c EXCEPT !.ack = FALSE].op = c.op
                          /\ [c EXCEPT !.ack = FALSE].item = c.item
                          /\ ~[c EXCEPT !.ack = FALSE].ack
  BY DEF Commands
<1>3. \A n \in Writers : /\ chan[n] \in Seq(Commands) /\ DOMAIN chan[n] = 1..Len(chan[n])
                         /\ Len(chan[n]) \in Nat
  BY DEF Basics, ChannelsOK
<1>4. \A n \in Writers : chan'[n] = [k \in DOMAIN chan[n] |-> [chan[n][k] EXCEPT !.ack = FALSE]]
  BY DEF Cancel
<1>5. ASSUME NEW n \in Writers
      PROVE  /\ chan'[n] \in Seq(Commands) /\ DOMAIN chan'[n] = DOMAIN chan[n]
             /\ \A k \in DOMAIN chan[n] :
                   /\ chan'[n][k].op = chan[n][k].op /\ chan'[n][k].item = chan[n][k].item
                   /\ ~chan'[n][k].ack
  <2>1. PICK s, t : s = chan[n] /\ t = chan'[n]
    OBVIOUS
  <2>2. /\ s \in Seq(Commands) /\ DOMAIN s = 1..Len(s) /\ Len(s) \in Nat
        /\ t = [k \in DOMAIN s |-> [s[k] EXCEPT !.ack = FALSE]]
    BY <1>3, <1>4, <2>1
  <2>3. \A k \in DOMAIN s : s[k] \in Commands
    BY <2>2
  <2>4. t \in [1..Len(s) -> Commands]
    BY <1>2, <2>2, <2>3
  <2>5. t \in Seq(Commands)
    BY <2>2, <2>4, SeqDef
  <2> QED  BY <1>2, <2>1, <2>2, <2>3, <2>5
<1>6. chan' \in [Writers -> Seq(Commands)]
  <2>1. chan' = [n \in Writers |-> chan'[n]]
    BY DEF Cancel
  <2> QED  BY <1>5, <2>1
<1>7. \A n \in Writers : w'[n] = [w[n] EXCEPT !.cmd.ack = FALSE]
  BY DEF Cancel
<1>8. \A r \in WriterStates : /\ [r EXCEPT !.cmd = [r.cmd EXCEPT !.ack = FALSE]] \in WriterStates
                              /\ [r EXCEPT !.cmd.ack = FALSE] = [r EXCEPT !.cmd = [r.cmd EXCEPT !.ack = FALSE]]
  BY <1>2 DEF WriterStates
<1>9. ASSUME NEW n \in Writers
      PROVE  /\ w'[n] \in WriterStates
             /\ w'[n].pc = w[n].pc /\ w'[n].open = w[n].open /\ w'[n].meta = w[n].meta
             /\ w'[n].pending = w[n].pending /\ w'[n].next = w[n].next
             /\ ~w'[n].cmd.ack
  <2>1. PICK r \in WriterStates : r = w[n]
    BY DEF Basics, WritersOK
  <2>2. w'[n] = [r EXCEPT !.cmd = [r.cmd EXCEPT !.ack = FALSE]] /\ w'[n] \in WriterStates
    BY <1>7, <1>8, <2>1
  <2>3. r.cmd \in Commands
    BY DEF WriterStates
  <2>4. PICK c \in Commands : c = [r.cmd EXCEPT !.ack = FALSE] /\ ~c.ack
    BY <1>2, <2>3
  <2>5. w'[n] = [r EXCEPT !.cmd = c]
    BY <2>2, <2>4
  <2> QED  BY <2>1, <2>2, <2>4, <2>5 DEF WriterStates
<1>10. w' \in [Writers -> WriterStates]
  <2>1. w' = [n \in Writers |-> w'[n]]
    BY DEF Cancel
  <2> QED  BY <1>9, <2>1
<1> QED  BY <1>1, <1>5, <1>6, <1>9, <1>10

\* The caller gives up.
LEMMA CancelBasics ==
    ASSUME Basics, mode' = mode, Cancel
    PROVE  Basics'
<1>1. UNCHANGED <<file, ended, exists, recorder, updater, db, accepted, acked, count>>
  BY DEF Cancel
<1>2. WritersOK'
  BY CancelEffect DEF Basics, WritersOK
<1>3. ChannelsOK'
  <2>1. \A n \in Writers : \A k \in DOMAIN chan[n] :
            Adds(chan[n][k]) => chan[n][k].item \in Items
    BY DEF Basics, ChannelsOK
  <2>2. ASSUME NEW n \in Writers, NEW k \in DOMAIN chan'[n], Adds(chan'[n][k])
        PROVE  chan'[n][k].item \in Items
    <3>1. /\ k \in DOMAIN chan[n]
          /\ chan'[n][k].op = chan[n][k].op /\ chan'[n][k].item = chan[n][k].item
      BY CancelEffect
    <3>2. Adds(chan[n][k])
      BY <2>2, <3>1 DEF Adds
    <3> QED  BY <2>1, <3>1, <3>2
  <2> QED  BY <2>2, CancelEffect DEF ChannelsOK
<1>4. FileOK' /\ StoreOK' /\ RecordsOK'
  BY <1>1, CancelEffect DEF Basics, FileOK, Paginated, StoreOK, RecordsOK
<1> QED  BY <1>1, <1>2, <1>3, <1>4, CountStays DEF Basics

\* The operation finds its writer task gone.
LEMMA GoneBasics ==
    ASSUME Basics, mode' = mode, WriterGone
    PROVE  Basics'
<1>1. UNCHANGED <<file, ended, exists, w, recorder, updater, db, accepted, acked, count>>
  BY DEF WriterGone
<1>2. client' \in [pc : ClientPCs, op : CmdOps]
  BY DEF WriterGone, Basics, StoreOK, ClientPCs, Paginated
<1>3. ChannelsOK'
  <2>1. PICK e : e = <<>>
    OBVIOUS
  <2>2. chan' = [chan EXCEPT ![recorder] = e] /\ chan \in [Writers -> Seq(Commands)]
    BY <2>1 DEF WriterGone, Basics, ChannelsOK
  <2>3. chan' \in [Writers -> Seq(Commands)]
    <3>1. e \in Seq(Commands)
      BY <2>1
    <3> QED  BY <2>2, <3>1
  <2>4. ASSUME NEW n \in Writers, NEW k \in DOMAIN chan'[n]
        PROVE  Adds(chan'[n][k]) => chan'[n][k].item \in Items
    <3>1. CASE n = recorder
      <4>1. chan'[n] = <<>>
        BY <2>1, <2>2, <3>1
      <4> QED  BY <4>1
    <3>2. CASE n # recorder
      <4>1. chan'[n] = chan[n]
        BY <2>2, <3>2
      <4> QED  BY <4>1 DEF Basics, ChannelsOK
    <3> QED  BY <3>1, <3>2
  <2> QED  BY <2>3, <2>4 DEF ChannelsOK
<1>4. FileOK' /\ WritersOK' /\ StoreOK' /\ RecordsOK'
  BY <1>1, <1>2 DEF Basics, FileOK, Paginated, WritersOK, StoreOK, RecordsOK
<1> QED  BY <1>1, <1>3, <1>4, CountStays DEF Basics

\* The complete lines.
LEMMA CompleteRange ==
    ASSUME FileOK
    PROVE  /\ Complete \in Nat /\ Len(file) \in Nat /\ Complete <= Len(file)
           /\ DOMAIN file = 1..Len(file)
           /\ ended => Complete = Len(file)
BY DEF FileOK, Complete

\* The last fresh line.
LEMMA LastFresh ==
    ASSUME FileOK, Fresh # {}
    PROVE  \E i \in Fresh : /\ \A j \in Fresh : j <= i
                            /\ Projected = [off |-> Complete, next |-> file[i].ord + 1,
                                            rows |-> db.rows \cup {file[k].item : k \in Fresh}]
<1>1. Fresh \subseteq 1..Len(file) /\ Len(file) \in Nat
  BY CompleteRange DEF Fresh, OkLines
<1>2. \E i \in Fresh : \A j \in Fresh : j <= i
  BY <1>1, GreatestOf
<1>3. PICK i : i = CHOOSE k \in Fresh : \A j \in Fresh : j <= k
  OBVIOUS
<1>4. i \in Fresh /\ \A j \in Fresh : j <= i
  BY <1>2, <1>3
<1> QED  BY <1>3, <1>4 DEF Projected

\* An operation ends, and the projection may catch up.
LEMMA ProjectBasics ==
    ASSUME Basics, mode' = mode, Project
    PROVE  Basics'
<1>1. UNCHANGED <<file, ended, exists, w, chan, updater, accepted, acked, count>>
  BY DEF Project
<1>2. db' \in [off : Nat, next : 0..NoOrdinal, rows : SUBSET Records]
  <2>1. db \in [off : Nat, next : 0..NoOrdinal, rows : SUBSET Records] /\ Complete \in Nat
    BY CompleteRange DEF Basics, RecordsOK
  <2>2. CASE db' = db
    BY <2>1, <2>2
  <2>3. CASE db' = Projected /\ Fresh = {}
    BY <2>1, <2>3 DEF Projected
  <2>4. CASE /\ db' = Projected /\ Fresh # {} /\ \A i \in Fresh : file[i].ord < MaxOrdinal
    <3>1. PICK i \in Fresh : Projected = [off |-> Complete, next |-> file[i].ord + 1,
                                          rows |-> db.rows \cup {file[k].item : k \in Fresh}]
      BY <2>4, LastFresh DEF Basics
    <3>2. \A k \in Fresh : file[k] \in Lines
      BY DEF Basics, FileOK, Fresh, OkLines
    <3>3. \A k \in Fresh : file[k].item \in Records /\ file[k].ord \in 0..NoOrdinal
      BY <3>2 DEF Lines
    <3>4. file[i].ord + 1 \in 0..NoOrdinal
      BY <2>4, <3>3, Constants
    <3>5. {file[k].item : k \in Fresh} \subseteq Records
      BY <3>3
    <3> QED  BY <2>1, <2>4, <3>1, <3>4, <3>5
  <2> QED  BY <2>2, <2>3, <2>4 DEF Project
<1>3. client' \in [pc : ClientPCs, op : CmdOps] /\ recorder' \in 0..MaxWriters
  BY Constants DEF Project, Basics, StoreOK, ClientPCs, Paginated
<1>4. FileOK' /\ WritersOK' /\ ChannelsOK'
  BY <1>1 DEF Basics, FileOK, Paginated, WritersOK, ChannelsOK
<1>5. StoreOK' /\ RecordsOK'
  BY <1>1, <1>2, <1>3 DEF Basics, StoreOK, RecordsOK, Paginated
<1> QED  BY <1>1, <1>4, <1>5, CountStays DEF Basics

\* A metadata update is opened and written.
LEMMA UpdateBasics ==
    ASSUME Basics, mode' = mode, OpenForUpdate \/ WriteUpdate
    PROVE  Basics'
<1>1. /\ UNCHANGED <<exists, w, chan, recorder, client, db, accepted, acked>>
      /\ updater' \in {"idle", "write"}
  BY DEF OpenForUpdate, WriteUpdate
<1>2. WritersOK' /\ ChannelsOK' /\ StoreOK' /\ RecordsOK'
  BY <1>1 DEF Basics, WritersOK, ChannelsOK, StoreOK, RecordsOK, Paginated, OpenForUpdate, WriteUpdate
<1>3. CASE OpenForUpdate
  <2>1. FileOK'
    BY <1>3 DEF OpenForUpdate, Basics, FileOK, Paginated
  <2>2. Bound' = Bound /\ Bound.faults \in Nat /\ Bound.crashes \in Nat /\ Bound.updates \in Nat
    BY RolloutAssumption DEF Bound, Basics
  <2>3. CountOK'
    BY <1>3, <2>2 DEF OpenForUpdate, Basics, CountOK
  <2> QED  BY <1>2, <2>1, <2>3 DEF Basics
<1>4. CASE WriteUpdate /\ ~Paginated
  <2>1. PICK outcome \in Outcomes : /\ Put(Line(MetaUpdate, NoOrdinal, TRUE), outcome)
                                    /\ UNCHANGED count \/ Fault
    BY <1>4 DEF WriteUpdate, Outcomes
  <2>2. FileOK'
    BY <1>4, <2>1, Constants, PutEffect DEF Basics
  <2>3. CountOK'
    BY <2>1, CountStays, FaultEffect
  <2> QED  BY <1>2, <2>2, <2>3 DEF Basics
<1> QED  BY <1>3, <1>4 DEF Basics, StoreOK, WriteUpdate

\* A line that is being written when the process crashes.
LEMMA InFlightLine ==
    ASSUME Basics, NEW line \in InFlight
    PROVE  \E x \in Records, o \in 0..NoOrdinal :
              /\ line = Line(x, o, TRUE) /\ (Paginated => o <= MaxOrdinal)
              /\ \/ x = MetaUpdate /\ updater = "write"
                 \/ \E n \in Writers : /\ w[n].pc = "meta" /\ w[n].meta /\ x = Meta
                                       /\ o = OrdinalOf(n)
                 \/ \E n \in Writers : /\ w[n].pc = "items" /\ w[n].pending # <<>>
                                       /\ x = Head(w[n].pending) /\ x \in Items
                                       /\ o = OrdinalOf(n)
<1>1. CASE updater = "write" /\ line = Line(MetaUpdate, NoOrdinal, TRUE)
  BY <1>1, Constants DEF Basics, StoreOK
<1>2. CASE \E n \in Writers : w[n].pc = "meta" /\ w[n].meta /\ line = Line(Meta, OrdinalOf(n), TRUE)
  <2>1. PICK n \in Writers : w[n].pc = "meta" /\ w[n].meta /\ line = Line(Meta, OrdinalOf(n), TRUE)
    BY <1>2
  <2> QED  BY <2>1, Constants, OrdinalRange
<1>3. CASE \E n \in Writers : /\ w[n].pc = "items" /\ w[n].pending # <<>> /\ ~Exhausted(n)
                              /\ line = Line(Head(w[n].pending), OrdinalOf(n), TRUE)
  <2>1. PICK n \in Writers : /\ w[n].pc = "items" /\ w[n].pending # <<>> /\ ~Exhausted(n)
                             /\ line = Line(Head(w[n].pending), OrdinalOf(n), TRUE)
    BY <1>3
  <2>2. w[n].pending \in Seq(Items)
    BY BasicTypes, FieldTypes
  <2>3. Head(w[n].pending) \in Items /\ Head(w[n].pending) \in Records
    BY <2>1, <2>2, Constants
  <2> QED  BY <2>1, <2>3, OrdinalRange
<1> QED  BY <1>1, <1>2, <1>3 DEF InFlight

\* A crash stops every writer.
LEMMA CrashWriters ==
    ASSUME Basics, Crash
    PROVE  /\ w' \in [Writers -> WriterStates]
           /\ \A n \in Writers : /\ w'[n].pc \in {"unused", "stopped"}
                                 /\ w[n].pc = "unused" => w'[n] = w[n]
                                 /\ w[n].pc # "unused" =>
                                       w'[n].pc = "stopped" /\ ~w'[n].meta /\ w'[n].pending = <<>>
<1>1. PICK r : r = [Unused EXCEPT !.pc = "stopped"]
  OBVIOUS
<1>2. Unused \in WriterStates
  BY Constants DEF Unused, WriterStates, WriterPCs, Commands, CmdOps
<1>3. r \in WriterStates
  BY <1>1, <1>2 DEF WriterStates, WriterPCs
<1>4. r.pc = "stopped" /\ ~r.meta /\ r.pending = <<>>
  BY <1>1 DEF Unused
<1>5. w \in [Writers -> WriterStates]
  BY DEF Basics, WritersOK
<1>6. w' = [n \in Writers |-> IF w[n].pc = "unused" THEN w[n] ELSE r]
  BY <1>1 DEF Crash
<1> QED  BY <1>3, <1>4, <1>5, <1>6

\* The process crashes.
LEMMA CrashBasics ==
    ASSUME Basics, mode' = mode, Crash
    PROVE  Basics'
<1>1. UNCHANGED <<exists, db, accepted, acked>> /\ recorder' = 0 /\ updater' = "idle"
  BY DEF Crash
<1>2. FileOK'
  <2>1. CASE UNCHANGED <<file, ended>>
    BY <2>1 DEF Basics, FileOK, Paginated
  <2>2. CASE \E line \in InFlight, outcome \in {"torn", "bare"} : Put(line, outcome)
    <3>1. PICK line \in InFlight, outcome \in Outcomes : Put(line, outcome)
      BY <2>2 DEF Outcomes
    <3>2. PICK x \in Records, o \in 0..NoOrdinal :
              line = Line(x, o, TRUE) /\ (Paginated => o <= MaxOrdinal)
      BY InFlightLine
    <3> QED  BY <3>1, <3>2, PutEffect DEF Basics
  <2> QED  BY <2>1, <2>2 DEF Crash
<1>3. WritersOK'
  BY CrashWriters DEF Basics, WritersOK
<1>4. ChannelsOK'
  BY DEF Crash, ChannelsOK
<1>8. client' \in [pc : ClientPCs, op : CmdOps]
  BY DEF Basics, StoreOK, Crash, ClientPCs
<1>9. recorder' \in 0..MaxWriters
  BY <1>1, Constants
<1>5. StoreOK' /\ RecordsOK'
  BY <1>1, <1>8, <1>9 DEF Basics, StoreOK, RecordsOK, Paginated
<1>6. Bound' = Bound /\ Bound.faults \in Nat /\ Bound.crashes \in Nat /\ Bound.updates \in Nat
  BY RolloutAssumption DEF Bound, Basics
<1>7. CountOK'
  BY <1>6 DEF Crash, Basics, CountOK
<1> QED  BY <1>2, <1>3, <1>4, <1>5, <1>7 DEF Basics

\* The state of a recorder just created.
LEMMA InitWriters ==
    ASSUME Init
    PROVE  /\ w \in [Writers -> WriterStates]
           /\ w[1].pc = "recv" /\ w[1].meta /\ w[1].next = BaseOrdinal /\ ~w[1].open
           /\ ~w[1].cmd.ack
           /\ \A n \in Writers : w[n].pending = <<>>
           /\ \A n \in Writers : n # 1 => w[n].pc = "unused" /\ ~w[n].meta
<1>1. PICK r : r = [Unused EXCEPT !.pc = "recv", !.meta = TRUE, !.deferred = TRUE]
  OBVIOUS
<1>2. Unused \in WriterStates
  BY Constants DEF Unused, WriterStates, WriterPCs, Commands, CmdOps
<1>3. r \in WriterStates
  BY <1>1, <1>2 DEF WriterStates, WriterPCs
<1>4. /\ r.pc = "recv" /\ r.meta /\ r.next = BaseOrdinal /\ ~r.open /\ ~r.cmd.ack
      /\ r.pending = <<>>
  BY <1>1 DEF Unused
<1>5. Unused.pc = "unused" /\ ~Unused.meta /\ Unused.pending = <<>>
  BY DEF Unused
<1>6. w = [n \in Writers |-> IF n = 1 THEN r ELSE Unused] /\ 1 \in Writers
  BY <1>1, Constants DEF Init
<1> QED  BY <1>2, <1>3, <1>4, <1>5, <1>6

\* The initial state.
LEMMA InitBasics ==
    ASSUME Init
    PROVE  Basics
<1>1. FileOK /\ ChannelsOK
  BY DEF Init, FileOK, ChannelsOK
<1>2. WritersOK
  BY InitWriters DEF WritersOK
<1>3. StoreOK
  <2>1. client \in [pc : ClientPCs, op : CmdOps]
    BY DEF Init, ClientPCs, CmdOps
  <2>2. recorder \in 0..MaxWriters
    BY Constants DEF Init
  <2>3. exists \in BOOLEAN /\ updater = "idle"
    BY DEF Init
  <2> QED  BY <2>1, <2>2, <2>3 DEF StoreOK
<1>4. RecordsOK
  BY Constants DEF Init, RecordsOK
<1>5. mode \in Modes
  BY DEF Init
<1>6. Bound.faults \in Nat /\ Bound.crashes \in Nat /\ Bound.updates \in Nat
  BY <1>5, RolloutAssumption DEF Bound
<1>7. CountOK
  BY <1>6 DEF Init, CountOK
<1> QED  BY <1>1, <1>2, <1>3, <1>4, <1>5, <1>7 DEF Basics

\* Nothing happens.
LEMMA StutterBasics ==
    ASSUME Basics, UNCHANGED vars
    PROVE  Basics'
<1>1. UNCHANGED <<mode, file, ended, exists, w, chan, recorder, client, updater, db,
                  accepted, acked, count>>
  BY DEF vars
<1>2. FileOK' /\ WritersOK' /\ ChannelsOK' /\ StoreOK' /\ RecordsOK'
  BY <1>1 DEF Basics, FileOK, Paginated, WritersOK, ChannelsOK, StoreOK, RecordsOK
<1> QED  BY <1>1, <1>2, CountStays DEF Basics

\* Every step preserves the types.
LEMMA StepBasics ==
    ASSUME Basics, [Next]_vars
    PROVE  Basics'
<1>1. CASE UNCHANGED vars
  BY <1>1, StutterBasics
<1>2. CASE \E n \in Writers : WriterStep(n)
  <2>1. PICK n \in Writers : WriterStep(n)
    BY <1>2
  <2> QED  BY <2>1, ReceiveBasics, OpenLogBasics, WriteMetaBasics, WriteItemBasics, DoneBasics
           DEF WriterStep
<1>3. CASE OperationStep
  <2>1. "Flush" \in CmdOps \ {"Add"}
    BY DEF CmdOps
  <2> QED  BY <1>3, <2>1, SendBasics, GoneBasics, ProjectBasics DEF OperationStep
<1>4. CASE mode' = mode /\ StoreOp
  BY <1>4, SendBasics, StoreBasics DEF StoreOp
<1>5. CASE mode' = mode /\ (Cancel \/ OpenForUpdate \/ WriteUpdate \/ Crash)
  BY <1>5, CancelBasics, UpdateBasics, CrashBasics
<1> QED  BY <1>1, <1>2, <1>3, <1>4, <1>5 DEF Next

\* Every variable keeps its type, with the facts the types rest on: a paginated
\* file has ordinals up to MaxOrdinal, and a writer whose SessionMeta is not
\* written has not advanced its ordinal (RolloutOrdinalState).
THEOREM LogBasics == Spec => []Basics
<1>1. Init => Basics
  BY InitBasics
<1>2. Basics /\ [Next]_vars => Basics'
  BY StepBasics
<1> QED  BY <1>1, <1>2, PTL DEF Spec

\* The state of the writers, the file and the store keeps its type, whatever
\* fails and whoever else appends to the file.
THEOREM LogTypeCorrect == Spec => []TypeOK
<1>1. Basics => TypeOK
  BY BasicTypes
<1> QED  BY <1>1, LogBasics, PTL
=============================================================================
