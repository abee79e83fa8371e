------------------------ MODULE RolloutDurableProofs ------------------------
(***************************************************************************)
(* Proofs about RolloutLog: what is acknowledged is in the file, in order, *)
(* under ordinals that identify it, and in the projection.                 *)
(***************************************************************************)
EXTENDS RolloutLogProofs

\* Only the live recorder appends to the file: recorders are not discarded
\* while their task runs, and metadata updates do not share the file.
Alone(m) == "Discard" \notin Bounds[m].ops /\ (m = "Legacy" => Bounds[m].updates = 0)

\* The files the theorems are about: there is one appender at a time, or the
\* thread has no ordinals and no write fails.
Isolated == \A m \in Modes : Alone(m) \/ (m = "Legacy" /\ Bounds[m].faults = 0)

(***************************************************************************)
(* Who may write, and who waits for whom.                                  *)
(***************************************************************************)

Busy(n) == w[n].pc \in {"open", "meta", "items"}
Gone(n) == w[n].pc \in {"unused", "stopped"}

\* An open handle is at the end of a terminated line: who leaves a part of a
\* line behind closes its handle, and opening terminates the line.
Clean ==
    /\ \A n \in Writers : w[n].pc \in {"meta", "items"} => w[n].open
    /\ \A n \in Writers : w[n].open /\ ~Gone(n) => ended
    /\ updater = "write" => ended

\* With one appender at a time the other writer tasks are gone, and the store
\* lets go of a recorder only when its task has stopped.
Solo ==
    /\ Alone(mode) => updater = "idle" /\ \A n \in Writers : n # recorder => Gone(n)
    /\ client.pc = "project" /\ client.op = "Shutdown" /\ recorder # 0 =>
          w[recorder].pc = "stopped"

\* A command somebody waits for is the last one of the live recorder.
Waits ==
    /\ \A n \in Writers : Busy(n) /\ w[n].cmd.ack =>
          /\ client.pc = "wait" /\ client.op = w[n].cmd.op /\ recorder = n /\ chan[n] = <<>>
    /\ \A n \in Writers : \A k \in DOMAIN chan[n] : chan[n][k].ack =>
          /\ client.pc = "wait" /\ client.op = chan[n][k].op /\ recorder = n
          /\ k = Len(chan[n])

\* Nobody waits for an item; a writer that was never opened is new.
Shapes ==
    /\ \A n \in Writers : \A k \in DOMAIN chan[n] : Adds(chan[n][k]) => ~chan[n][k].ack
    /\ \A n \in Writers : w[n].pc = "unused" => n # recorder /\ accepted[n] = <<>>

Control == Clean /\ Solo /\ Waits /\ Shapes

\* A write fails only where there is one appender.
LEMMA FaultAlone ==
    ASSUME Isolated, Basics, Fault
    PROVE  Alone(mode)
<1>1. mode \in Modes /\ Bound.faults \in Nat /\ count.faults \in 0..Bound.faults
  BY RolloutAssumption DEF Basics, CountOK, Bound
<1>2. Bound.faults # 0
  BY <1>1 DEF Fault
<1> QED  BY <1>1, <1>2 DEF Isolated, Bound

\* Nobody waits unless the client does.
LEMMA NobodyWaits ==
    ASSUME Waits, client.pc # "wait", NEW n \in Writers
    PROVE  (Busy(n) => ~w[n].cmd.ack) /\ \A k \in DOMAIN chan[n] : ~chan[n][k].ack
BY DEF Waits

\* A busy writer goes on: its command is not answered.
LEMMA GoesOn ==
    ASSUME Basics, Control, mode' = mode, NEW n \in Writers, Busy(n),
           NEW p \in {"open", "meta", "items"}, NEW o \in BOOLEAN, NEW m, NEW q, NEW x,
           Turns(n, p, w[n].cmd, o, m, q, x), p \in {"meta", "items"} => o,
           (ended' = TRUE) \/ (ended' = ended /\ (o => w[n].open)) \/ (Alone(mode) /\ ~o),
           UNCHANGED <<chan, recorder, updater, client, accepted>>
    PROVE  Control'
<1>1. /\ w'[n].pc = p /\ w'[n].cmd = w[n].cmd /\ w'[n].open = o
      /\ \A k \in Writers : k # n => w'[k] = w[k]
  BY DEF Turns
<1>2. /\ \A k \in Writers : k # n => (Gone(k)' <=> Gone(k)) /\ (Busy(k)' <=> Busy(k))
      /\ ~Gone(n) /\ ~Gone(n)' /\ Busy(n)'
  BY <1>1 DEF Gone, Busy
<1>3. Clean'
  <2>1. Alone(mode) => \A k \in Writers : k # n => Gone(k)
    BY <1>2 DEF Control, Solo
  <2>2. Alone(mode) => updater = "idle"
    BY DEF Control, Solo
  <2>3. \A k \in Writers : w'[k].pc \in {"meta", "items"} => w'[k].open
    BY <1>1 DEF Control, Clean
  <2>4. \A k \in Writers : w'[k].open /\ ~Gone(k)' => ended'
    BY <1>1, <1>2, <2>1 DEF Control, Clean
  <2>5. updater' = "write" => ended'
    BY <2>2 DEF Control, Clean
  <2> QED  BY <2>3, <2>4, <2>5 DEF Clean
<1>4. Solo'
  <2>1. Alone(mode') => updater' = "idle" /\ \A k \in Writers : k # recorder' => Gone(k)'
    BY <1>2 DEF Control, Solo
  <2>2. ASSUME client'.pc = "project", client'.op = "Shutdown", recorder' # 0
        PROVE  w'[recorder'].pc = "stopped"
    <3>1. w[recorder].pc = "stopped" /\ recorder # n /\ recorder \in Writers
      BY <1>2, <2>2, Constants DEF Control, Solo, Gone, Basics, StoreOK
    <3> QED  BY <1>1, <3>1
  <2> QED  BY <2>1, <2>2 DEF Solo
<1>5. Waits'
  BY <1>1, <1>2 DEF Control, Waits
<1>6. Shapes'
  BY <1>1 DEF Control, Shapes
<1> QED  BY <1>3, <1>4, <1>5, <1>6 DEF Control

\* A writer answers a command, which may be its current one or the one it
\* takes from its channel, and is back at recv or has stopped.
Answering(n, p, c, o, m, q, x, ok) ==
    /\ Turns(n, p, c, o, m, q, x)
    /\ Reply(n, c, ok)
    /\ c.op = "Shutdown" /\ ok => p = "stopped"
    /\ (ended' = TRUE) \/ (ended' = ended /\ (o => w[n].open)) \/ (Alone(mode) /\ ~o)
    /\ \A k \in DOMAIN chan'[n] : ~chan'[n][k].ack \/
           \E l \in DOMAIN chan[n] : /\ chan'[n][k] = chan[n][l]
                                     /\ l = Len(chan[n]) => k = Len(chan'[n])
    /\ \A k \in Writers : k # n => chan'[k] = chan[k]
    /\ c.ack => client.pc = "wait" /\ client.op = c.op /\ recorder = n /\ chan'[n] = <<>>
    /\ \A k \in DOMAIN chan'[n] : Adds(chan'[n][k]) => ~chan'[n][k].ack
    /\ UNCHANGED <<recorder, updater, accepted>>

\* An answer keeps the control invariant.
LEMMA Answers ==
    ASSUME Basics, Control, mode' = mode, NEW n \in Writers, ~Gone(n), NEW c \in Commands,
           NEW p \in {"recv", "stopped"}, NEW o \in BOOLEAN, NEW m, NEW q, NEW x, NEW ok \in BOOLEAN,
           Answering(n, p, c, o, m, q, x, ok)
    PROVE  Control'
<1> SUFFICES ASSUME Turns(n, p, c, o, m, q, x),
                    Reply(n, c, ok),
                    c.op = "Shutdown" /\ ok => p = "stopped",
                    (ended' = TRUE) \/ (ended' = ended /\ (o => w[n].open)) \/ (Alone(mode) /\ ~o),
                    \A k \in DOMAIN chan'[n] : ~chan'[n][k].ack \/
                        \E l \in DOMAIN chan[n] : /\ chan'[n][k] = chan[n][l]
                                                  /\ l = Len(chan[n]) => k = Len(chan'[n]),
                    \A k \in Writers : k # n => chan'[k] = chan[k],
                    c.ack => client.pc = "wait" /\ client.op = c.op /\ recorder = n /\ chan'[n] = <<>>,
                    \A k \in DOMAIN chan'[n] : Adds(chan'[n][k]) => ~chan'[n][k].ack,
                    UNCHANGED <<recorder, updater, accepted>>
             PROVE  Control'
  BY DEF Answering
<1>1. /\ w'[n].pc = p /\ w'[n].cmd = c /\ w'[n].open = o
      /\ \A k \in Writers : k # n => w'[k] = w[k]
  BY DEF Turns
<1>2. /\ \A k \in Writers : k # n => (Gone(k)' <=> Gone(k)) /\ (Busy(k)' <=> Busy(k))
      /\ ~Busy(n)'
  BY <1>1 DEF Gone, Busy
<1>3. /\ ~c.ack => client' = client
      /\ client'.op = client.op
      /\ c.ack /\ ok => client'.pc = "project"
      /\ c.ack /\ ~ok => client'.pc = "idle"
  BY ReplyEffect
<1>4. Clean'
  <2>1. Alone(mode) => \A k \in Writers : k # n => Gone(k)
    BY DEF Control, Solo
  <2>2. Alone(mode) => updater = "idle"
    BY DEF Control, Solo
  <2>3. \A k \in Writers : w'[k].pc \in {"meta", "items"} => w'[k].open
    BY <1>1 DEF Control, Clean
  <2>4. \A k \in Writers : w'[k].open /\ ~Gone(k)' => ended'
    BY <1>1, <1>2, <2>1 DEF Control, Clean
  <2>5. updater' = "write" => ended'
    BY <2>2 DEF Control, Clean
  <2> QED  BY <2>3, <2>4, <2>5 DEF Clean
<1>5. Solo'
  <2>1. Alone(mode') => updater' = "idle" /\ \A k \in Writers : k # recorder' => Gone(k)'
    BY <1>2 DEF Control, Solo
  <2>2. ASSUME client'.pc = "project", client'.op = "Shutdown", recorder' # 0
        PROVE  w'[recorder'].pc = "stopped"
    <3>1. CASE c.ack
      <4>1. ok /\ recorder = n /\ c.op = "Shutdown"
        BY <1>3, <2>2, <3>1
      <4> QED  BY <1>1, <4>1
    <3>2. CASE ~c.ack
      <4>1. w[recorder].pc = "stopped" /\ recorder # n /\ recorder \in Writers
        BY <1>3, <2>2, <3>2, Constants DEF Control, Solo, Gone, Basics, StoreOK
      <4> QED  BY <1>1, <4>1
    <3> QED  BY <3>1, <3>2
  <2> QED  BY <2>1, <2>2 DEF Solo
<1>6. Waits'
  <2>1. CASE c.ack
    <3>1. \A k \in Writers : k # n => /\ ~(Busy(k) /\ w[k].cmd.ack)
                                      /\ \A l \in DOMAIN chan[k] : ~chan[k][l].ack
      BY <2>1 DEF Control, Waits
    <3>2. chan'[n] = <<>>
      BY <2>1
    <3> QED  BY <1>1, <1>2, <3>1, <3>2 DEF Waits
  <2>2. CASE ~c.ack
    <3>1. client' = client
      BY <1>3, <2>2
    <3>2. \A k \in Writers : Busy(k)' /\ w'[k].cmd.ack =>
              client.pc = "wait" /\ client.op = w'[k].cmd.op /\ recorder = k /\ chan'[k] = <<>>
      BY <1>1, <1>2 DEF Control, Waits
    <3>3. ASSUME NEW k \in Writers, NEW l \in DOMAIN chan'[k], chan'[k][l].ack
          PROVE  client.pc = "wait" /\ client.op = chan'[k][l].op /\ recorder = k /\ l = Len(chan'[k])
      BY <3>3 DEF Control, Waits
    <3> QED  BY <3>1, <3>2, <3>3 DEF Waits
  <2> QED  BY <2>1, <2>2
<1>7. Shapes'
  BY <1>1 DEF Control, Shapes
<1> QED  BY <1>4, <1>5, <1>6, <1>7 DEF Control

\* A failed write is tried again or reported.
LEMMA FailedControl ==
    ASSUME Basics, Control, mode' = mode, NEW n \in Writers, Busy(n), Failed(n),
           Alone(mode) \/ ended' \in {ended, TRUE},
           UNCHANGED <<chan, recorder, updater, accepted>>
    PROVE  Control'
<1>1. PICK p \in {"open", "recv"} :
         /\ Turns(n, p, w[n].cmd, FALSE, w[n].meta, w[n].pending, w[n].next)
         /\ \/ p = "open" /\ UNCHANGED <<client, acked>>
            \/ p = "recv" /\ Reply(n, w[n].cmd, FALSE)
  BY BasicTypes, FailedEffect
<1>2. PICK o \in BOOLEAN : o = FALSE
  OBVIOUS
<1>3. Turns(n, p, w[n].cmd, o, w[n].meta, w[n].pending, w[n].next)
  BY <1>1, <1>2
<1>4. (ended' = TRUE) \/ (ended' = ended /\ (o => w[n].open)) \/ (Alone(mode) /\ ~o)
  BY <1>2
<1>5. CASE p = "open" /\ UNCHANGED <<client, acked>>
  <2>1. p \in {"open", "meta", "items"} /\ (p \in {"meta", "items"} => o)
    BY <1>5
  <2>2. UNCHANGED <<chan, recorder, updater, client, accepted>>
    BY <1>5
  <2> QED  BY <1>3, <1>4, <2>1, <2>2, GoesOn
<1>6. CASE p = "recv" /\ Reply(n, w[n].cmd, FALSE)
  <2>1. PICK ok \in BOOLEAN : ok = FALSE
    OBVIOUS
  <2>2. Reply(n, w[n].cmd, ok) /\ p \in {"recv", "stopped"} /\ ~Gone(n) /\ w[n].cmd \in Commands
    BY <1>6, <2>1, BasicTypes, FieldTypes DEF Busy, Gone
  <2>3. /\ \A k \in DOMAIN chan'[n] : ~chan'[n][k].ack \/
               \E l \in DOMAIN chan[n] : /\ chan'[n][k] = chan[n][l]
                                         /\ l = Len(chan[n]) => k = Len(chan'[n])
        /\ \A k \in Writers : k # n => chan'[k] = chan[k]
        /\ \A k \in DOMAIN chan'[n] : Adds(chan'[n][k]) => ~chan'[n][k].ack
    BY DEF Control, Shapes
  <2>4. w[n].cmd.ack => /\ client.pc = "wait" /\ client.op = w[n].cmd.op /\ recorder = n
                        /\ chan'[n] = <<>>
    BY DEF Control, Waits
  <2>5. w[n].cmd.op = "Shutdown" /\ ok => p = "stopped"
    BY <2>1
  <2>6. UNCHANGED <<recorder, updater, accepted>>
    OBVIOUS
  <2>7. Basics /\ Control /\ mode' = mode /\ n \in Writers
    OBVIOUS
  <2>8. Answering(n, p, w[n].cmd, o, w[n].meta, w[n].pending, w[n].next, ok)
    BY ONLY <1>3, <1>4, <2>2, <2>3, <2>4, <2>5, <2>6 DEF Answering
  <2> QED  BY ONLY <1>2, <2>1, <2>2, <2>7, <2>8, Answers
<1> QED  BY <1>1, <1>5, <1>6

\* Everything pending is written.
LEMMA WrittenControl ==
    ASSUME Basics, Control, mode' = mode, NEW n \in Writers, Written(n)
    PROVE  Control'
<1>1. UNCHANGED <<file, ended, chan, recorder, updater, accepted>> /\ ~Gone(n) /\ Busy(n)
  BY DEF Written, Busy, Gone
<1>2. PICK c \in Commands : c = w[n].cmd
  BY BasicTypes, FieldTypes
<1>3. PICK p \in {"recv", "stopped"} : p = AfterReply(w[n].cmd, TRUE)
  BY DEF AfterReply
<1>4. p \in WriterPCs /\ w' = [w EXCEPT ![n].pc = p]
  BY <1>3 DEF WriterPCs, Written
<1>5. Turns(n, p, c, w[n].open, w[n].meta, w[n].pending, w[n].next)
  BY <1>2, <1>4, BasicTypes, PcTurns
<1>6. PICK ok \in BOOLEAN : ok = TRUE
  OBVIOUS
<1>7. Reply(n, c, ok) /\ (c.op = "Shutdown" /\ ok => p = "stopped")
  BY <1>2, <1>3, <1>6 DEF Written, AfterReply
<1>8. /\ \A k \in DOMAIN chan'[n] : ~chan'[n][k].ack \/
             \E l \in DOMAIN chan[n] : /\ chan'[n][k] = chan[n][l]
                                       /\ l = Len(chan[n]) => k = Len(chan'[n])
      /\ \A k \in Writers : k # n => chan'[k] = chan[k]
      /\ \A k \in DOMAIN chan'[n] : Adds(chan'[n][k]) => ~chan'[n][k].ack
  BY <1>1 DEF Control, Shapes
<1>9. c.ack => /\ client.pc = "wait" /\ client.op = c.op /\ recorder = n
               /\ chan'[n] = <<>>
  BY <1>1, <1>2 DEF Control, Waits
<1>10. w[n].open \in BOOLEAN /\ ended' = ended
  BY <1>1, BasicTypes, FieldTypes
<1>11. UNCHANGED <<recorder, updater, accepted>>
  BY <1>1
<1>12. ~Gone(n)
  BY <1>1
<1>13. PICK o, m, q, x : o \in BOOLEAN /\ Turns(n, p, c, o, m, q, x) /\ o = w[n].open
  BY <1>5, <1>10
<1>14. (ended' = TRUE) \/ (ended' = ended /\ (o => w[n].open)) \/ (Alone(mode) /\ ~o)
  BY <1>10, <1>13
<1>15. Answering(n, p, c, o, m, q, x, ok)
  BY ONLY <1>7, <1>8, <1>9, <1>11, <1>13, <1>14 DEF Answering
<1> QED  BY <1>12, <1>13, <1>15, Answers

\* A command is received.
LEMMA ReceiveControl ==
    ASSUME Basics, Control, mode' = mode, NEW n \in Writers, Receive(n)
    PROVE  Control'
<1>1. UNCHANGED <<file, ended, recorder, updater, accepted>>
  BY DEF Receive
<1>2. PICK c \in Commands, p \in WriterPCs, q \in Seq(Items) :
              /\ w[n].pc = "recv" /\ chan[n] # <<>> /\ c = Head(chan[n])
              /\ chan' = [chan EXCEPT ![n] = Tail(chan[n])]
              /\ Turns(n, p, c, w[n].open, w[n].meta, q, w[n].next)
              /\ \/ p = "open" /\ UNCHANGED <<client, acked>>
                 \/ /\ p = IF c.op = "Shutdown" THEN "stopped" ELSE "recv"
                    /\ Reply(n, c, TRUE)
  BY ReceiveEffect
<1>3. chan \in [Writers -> Seq(Commands)] /\ chan[n] \in Seq(Commands)
  BY DEF Basics, ChannelsOK
<1>4. PICK s, t : s = chan[n] /\ t = Tail(s)
  OBVIOUS
<1>5. /\ s \in Seq(Commands) /\ s # <<>> /\ t \in Seq(Commands) /\ 1 \in DOMAIN s /\ c = s[1]
      /\ Len(s) \in Nat /\ Len(t) = Len(s) - 1 /\ DOMAIN t = 1..(Len(s) - 1) /\ DOMAIN s = 1..Len(s)
      /\ (Len(s) = 1 => t = <<>>)
  BY <1>2, <1>3, <1>4
<1>6. \A k \in DOMAIN t : k \in Nat /\ k + 1 \in DOMAIN s /\ t[k] = s[k + 1] /\ (k + 1 = Len(s) => k = Len(t))
  BY <1>5, <1>4
<1>7. chan'[n] = t /\ \A k \in Writers : k # n => chan'[k] = chan[k]
  BY <1>2, <1>3, <1>4, <1>5
<1>8. /\ \A k \in DOMAIN chan'[n] : ~chan'[n][k].ack \/
             \E l \in DOMAIN chan[n] : /\ chan'[n][k] = chan[n][l]
                                       /\ l = Len(chan[n]) => k = Len(chan'[n])
      /\ \A k \in DOMAIN chan'[n] : Adds(chan'[n][k]) => ~chan'[n][k].ack
  BY <1>4, <1>6, <1>7 DEF Control, Shapes
<1>9. c.ack => client.pc = "wait" /\ client.op = c.op /\ recorder = n /\ chan'[n] = <<>>
  <2> SUFFICES ASSUME c.ack
               PROVE  client.pc = "wait" /\ client.op = c.op /\ recorder = n /\ chan'[n] = <<>>
    OBVIOUS
  <2>1. client.pc = "wait" /\ client.op = c.op /\ recorder = n /\ 1 = Len(s)
    BY <1>4, <1>5 DEF Control, Waits
  <2> QED  BY <1>5, <1>7, <2>1
<1>10. ~Gone(n) /\ w[n].open \in BOOLEAN
  BY <1>2, BasicTypes, FieldTypes DEF Gone
<1>11. CASE /\ p = IF c.op = "Shutdown" THEN "stopped" ELSE "recv"
            /\ Reply(n, c, TRUE)
  <2>1. PICK ok \in BOOLEAN : ok = TRUE
    OBVIOUS
  <2>2. Reply(n, c, ok) /\ (c.op = "Shutdown" /\ ok => p = "stopped") /\ p \in {"recv", "stopped"}
    BY <1>11, <2>1
  <2>3. UNCHANGED <<recorder, updater, accepted>> /\ ended' = ended
    BY <1>1
  <2>4. PICK o, m, x : o \in BOOLEAN /\ Turns(n, p, c, o, m, q, x) /\ o = w[n].open
    BY <1>2, <1>10
  <2>5. (ended' = TRUE) \/ (ended' = ended /\ (o => w[n].open)) \/ (Alone(mode) /\ ~o)
    BY <2>3, <2>4
  <2>6. Answering(n, p, c, o, m, q, x, ok)
    BY ONLY <1>7, <1>8, <1>9, <2>2, <2>3, <2>4, <2>5 DEF Answering
  <2> QED  BY <1>10, <2>2, <2>4, <2>6, Answers
<1>12. CASE p = "open" /\ UNCHANGED <<client, acked>>
  <2>1. /\ w'[n].pc = "open" /\ w'[n].cmd = c /\ w'[n].open = w[n].open
        /\ \A k \in Writers : k # n => w'[k] = w[k]
    BY <1>2, <1>12 DEF Turns
  <2>2. /\ \A k \in Writers : k # n => (Gone(k)' <=> Gone(k)) /\ (Busy(k)' <=> Busy(k))
        /\ ~Gone(n)' /\ Busy(n)'
    BY <2>1 DEF Gone, Busy
  <2>3. Clean'
    BY <1>1, <1>10, <2>1, <2>2 DEF Control, Clean
  <2>4. Solo'
    <3>1. Alone(mode') => updater' = "idle" /\ \A k \in Writers : k # recorder' => Gone(k)'
      BY <1>1, <1>10, <2>2 DEF Control, Solo
    <3>2. ASSUME client'.pc = "project", client'.op = "Shutdown", recorder' # 0
          PROVE  w'[recorder'].pc = "stopped"
      <4>1. w[recorder].pc = "stopped" /\ recorder # n /\ recorder \in Writers
        BY <1>1, <1>2, <1>12, <3>2, Constants DEF Control, Solo, Basics, StoreOK
      <4> QED  BY <1>1, <2>1, <4>1
    <3> QED  BY <3>1, <3>2 DEF Solo
  <2>5. Waits'
    <3>1. \A k \in Writers : Busy(k)' /\ w'[k].cmd.ack =>
              client.pc = "wait" /\ client.op = w'[k].cmd.op /\ recorder = k /\ chan'[k] = <<>>
      BY <1>7, <1>9, <2>1, <2>2 DEF Control, Waits
    <3>2. ASSUME NEW k \in Writers, NEW l \in DOMAIN chan'[k], chan'[k][l].ack
          PROVE  client.pc = "wait" /\ client.op = chan'[k][l].op /\ recorder = k /\ l = Len(chan'[k])
      BY <1>7, <1>8, <3>2 DEF Control, Waits
    <3> QED  BY <1>1, <1>12, <3>1, <3>2 DEF Waits
  <2>6. Shapes'
    BY <1>1, <1>7, <1>8, <2>1 DEF Control, Shapes
  <2> QED  BY <2>3, <2>4, <2>5, <2>6 DEF Control
<1> QED  BY <1>2, <1>11, <1>12

\* The file is opened, or opening fails.
LEMMA OpenControl ==
    ASSUME Isolated, Basics, Control, mode' = mode, NEW n \in Writers, OpenLog(n)
    PROVE  Control'
<1>1. /\ UNCHANGED <<chan, recorder, updater, accepted>> /\ Busy(n)
      /\ w[n].cmd \in Commands /\ w[n].open \in BOOLEAN /\ w[n].deferred \in BOOLEAN
  BY BasicTypes, FieldTypes DEF OpenLog, Busy
<1>2. CASE Fault /\ Failed(n) /\ ended' \in {ended, TRUE}
  BY <1>1, <1>2, FailedControl
<1>3. CASE /\ w' = [w EXCEPT ![n].pc = "meta", ![n].open = TRUE,
                             ![n].deferred = IF w[n].open THEN @ ELSE FALSE]
           /\ ended' = IF w[n].open THEN ended ELSE TRUE
           /\ UNCHANGED <<client, acked, count>>
  <2>1. PICK d \in BOOLEAN : d = IF w[n].open THEN w[n].deferred ELSE FALSE
    BY <1>1
  <2>2. w' = [w EXCEPT ![n].pc = "meta", ![n].open = TRUE, ![n].deferred = d]
    BY <1>3, <2>1
  <2>3. PICK o \in BOOLEAN : o = TRUE
    OBVIOUS
  <2>4. PICK p \in {"open", "meta", "items"} : p = "meta"
    OBVIOUS
  <2>5. Turns(n, p, w[n].cmd, o, w[n].meta, w[n].pending, w[n].next)
    BY <2>2, <2>3, <2>4, BasicTypes, OpenTurns
  <2>6. (ended' = TRUE) \/ (ended' = ended /\ (o => w[n].open)) \/ (Alone(mode) /\ ~o)
    BY <1>3
  <2>7. UNCHANGED <<chan, recorder, updater, client, accepted>> /\ (p \in {"meta", "items"} => o)
    BY <1>1, <1>3, <2>3
  <2> QED  BY <1>1, <2>5, <2>6, <2>7, GoesOn
<1> QED  BY <1>2, <1>3 DEF OpenLog

\* The SessionMeta record is written, or need not be, or the write fails.
LEMMA MetaControl ==
    ASSUME Isolated, Basics, Control, mode' = mode, NEW n \in Writers, WriteMeta(n)
    PROVE  Control'
<1>1. UNCHANGED <<chan, recorder, updater, accepted>> /\ Busy(n) /\ w[n].open
  BY DEF WriteMeta, Busy, Control, Clean
<1>2. PICK p \in {"open", "meta", "items"} : p = "items" /\ p \in WriterPCs
  BY DEF WriterPCs
<1>3. w[n].open \in BOOLEAN /\ (p \in {"meta", "items"} => w[n].open)
  BY <1>1, BasicTypes, FieldTypes
<1>4. CASE /\ w' = [w EXCEPT ![n].pc = "items"]
           /\ UNCHANGED <<file, ended, client, acked, count>>
  <2>1. Turns(n, p, w[n].cmd, w[n].open, w[n].meta, w[n].pending, w[n].next)
    BY <1>2, <1>4, BasicTypes, PcTurns
  <2>2. UNCHANGED <<chan, recorder, updater, client, accepted>> /\ ended' = ended
    BY <1>1, <1>4
  <2> QED  BY <1>1, <1>3, <2>1, <2>2, GoesOn
<1>5. CASE /\ w[n].meta /\ Put(Line(Meta, OrdinalOf(n), TRUE), "whole")
           /\ w' = [w EXCEPT ![n].pc = "items", ![n].meta = FALSE, ![n].next = Advance(@)]
           /\ UNCHANGED <<client, acked, count>>
  <2>1. Advance(w[n].next) \in 0..NoOrdinal
    BY <1>5, OrdinalRange
  <2>2. Turns(n, p, w[n].cmd, w[n].open, FALSE, w[n].pending, Advance(w[n].next))
    BY <1>2, <1>5, <2>1, BasicTypes, MetaTurns
  <2>3. UNCHANGED <<chan, recorder, updater, client, accepted>> /\ ended' = TRUE
    BY <1>1, <1>5 DEF Put
  <2>4. PICK m : m = FALSE
    OBVIOUS
  <2>5. Turns(n, p, w[n].cmd, w[n].open, m, w[n].pending, Advance(w[n].next))
    BY <2>2, <2>4
  <2> QED  BY <1>1, <1>3, <2>5, <2>3, GoesOn
<1>6. CASE Fault /\ Failed(n)
  BY <1>1, <1>6, FailedControl, FaultAlone
<1> QED  BY <1>4, <1>5, <1>6 DEF WriteMeta

\* A pending item is written, or its write fails.
LEMMA ItemControl ==
    ASSUME Isolated, Basics, Control, mode' = mode, NEW n \in Writers, WriteItem(n)
    PROVE  Control'
<1>1. UNCHANGED <<chan, recorder, updater, accepted>> /\ Busy(n) /\ w[n].open
  BY DEF WriteItem, Busy, Control, Clean
<1>2. PICK p \in {"open", "meta", "items"} : p = w[n].pc
  BY DEF WriteItem
<1>3. w[n].open \in BOOLEAN /\ (p \in {"meta", "items"} => w[n].open)
  BY <1>1, BasicTypes, FieldTypes
<1>4. w[n].pending \in Seq(Items) /\ w[n].pending # <<>> /\ Tail(w[n].pending) \in Seq(Items)
  BY BasicTypes, FieldTypes DEF WriteItem
<1>5. CASE /\ ~Exhausted(n) /\ Put(Line(Head(w[n].pending), OrdinalOf(n), TRUE), "whole")
           /\ w' = [w EXCEPT ![n].pending = Tail(@), ![n].next = Advance(@)]
           /\ UNCHANGED <<client, acked, count>>
  <2>1. Advance(w[n].next) \in 0..NoOrdinal
    BY <1>5, OrdinalRange
  <2>2. Turns(n, p, w[n].cmd, w[n].open, w[n].meta, Tail(w[n].pending), Advance(w[n].next))
    BY <1>2, <1>4, <1>5, <2>1, BasicTypes, ItemTurns
  <2>3. UNCHANGED <<chan, recorder, updater, client, accepted>> /\ ended' = TRUE
    BY <1>1, <1>5 DEF Put
  <2> QED  BY <1>1, <1>3, <2>2, <2>3, GoesOn
<1>6. CASE Fault /\ Failed(n)
  BY <1>1, <1>6, FailedControl, FaultAlone
<1>7. CASE Failed(n) /\ UNCHANGED <<file, ended, count>>
  BY <1>1, <1>7, FailedControl
<1> QED  BY <1>5, <1>6, <1>7 DEF WriteItem

\* A channel is closed.
LEMMA CloseControl ==
    ASSUME Basics, Control, mode' = mode, NEW n \in Writers, CloseWriter(n)
    PROVE  Control'
<1>1. UNCHANGED <<ended, chan, recorder, client, updater, accepted>>
  BY DEF CloseWriter
<1>2. "stopped" \in WriterPCs /\ w' = [w EXCEPT ![n].pc = "stopped"] /\ w[n].pc = "recv" /\ recorder # n
  BY DEF CloseWriter, WriterPCs
<1>3. Turns(n, "stopped", w[n].cmd, w[n].open, w[n].meta, w[n].pending, w[n].next)
  BY <1>2, BasicTypes, PcTurns
<1>4. w'[n].pc = "stopped" /\ \A k \in Writers : k # n => w'[k] = w[k]
  BY <1>3 DEF Turns
<1>5. /\ \A k \in Writers : k # n => (Gone(k)' <=> Gone(k)) /\ (Busy(k)' <=> Busy(k))
      /\ Gone(n)' /\ ~Busy(n)'
  BY <1>4 DEF Gone, Busy
<1>6. Clean' /\ Waits' /\ Shapes'
  BY <1>1, <1>4, <1>5 DEF Control, Clean, Waits, Shapes
<1>7. recorder # 0 => recorder \in Writers
  BY Constants DEF Basics, StoreOK
<1>8. Solo'
  BY <1>1, <1>2, <1>4, <1>5, <1>7 DEF Control, Solo
<1> QED  BY <1>6, <1>8 DEF Control

\* The tasks are left alone while the store does something.
LEMMA TasksStay ==
    ASSUME w' = w, NEW n \in Writers
    PROVE  (Gone(n)' <=> Gone(n)) /\ (Busy(n)' <=> Busy(n))
BY DEF Gone, Busy

\* A command is sent: nobody was waiting.
LEMMA SendControl ==
    ASSUME Basics, Control, mode' = mode,
           \/ \E i \in Items : AppendItems(i)
           \/ \E op \in CmdOps \ {"Add"} : Barrier(op)
    PROVE  Control'
<1>1. /\ UNCHANGED <<ended, w, recorder, updater>> /\ client.pc \in {"idle", "add"}
      /\ client'.pc \in {"add", "wait"}
  <2>1. CASE \E i \in Items : AppendItems(i)
    BY <2>1 DEF AppendItems
  <2>2. CASE \E op \in CmdOps \ {"Add"} : Barrier(op)
    BY <2>2 DEF Barrier
  <2> QED  BY <2>1, <2>2
<1>2. PICK c \in Commands : /\ Send(c) /\ (Adds(c) => ~c.ack)
                            /\ c.ack => client'.pc = "wait" /\ client'.op = c.op
  <2>1. CASE \E i \in Items : AppendItems(i)
    <3>1. PICK i \in Items : AppendItems(i)
      BY <2>1
    <3>2. PICK c : c = [op |-> "Add", item |-> i, ack |-> FALSE]
      OBVIOUS
    <3>3. c \in Commands /\ ~c.ack
      BY <3>2, Constants DEF Commands, CmdOps
    <3> QED  BY <3>1, <3>2, <3>3 DEF AppendItems
  <2>2. CASE \E op \in CmdOps \ {"Add"} : Barrier(op)
    <3>1. PICK op \in CmdOps \ {"Add"} : Barrier(op)
      BY <2>2
    <3>2. PICK c : c = [op |-> op, item |-> Meta, ack |-> TRUE]
      OBVIOUS
    <3>3. c \in Commands /\ ~Adds(c) /\ c.op = op
      BY <3>2, Constants DEF Commands, CmdOps, Adds
    <3>4. client'.pc = "wait" /\ client'.op = op /\ Send(c)
      BY <3>1, <3>2 DEF Barrier
    <3> QED  BY <3>3, <3>4
  <2> QED  BY <2>1, <2>2
<1>3. /\ recorder \in Writers /\ w[recorder].pc # "stopped"
      /\ \A k \in DOMAIN chan'[recorder] :
            \/ k = Len(chan'[recorder]) /\ chan'[recorder][k] = c
            \/ k \in DOMAIN chan[recorder] /\ chan'[recorder][k] = chan[recorder][k]
      /\ \A n \in Writers : n # recorder => chan'[n] = chan[n]
  BY <1>2, SendEffect
<1>4. \A n \in Writers : (Busy(n) => ~w[n].cmd.ack) /\ \A k \in DOMAIN chan[n] : ~chan[n][k].ack
  BY <1>1, NobodyWaits DEF Control
<1>5. \A n \in Writers : (Gone(n)' <=> Gone(n)) /\ (Busy(n)' <=> Busy(n))
  BY <1>1, TasksStay
<1>6. Clean' /\ Solo'
  BY <1>1, <1>5 DEF Control, Clean, Solo
<1>7. Waits'
  BY <1>1, <1>2, <1>3, <1>4, <1>5 DEF Waits
<1>8. \A n \in Writers : w[n].pc = "unused" => n # recorder /\ accepted'[n] = <<>>
  <2>1. \A n \in Writers : w[n].pc = "unused" => n # recorder /\ accepted[n] = <<>>
    BY DEF Control, Shapes
  <2>2. \A n \in Writers : n # recorder => accepted'[n] = accepted[n]
    BY <1>3 DEF AppendItems, Barrier, Basics, RecordsOK
  <2> QED  BY <2>1, <2>2
<1>9. Shapes'
  <2>1. ASSUME NEW n \in Writers, NEW k \in DOMAIN chan'[n], Adds(chan'[n][k])
        PROVE  ~chan'[n][k].ack
    <3>1. CASE n = recorder
      BY <1>2, <1>3, <1>4, <2>1, <3>1
    <3>2. CASE n # recorder
      BY <1>3, <1>4, <2>1, <3>2
    <3> QED  BY <3>1, <3>2
  <2> QED  BY <1>1, <1>8, <2>1 DEF Shapes
<1> QED  BY <1>6, <1>7, <1>9 DEF Control

\* An operation ends; after a shutdown the task has stopped.
LEMMA ProjectControl ==
    ASSUME Basics, Control, mode' = mode, Project
    PROVE  Control'
<1>1. /\ UNCHANGED <<ended, w, chan, updater, accepted>> /\ client.pc = "project"
      /\ client'.pc = "idle"
      /\ recorder' = IF client.op = "Shutdown" THEN 0 ELSE recorder
  BY DEF Project, Basics, StoreOK
<1>2. \A n \in Writers : (Busy(n) => ~w[n].cmd.ack) /\ \A k \in DOMAIN chan[n] : ~chan[n][k].ack
  BY <1>1, NobodyWaits DEF Control
<1>3. \A n \in Writers : (Gone(n)' <=> Gone(n)) /\ (Busy(n)' <=> Busy(n))
  BY <1>1, TasksStay
<1>4. Clean' /\ Waits'
  BY <1>1, <1>2, <1>3 DEF Control, Clean, Waits
<1>5. Solo'
  <2>1. client.op = "Shutdown" /\ recorder # 0 => w[recorder].pc = "stopped"
    BY <1>1 DEF Control, Solo
  <2>2. client.op = "Shutdown" => \A n \in Writers : n = recorder => Gone(n)
    BY <2>1, Constants DEF Gone
  <2> QED  BY <1>1, <1>3, <2>2 DEF Control, Solo
<1>6. Shapes'
  BY <1>1, Constants DEF Control, Shapes
<1> QED  BY <1>4, <1>5, <1>6 DEF Control

\* A recorder is dropped: the thread is one whose writes do not fail.
LEMMA DiscardControl ==
    ASSUME Basics, Control, mode' = mode, Discard
    PROVE  Control'
<1>1. UNCHANGED <<ended, w, chan, client, updater, accepted>> /\ client.pc = "idle" /\ recorder' = 0
  BY DEF Discard
<1>2. ~Alone(mode)
  BY DEF Discard, Alone, Bound
<1>3. \A n \in Writers : (Gone(n)' <=> Gone(n)) /\ (Busy(n)' <=> Busy(n))
  BY <1>1, TasksStay
<1>4. \A n \in Writers : (Busy(n) => ~w[n].cmd.ack) /\ \A k \in DOMAIN chan[n] : ~chan[n][k].ack
  BY <1>1, NobodyWaits DEF Control
<1>5. Clean' /\ Waits' /\ Solo'
  BY <1>1, <1>2, <1>3, <1>4 DEF Control, Clean, Waits, Solo
<1>6. Shapes'
  BY <1>1, Constants DEF Control, Shapes
<1> QED  BY <1>5, <1>6 DEF Control

\* A recorder is opened: the file ends with a newline.
LEMMA ResumeControl ==
    ASSUME Basics, Control, mode' = mode, NEW n \in Writers, Resume(n)
    PROVE  Control'
<1>1. /\ UNCHANGED <<chan, client, updater, accepted>> /\ client.pc = "idle" /\ recorder' = n
      /\ ended' = TRUE /\ recorder = 0
  BY DEF Resume
<1>2. w'[n].pc = "recv" /\ \A k \in Writers : k # n => w'[k] = w[k]
  BY ResumeEffect DEF Turns
<1>3. /\ \A k \in Writers : k # n => (Gone(k)' <=> Gone(k)) /\ (Busy(k)' <=> Busy(k))
      /\ ~Busy(n)'
  BY <1>2 DEF Gone, Busy
<1>4. \A k \in Writers : (Busy(k) => ~w[k].cmd.ack) /\ \A l \in DOMAIN chan[k] : ~chan[k][l].ack
  BY <1>1, NobodyWaits DEF Control
<1>5. \A k \in Writers : w'[k].pc \in {"meta", "items"} => w'[k].open
  BY <1>2 DEF Control, Clean
<1>6. Clean'
  BY <1>1, <1>5 DEF Clean
<1>7. Waits'
  BY <1>1, <1>2, <1>3, <1>4 DEF Waits
<1>8. Solo'
  BY <1>1, <1>3, Constants DEF Control, Solo
<1>9. Shapes'
  BY <1>1, <1>2, Constants DEF Control, Shapes
<1> QED  BY <1>6, <1>7, <1>8, <1>9 DEF Control

\* The caller gives up: nobody waits.
LEMMA CancelControl ==
    ASSUME Basics, Control, mode' = mode, Cancel
    PROVE  Control'
<1>1. UNCHANGED <<ended, recorder, updater, accepted>> /\ client'.pc = "idle"
  BY CancelEffect DEF Cancel
<1>2. \A n \in Writers :
         /\ DOMAIN chan'[n] = DOMAIN chan[n]
         /\ \A k \in DOMAIN chan[n] : ~chan'[n][k].ack
         /\ w'[n].pc = w[n].pc /\ w'[n].open = w[n].open
         /\ ~w'[n].cmd.ack
  BY CancelEffect
<1>3. \A n \in Writers : (Gone(n)' <=> Gone(n)) /\ (Busy(n)' <=> Busy(n))
  BY <1>2 DEF Gone, Busy
<1>4. Clean'
  BY <1>1, <1>2, <1>3 DEF Control, Clean
<1>5. Solo'
  BY <1>1, <1>3 DEF Control, Solo
<1>6. Waits'
  BY <1>2 DEF Waits
<1>7. Shapes'
  BY <1>1, <1>2 DEF Control, Shapes
<1> QED  BY <1>4, <1>5, <1>6, <1>7 DEF Control

\* The operation finds its writer task gone, and its command with it.
LEMMA GoneControl ==
    ASSUME Basics, Control, mode' = mode, WriterGone
    PROVE  Control'
<1>1. /\ UNCHANGED <<ended, w, recorder, updater, accepted>> /\ client'.pc = "idle"
      /\ recorder \in Writers /\ w[recorder].pc = "stopped"
      /\ chan' = [chan EXCEPT ![recorder] = <<>>] /\ chan \in [Writers -> Seq(Commands)]
  BY Constants DEF WriterGone, Basics, StoreOK, ChannelsOK, Writers
<1>2. \A n \in Writers : (Gone(n)' <=> Gone(n)) /\ (Busy(n)' <=> Busy(n))
  BY <1>1, TasksStay
<1>3. chan'[recorder] = <<>> /\ \A n \in Writers : n # recorder => chan'[n] = chan[n]
  BY <1>1
<1>4. ~Busy(recorder)
  BY <1>1 DEF Busy
<1>5. Clean' /\ Solo'
  BY <1>1, <1>2 DEF Control, Clean, Solo
<1>6. Waits'
  BY <1>1, <1>2, <1>3, <1>4 DEF Control, Waits
<1>7. Shapes'
  BY <1>1, <1>3 DEF Control, Shapes
<1> QED  BY <1>5, <1>6, <1>7 DEF Control

\* A metadata update is opened and written: no write fails.
LEMMA UpdateControl ==
    ASSUME Isolated, Basics, Control, mode' = mode, OpenForUpdate \/ WriteUpdate
    PROVE  Control'
<1>1. UNCHANGED <<w, chan, recorder, client, accepted>>
  BY DEF OpenForUpdate, WriteUpdate
<1>2. ~Alone(mode)
  <2>1. CASE OpenForUpdate
    <3>1. mode = "Legacy" /\ Bound.updates \in Nat /\ count.updates \in 0..Bound.updates
      BY <2>1, RolloutAssumption DEF OpenForUpdate, Paginated, Basics, CountOK, Bound
    <3>2. Bound.updates # 0
      BY <2>1, <3>1 DEF OpenForUpdate
    <3> QED  BY <3>1, <3>2 DEF Alone, Bound
  <2>2. CASE WriteUpdate
    BY <2>2 DEF WriteUpdate, Control, Solo
  <2> QED  BY <2>1, <2>2
<1>3. ended' = TRUE
  <2>1. ~Fault
    BY <1>2, FaultAlone
  <2> QED  BY <2>1 DEF OpenForUpdate, WriteUpdate, Put
<1>4. \A n \in Writers : (Gone(n)' <=> Gone(n)) /\ (Busy(n)' <=> Busy(n))
  BY <1>1, TasksStay
<1>5. Clean' /\ Waits' /\ Shapes'
  BY <1>1, <1>3, <1>4 DEF Control, Clean, Waits, Shapes
<1>6. Solo'
  BY <1>1, <1>2 DEF Control, Solo
<1> QED  BY <1>5, <1>6 DEF Control

\* The process crashes.
LEMMA CrashControl ==
    ASSUME Basics, Control, mode' = mode, Crash
    PROVE  Control'
<1>1. UNCHANGED accepted /\ recorder' = 0 /\ updater' = "idle" /\ client'.pc = "idle"
  BY DEF Crash, Basics, StoreOK
<1>2. \A n \in Writers : chan'[n] = <<>>
  BY DEF Crash
<1>3. \A n \in Writers : /\ w'[n].pc \in {"unused", "stopped"}
                         /\ w'[n].pc = "unused" => w[n].pc = "unused"
  BY CrashWriters
<1>4. \A n \in Writers : Gone(n)' /\ ~Busy(n)'
  BY <1>3 DEF Gone, Busy
<1>5. Clean' /\ Waits' /\ Solo'
  BY <1>1, <1>2, <1>3, <1>4 DEF Clean, Waits, Solo
<1>6. Shapes'
  BY <1>1, <1>2, <1>3, Constants DEF Control, Shapes
<1> QED  BY <1>5, <1>6 DEF Control

\* The initial state.
LEMMA InitControl ==
    ASSUME Init
    PROVE  Control
<1>1. /\ ended /\ updater = "idle" /\ recorder = 1 /\ client.pc = "idle"
      /\ \A n \in Writers : chan[n] = <<>> /\ accepted[n] = <<>>
  BY DEF Init
<1>2. w[1].pc = "recv" /\ \A n \in Writers : n # 1 => w[n].pc = "unused"
  BY InitWriters
<1>3. \A n \in Writers : ~Busy(n) /\ (n # 1 => Gone(n))
  BY <1>2 DEF Busy, Gone
<1>4. Clean
  BY <1>1, <1>2 DEF Clean
<1>5. Solo /\ Waits /\ Shapes
  BY <1>1, <1>2, <1>3 DEF Solo, Waits, Shapes
<1> QED  BY <1>4, <1>5 DEF Control

\* Every step preserves it.
LEMMA StepControl ==
    ASSUME Isolated, Basics, Control, [Next]_vars
    PROVE  Control'
<1>1. CASE UNCHANGED vars
  <2>1. UNCHANGED <<mode, ended, w, chan, recorder, client, updater, accepted>>
    BY <1>1 DEF vars
  <2>2. \A n \in Writers : (Gone(n)' <=> Gone(n)) /\ (Busy(n)' <=> Busy(n))
    BY <2>1, TasksStay
  <2> QED  BY <2>1, <2>2 DEF Control, Clean, Solo, Waits, Shapes
<1>2. CASE \E n \in Writers : WriterStep(n)
  <2>1. PICK n \in Writers : WriterStep(n)
    BY <1>2
  <2> QED  BY <2>1, ReceiveControl, OpenControl, MetaControl, ItemControl, WrittenControl, CloseControl
           DEF WriterStep
<1>3. CASE OperationStep
  <2>1. "Flush" \in CmdOps \ {"Add"}
    BY DEF CmdOps
  <2> QED  BY <1>3, <2>1, SendControl, GoneControl, ProjectControl DEF OperationStep
<1>4. CASE mode' = mode /\ StoreOp
  BY <1>4, SendControl, DiscardControl, ResumeControl DEF StoreOp
<1>5. CASE mode' = mode /\ (Cancel \/ OpenForUpdate \/ WriteUpdate \/ Crash)
  BY <1>5, CancelControl, UpdateControl, CrashControl
<1> QED  BY <1>1, <1>2, <1>3, <1>4, <1>5 DEF Next

(***************************************************************************)
(* Where an accepted item is.                                              *)
(***************************************************************************)

\* x is in n's channel, or among its pending items; x is there before y.
Queued(n, x) == \E k \in DOMAIN chan[n] : Adds(chan[n][k]) /\ chan[n][k].item = x
Held(n, x)   == \E p \in DOMAIN w[n].pending : w[n].pending[p] = x
QueuedBefore(n, x, y) ==
    \E k, l \in DOMAIN chan[n] : /\ k < l /\ Adds(chan[n][k]) /\ Adds(chan[n][l])
                                 /\ chan[n][k].item = x /\ chan[n][l].item = y
HeldBefore(n, x, y) ==
    \E p, q \in DOMAIN w[n].pending : p < q /\ w[n].pending[p] = x /\ w[n].pending[q] = y

\* x is what n writes next: every other pending item comes later.
Heads(n, x) == Held(n, x) /\ \A y \in Items : Held(n, y) => y = x \/ HeldBefore(n, x, y)

\* Items come from one acceptance.
Origins ==
    /\ \A n \in Writers : \A x \in Items : Held(n, x) \/ Queued(n, x) => x \in Elems(accepted[n])
    /\ \A x \in Items : x \in Parsed => \E n \in Writers : x \in Elems(accepted[n])
    /\ \A n, m \in Writers : \A i \in DOMAIN accepted[n], j \in DOMAIN accepted[m] :
          accepted[n][i] = accepted[m][j] => n = m /\ i = j

\* An item that was accepted is in the file, pending or queued, until its
\* writer task is gone.
Safe ==
    \A n \in Writers : w[n].pc # "stopped" =>
        \A x \in Elems(accepted[n]) : x \in Parsed \/ Held(n, x) \/ Queued(n, x)

\* The items of a recorder are in the order of acceptance: file, pending
\* items (a line whose write failed may be there), channel.
Ordered ==
    \A n \in Writers : \A i, j \in DOMAIN accepted[n] :
        /\ HeldBefore(n, accepted[n][i], accepted[n][j]) => i < j
        /\ QueuedBefore(n, accepted[n][i], accepted[n][j]) => i < j
        /\ Held(n, accepted[n][i]) /\ Queued(n, accepted[n][j]) => i < j
        /\ accepted[n][i] \in Parsed /\ Queued(n, accepted[n][j]) => i < j
        /\ accepted[n][i] \in Parsed /\ Held(n, accepted[n][j]) => i <= j

Placed == Origins /\ Safe /\ Ordered

\* What a recorder has accepted.
LEMMA AcceptedItems ==
    ASSUME Basics, NEW n \in Writers
    PROVE  /\ accepted[n] \in Seq(Items) /\ Elems(accepted[n]) \subseteq Items
           /\ \A i \in DOMAIN accepted[n] : /\ accepted[n][i] \in Items /\ i \in Nat
                                            /\ accepted[n][i] \in Elems(accepted[n])
           /\ \A x \in Elems(accepted[n]) : \E i \in DOMAIN accepted[n] : x = accepted[n][i]
<1>1. accepted[n] \in Seq(Items)
  BY DEF Basics, RecordsOK
<1> QED  BY <1>1 DEF Elems

\* Items move out of channels and pending queues, one of them perhaps to the
\* file, where it was next.
LEMMA PlacedShrinks ==
    ASSUME Basics, Placed, accepted' = accepted, NEW b \in BOOLEAN, NEW n \in Writers, NEW x,
           b => x \in Items /\ Heads(n, x),
           \A y \in Items : y \in Parsed' <=> (y \in Parsed \/ (b /\ y = x)),
           \A m \in Writers : \A y \in Items :
              (Held(m, y)' => Held(m, y)) /\ (Queued(m, y)' => Queued(m, y)),
           \A m \in Writers : \A y, z \in Items :
              /\ HeldBefore(m, y, z)' => HeldBefore(m, y, z)
              /\ QueuedBefore(m, y, z)' => QueuedBefore(m, y, z),
           \A m \in Writers : w'[m].pc # "stopped" =>
              \/ accepted[m] = <<>>
              \/ /\ w[m].pc # "stopped"
                 /\ \A y \in Items : /\ Held(m, y) => Held(m, y)' \/ (b /\ y = x)
                                     /\ Queued(m, y) => Queued(m, y)'
    PROVE  Placed'
<1>1. \A m \in Writers : /\ Elems(accepted[m]) \subseteq Items
                         /\ \A i \in DOMAIN accepted[m] : /\ accepted[m][i] \in Items /\ i \in Nat
                                                          /\ accepted[m][i] \in Elems(accepted[m])
  BY AcceptedItems
<1>2. \A m \in Writers : Elems(accepted[m])' = Elems(accepted[m])
  BY DEF Elems
<1>3. b => x \in Elems(accepted[n]) /\ Held(n, x)
  BY DEF Heads, Placed, Origins
<1>4. Origins'
  <2>1. \A m \in Writers : \A y \in Items : Held(m, y)' \/ Queued(m, y)' => y \in Elems(accepted[m])
    BY DEF Placed, Origins
  <2>2. \A y \in Items : y \in Parsed' => \E m \in Writers : y \in Elems(accepted[m])
    BY <1>3 DEF Placed, Origins
  <2> QED  BY <1>2, <2>1, <2>2 DEF Placed, Origins
<1>5. Safe'
  <2> SUFFICES ASSUME NEW m \in Writers, w'[m].pc # "stopped", NEW y \in Elems(accepted[m])
               PROVE  y \in Parsed' \/ Held(m, y)' \/ Queued(m, y)'
    BY <1>2 DEF Safe
  <2>1. y \in Items /\ accepted[m] # <<>>
    BY <1>1 DEF Elems
  <2>2. y \in Parsed \/ Held(m, y) \/ Queued(m, y)
    BY <2>1 DEF Placed, Safe
  <2> QED  BY <2>1, <2>2
<1>6. Ordered'
  <2> SUFFICES ASSUME NEW m \in Writers, NEW i \in DOMAIN accepted[m], NEW j \in DOMAIN accepted[m]
               PROVE  /\ HeldBefore(m, accepted[m][i], accepted[m][j])' => i < j
                      /\ QueuedBefore(m, accepted[m][i], accepted[m][j])' => i < j
                      /\ Held(m, accepted[m][i])' /\ Queued(m, accepted[m][j])' => i < j
                      /\ accepted[m][i] \in Parsed' /\ Queued(m, accepted[m][j])' => i < j
                      /\ accepted[m][i] \in Parsed' /\ Held(m, accepted[m][j])' => i <= j
    BY DEF Ordered
  <2>1. PICK y \in Items, z \in Items : y = accepted[m][i] /\ z = accepted[m][j]
    BY <1>1
  <2>2. /\ HeldBefore(m, y, z) => i < j
        /\ QueuedBefore(m, y, z) => i < j
        /\ Held(m, y) /\ Queued(m, z) => i < j
        /\ y \in Parsed /\ Queued(m, z) => i < j
        /\ y \in Parsed /\ Held(m, z) => i <= j
    BY <2>1 DEF Placed, Ordered
  <2>3. b /\ y = x => m = n
    <3>1. ASSUME b, y = x PROVE m = n
      <4>1. PICK k \in DOMAIN accepted[n] : x = accepted[n][k]
        BY <1>3, <3>1 DEF Elems
      <4> QED  BY <2>1, <3>1, <4>1 DEF Placed, Origins
    <3> QED  BY <3>1
  <2>4. /\ HeldBefore(m, y, z)' => i < j
        /\ QueuedBefore(m, y, z)' => i < j
        /\ Held(m, y)' /\ Queued(m, z)' => i < j
    BY <2>2
  <2>5. y \in Parsed' /\ Queued(m, z)' => i < j
    BY <1>3, <2>2, <2>3
  <2>6. y \in Parsed' /\ Held(m, z)' => i <= j
    <3>1. CASE y \in Parsed
      BY <2>2, <3>1
    <3>2. CASE b /\ y = x /\ Held(m, z)'
      <4>1. z = x \/ HeldBefore(n, x, z)
        BY <2>3, <3>2 DEF Heads
      <4>2. z = y => i = j
        BY <2>1 DEF Placed, Origins
      <4>3. i \in Nat /\ j \in Nat
        BY <1>1
      <4> QED  BY <2>2, <2>3, <3>2, <4>1, <4>2, <4>3
    <3> QED  BY <3>1, <3>2
  <2> QED  BY <2>1, <2>4, <2>5, <2>6
<1> QED  BY <1>4, <1>5, <1>6 DEF Placed

\* What lies in a pending queue that is untouched, or that is lost.
LEMMA HeldStays ==
    ASSUME NEW n \in Writers, w'[n].pending = w[n].pending, NEW x, NEW y
    PROVE  (Held(n, x)' <=> Held(n, x)) /\ (HeldBefore(n, x, y)' <=> HeldBefore(n, x, y))
BY DEF Held, HeldBefore

\* Nothing is held.
LEMMA HeldNone ==
    ASSUME NEW n \in Writers, w'[n].pending = <<>>, NEW x, NEW y
    PROVE  ~Held(n, x)' /\ ~HeldBefore(n, x, y)'
BY DEF Held, HeldBefore

\* What lies in a channel that is untouched, but for its acks.
LEMMA QueuedStays ==
    ASSUME NEW n \in Writers, DOMAIN chan'[n] = DOMAIN chan[n],
           \A k \in DOMAIN chan[n] : chan'[n][k].op = chan[n][k].op /\ chan'[n][k].item = chan[n][k].item,
           NEW x, NEW y
    PROVE  (Queued(n, x)' <=> Queued(n, x)) /\ (QueuedBefore(n, x, y)' <=> QueuedBefore(n, x, y))
BY DEF Queued, QueuedBefore, Adds

\* A channel is lost.
LEMMA QueuedNone ==
    ASSUME NEW n \in Writers, chan'[n] = <<>>, NEW x, NEW y
    PROVE  ~Queued(n, x)' /\ ~QueuedBefore(n, x, y)'
BY DEF Queued, QueuedBefore

\* Writer m's items stay where they are, or are lost with it.
SameQueue(m) == /\ DOMAIN chan'[m] = DOMAIN chan[m]
                /\ \A k \in DOMAIN chan[m] : /\ chan'[m][k].op = chan[m][k].op
                                             /\ chan'[m][k].item = chan[m][k].item
Quiet(m) ==
    /\ w'[m].pc # "stopped" => w[m].pc # "stopped"
    /\ \/ w'[m].pending = w[m].pending /\ SameQueue(m)
       \/ /\ w'[m].pending \in {w[m].pending, <<>>} /\ (SameQueue(m) \/ chan'[m] = <<>>)
          /\ w'[m].pc = "stopped" \/ accepted[m] = <<>>

\* Items stay where they are, or one that is next is now also in the file.
LEMMA PlacedStays ==
    ASSUME Basics, Placed, accepted' = accepted, NEW b \in BOOLEAN, NEW n \in Writers, NEW x,
           b => x \in Items /\ Heads(n, x),
           \A y \in Items : y \in Parsed' <=> (y \in Parsed \/ (b /\ y = x)),
           \A m \in Writers : Quiet(m)
    PROVE  Placed'
<1>1. ASSUME NEW m \in Writers, NEW y \in Items, NEW z \in Items
      PROVE  /\ (Held(m, y)' => Held(m, y)) /\ (Queued(m, y)' => Queued(m, y))
             /\ HeldBefore(m, y, z)' => HeldBefore(m, y, z)
             /\ QueuedBefore(m, y, z)' => QueuedBefore(m, y, z)
  <2>0. (w'[m].pending = w[m].pending \/ w'[m].pending = <<>>) /\ (SameQueue(m) \/ chan'[m] = <<>>)
    BY DEF Quiet
  <2>1. (Held(m, y)' => Held(m, y)) /\ (HeldBefore(m, y, z)' => HeldBefore(m, y, z))
    BY <2>0, HeldStays, HeldNone
  <2>2. (Queued(m, y)' => Queued(m, y)) /\ (QueuedBefore(m, y, z)' => QueuedBefore(m, y, z))
    <3>1. CASE SameQueue(m)
      BY <3>1, QueuedStays DEF SameQueue
    <3>2. CASE chan'[m] = <<>>
      BY <3>2, QueuedNone
    <3> QED  BY <2>0, <3>1, <3>2
  <2> QED  BY <2>1, <2>2
<1>2. ASSUME NEW m \in Writers, w'[m].pc # "stopped", accepted[m] # <<>>, NEW y \in Items
      PROVE  w[m].pc # "stopped" /\ (Held(m, y) => Held(m, y)') /\ (Queued(m, y) => Queued(m, y)')
  <2>1. w'[m].pending = w[m].pending /\ SameQueue(m) /\ w[m].pc # "stopped"
    BY <1>2 DEF Quiet
  <2> QED  BY <2>1, HeldStays, QueuedStays DEF SameQueue
<1>3. \A m \in Writers : w'[m].pc # "stopped" =>
              \/ accepted[m] = <<>>
              \/ /\ w[m].pc # "stopped"
                 /\ \A y \in Items : /\ Held(m, y) => Held(m, y)' \/ (b /\ y = x)
                                     /\ Queued(m, y) => Queued(m, y)'
  BY <1>2 DEF Quiet
<1> QED  BY <1>1, <1>3, PlacedShrinks

(***************************************************************************)
(* The file only grows: what is written follows a terminated line.         *)
(***************************************************************************)

\* The file is as it was, or has one more line.
Added(x, o, b) == file' = Append(file, Line(x, o, b))
Grows(x, o, b) == \/ b = FALSE /\ file' = file /\ (ended => ended')
                  \/ Added(x, o, b)

\* A write after a terminated line appends.
LEMMA PutAppends ==
    ASSUME ended, ended \in BOOLEAN, NEW x, NEW o, NEW outcome \in Outcomes, Put(Line(x, o, TRUE), outcome)
    PROVE  \E b \in BOOLEAN : /\ Grows(x, o, b)
                              /\ outcome = "whole" => b = TRUE /\ Added(x, o, b) /\ ended' = TRUE
<1>1. CASE outcome = "none"
  BY <1>1 DEF Put, Grows
<1>2. CASE outcome # "none"
  <2>1. PICK b \in BOOLEAN : b = (outcome # "torn")
    OBVIOUS
  <2>2. Added(x, o, b) /\ ended' = (outcome = "whole")
    BY <1>2, <2>1 DEF Put, Added, Line
  <2>3. outcome = "whole" => b = TRUE /\ ended' = TRUE
    BY <2>1, <2>2
  <2> QED  BY <2>2, <2>3 DEF Grows
<1> QED  BY <1>1, <1>2

\* The lines of a file that has grown.
LEMMA AddedLines ==
    ASSUME FileOK, NEW x \in Records, NEW o \in 0..NoOrdinal, NEW b \in BOOLEAN, Added(x, o, b)
    PROVE  /\ Len(file) \in Nat /\ Len(file') = Len(file) + 1 /\ DOMAIN file = 1..Len(file)
           /\ DOMAIN file' = 1..(Len(file) + 1)
           /\ \A k \in DOMAIN file : k \in DOMAIN file' /\ file'[k] = file[k]
           /\ \A k \in OkLines : k \in OkLines' /\ file'[k] = file[k] /\ k \in Nat /\ k <= Len(file)
           /\ \A k \in OkLines' : k \in OkLines \/ (b /\ k = Len(file) + 1)
           /\ b => Len(file) + 1 \in OkLines'
           /\ file'[Len(file) + 1].item = x /\ file'[Len(file) + 1].ord = o
           /\ \A y : y \in Parsed' <=> (y \in Parsed \/ (b /\ y = x))
<1>1. PICK l, t, n : l = Line(x, o, b) /\ t = file' /\ n = Len(file)
  OBVIOUS
<1>2. l \in Lines /\ l.item = x /\ l.ord = o /\ l.ok = b
  BY <1>1 DEF Line, Lines
<1>3. file \in Seq(Lines) /\ t = Append(file, l)
  BY <1>1 DEF Added, FileOK
<1>4. /\ t \in Seq(Lines) /\ Len(t) = n + 1 /\ n \in Nat
      /\ DOMAIN file = 1..n /\ DOMAIN t = 1..(n + 1)
      /\ n + 1 \in DOMAIN t /\ t[n + 1] = l
      /\ \A k \in DOMAIN file : k \in DOMAIN t /\ t[k] = file[k]
      /\ \A k \in DOMAIN t : (k = n + 1 /\ t[k] = l) \/ (k \in DOMAIN file /\ t[k] = file[k])
  BY <1>1, <1>2, <1>3, AppendAt
<1>5. OkLines' = {k \in DOMAIN t : t[k].ok} /\ Parsed' = {t[k].item : k \in OkLines'}
  BY <1>1 DEF OkLines, Parsed
<1>6. \A k \in OkLines : k \in OkLines' /\ t[k] = file[k] /\ k \in Nat /\ k <= n
  BY <1>4, <1>5 DEF OkLines
<1>7. \A k \in OkLines' : k \in OkLines \/ (b /\ k = n + 1)
  BY <1>2, <1>4, <1>5 DEF OkLines
<1>8. b => n + 1 \in OkLines'
  BY <1>2, <1>4, <1>5
<1>9. \A y : y \in Parsed' <=> (y \in Parsed \/ (b /\ y = x))
  <2>1. ASSUME NEW y, y \in Parsed' PROVE y \in Parsed \/ (b /\ y = x)
    <3>1. PICK k \in OkLines' : y = t[k].item
      BY <1>5, <2>1
    <3> QED  BY <1>2, <1>4, <1>6, <1>7, <3>1 DEF Parsed
  <2>2. ASSUME NEW y, y \in Parsed PROVE y \in Parsed'
    <3>1. PICK k \in OkLines : y = file[k].item
      BY <2>2 DEF Parsed
    <3> QED  BY <1>5, <1>6, <3>1
  <2>3. b => x \in Parsed'
    BY <1>2, <1>4, <1>5, <1>8
  <2> QED  BY <2>1, <2>2, <2>3
<1> QED  BY <1>1, <1>2, <1>4, <1>6, <1>7, <1>8, <1>9

\* The lines of a file that grows or not.
LEMMA GrownLines ==
    ASSUME FileOK, NEW x \in Records, NEW o \in 0..NoOrdinal, NEW b \in BOOLEAN, Grows(x, o, b)
    PROVE  /\ \A k \in OkLines : k \in OkLines' /\ file'[k] = file[k] /\ k \in Nat /\ k <= Len(file)
           /\ \A k \in OkLines' : k \in OkLines \/ (b /\ k = Len(file) + 1 /\ file'[k].item = x /\ file'[k].ord = o)
           /\ b => Len(file) + 1 \in OkLines'
           /\ Len(file) \in Nat /\ (b => file'[Len(file) + 1].item = x /\ file'[Len(file) + 1].ord = o)
           /\ \A y : y \in Parsed' <=> (y \in Parsed \/ (b /\ y = x))
           /\ \A k \in DOMAIN file' : \/ k \in DOMAIN file /\ file'[k] = file[k]
                                      \/ k = Len(file) + 1 /\ file'[k].ord = o
<1>1. CASE Added(x, o, b)
  <2>1. \A k \in DOMAIN file' : k \in DOMAIN file \/ k = Len(file) + 1
    BY <1>1, AddedLines
  <2> QED  BY <1>1, <2>1, AddedLines
<1>2. CASE b = FALSE /\ file' = file
  <2>1. OkLines' = OkLines /\ Parsed' = Parsed /\ file' = file
    BY <1>2 DEF OkLines, Parsed
  <2>2. Len(file) \in Nat /\ DOMAIN file = 1..Len(file)
    BY DEF FileOK
  <2>3. \A k \in OkLines : k \in Nat /\ k <= Len(file)
    BY <2>2 DEF OkLines
  <2> QED  BY <1>2, <2>1, <2>2, <2>3
<1> QED  BY <1>1, <1>2 DEF Grows

\* The order in the file is that of acceptance, whatever is added that is
\* not an item.
LEMMA OrderStays ==
    ASSUME Basics, FileOrder, accepted' = accepted, NEW b \in BOOLEAN, NEW x \in Records, NEW o \in 0..NoOrdinal,
           Grows(x, o, b), b => x \notin Items
    PROVE  FileOrder'
<1> SUFFICES ASSUME NEW m \in Writers, NEW i \in DOMAIN accepted[m], NEW j \in DOMAIN accepted[m],
                    i < j, accepted[m][j] \in Parsed'
             PROVE  \E k \in OkLines' : /\ file'[k].item = accepted[m][i]
                                        /\ \A l \in OkLines' : file'[l].item = accepted[m][j] => k < l
  BY DEF FileOrder
<1>1. PICK y \in Items, z \in Items : y = accepted[m][i] /\ z = accepted[m][j]
  BY AcceptedItems
<1>2. /\ \A k \in OkLines : k \in OkLines' /\ file'[k] = file[k] /\ k \in Nat /\ k <= Len(file)
      /\ \A k \in OkLines' : k \in OkLines \/ (b /\ k = Len(file) + 1 /\ file'[k].item = x)
      /\ \A u : u \in Parsed' <=> (u \in Parsed \/ (b /\ u = x))
  BY GrownLines DEF Basics
<1>3. z \in Parsed
  BY <1>1, <1>2
<1>4. PICK k \in OkLines : file[k].item = y /\ \A l \in OkLines : file[l].item = z => k < l
  BY <1>1, <1>3 DEF FileOrder
<1>5. k \in OkLines' /\ file'[k].item = y
  BY <1>2, <1>4
<1>6. \A l \in OkLines' : file'[l].item = z => k < l
  BY <1>1, <1>2, <1>4
<1> QED  BY <1>1, <1>5, <1>6

\* An item that is next is written: what was accepted before it is there.
LEMMA OrderGrows ==
    ASSUME Basics, Placed, FileOrder, accepted' = accepted, NEW b \in BOOLEAN, NEW x \in Items, NEW o \in 0..NoOrdinal,
           NEW n \in Writers, Grows(x, o, b), Heads(n, x), w[n].pc # "stopped"
    PROVE  FileOrder'
<1> SUFFICES ASSUME NEW m \in Writers, NEW i \in DOMAIN accepted[m], NEW j \in DOMAIN accepted[m],
                    i < j, accepted[m][j] \in Parsed'
             PROVE  \E k \in OkLines' : /\ file'[k].item = accepted[m][i]
                                        /\ \A l \in OkLines' : file'[l].item = accepted[m][j] => k < l
  BY DEF FileOrder
<1>1. PICK y \in Items, z \in Items : y = accepted[m][i] /\ z = accepted[m][j]
  BY AcceptedItems
<1>2. i \in Nat /\ j \in Nat /\ y \in Elems(accepted[m])
  BY <1>1, AcceptedItems
<1>3. x \in Records
  BY Constants
<1>4. /\ \A k \in OkLines : k \in OkLines' /\ file'[k] = file[k] /\ k \in Nat /\ k <= Len(file)
      /\ \A k \in OkLines' : k \in OkLines \/ (b /\ k = Len(file) + 1 /\ file'[k].item = x)
      /\ \A u : u \in Parsed' <=> (u \in Parsed \/ (b /\ u = x))
      /\ Len(file) \in Nat
  BY <1>3, GrownLines DEF Basics
<1>5. CASE z \in Parsed
  <2>1. PICK k \in OkLines : file[k].item = y /\ \A l \in OkLines : file[l].item = z => k < l
    BY <1>1, <1>5 DEF FileOrder
  <2>2. k \in OkLines' /\ file'[k].item = y
    BY <1>4, <2>1
  <2>3. \A l \in OkLines' : file'[l].item = z => k < l
    BY <1>4, <2>1
  <2> QED  BY <1>1, <2>2, <2>3
<1>6. CASE z \notin Parsed /\ z = x
  <2>1. m = n
    <3>1. x \in Elems(accepted[n])
      BY DEF Heads, Placed, Origins
    <3>2. PICK k \in DOMAIN accepted[n] : x = accepted[n][k]
      BY <3>1 DEF Elems
    <3> QED  BY <1>1, <1>6, <3>2 DEF Placed, Origins
  <2>2. y \in Parsed \/ Held(n, y) \/ Queued(n, y)
    BY <1>2, <2>1 DEF Placed, Safe
  <2>3. ~Queued(n, y)
    <3>1. Held(n, x) /\ Queued(n, y) => j < i
      BY <1>1, <1>6, <2>1 DEF Placed, Ordered
    <3> QED  BY <1>2, <3>1 DEF Heads
  <2>4. ~Held(n, y)
    <3>1. HeldBefore(n, x, y) => j < i
      BY <1>1, <1>6, <2>1 DEF Placed, Ordered
    <3>2. y = x => i = j
      BY <1>1, <1>6 DEF Placed, Origins
    <3> QED  BY <1>2, <3>1, <3>2 DEF Heads
  <2>5. PICK k \in OkLines : file[k].item = y
    BY <2>2, <2>3, <2>4 DEF Parsed
  <2>6. \A l \in OkLines : file[l].item # z
    BY <1>6 DEF Parsed
  <2>7. k \in OkLines' /\ file'[k].item = y
    BY <1>4, <2>5
  <2>8. \A l \in OkLines' : file'[l].item = z => k < l
    BY <1>4, <2>5, <2>6
  <2> QED  BY <1>1, <2>7, <2>8
<1> QED  BY <1>1, <1>4, <1>5, <1>6

(***************************************************************************)
(* What is promised is there, and in order.                                *)
(***************************************************************************)

Stored == Placed /\ FileOrder /\ AckedDurable

\* The first pending item is what is written next.
LEMMA FirstHeads ==
    ASSUME Basics, NEW n \in Writers, w[n].pending # <<>>
    PROVE  Head(w[n].pending) \in Items /\ Heads(n, Head(w[n].pending))
<1>1. PICK s \in Seq(Items) : s = w[n].pending
  BY BasicTypes, FieldTypes
<1>2. s # <<>> /\ 1 \in DOMAIN s /\ Head(s) = s[1] /\ Head(s) \in Items
  BY <1>1
<1>3. \A q \in DOMAIN s : q = 1 \/ 1 < q
  BY <1>1
<1>4. ASSUME NEW y \in Items, Held(n, y)
      PROVE  y = Head(s) \/ HeldBefore(n, Head(s), y)
  BY <1>1, <1>2, <1>3, <1>4 DEF Held, HeldBefore
<1> QED  BY <1>1, <1>2, <1>4 DEF Heads, Held

\* Items stay where they are while a line is written, and nothing is promised
\* that is not in the file.
LEMMA StoredStays ==
    ASSUME Basics, Stored, accepted' = accepted, NEW b \in BOOLEAN, NEW n \in Writers,
           NEW x \in Records, NEW o \in 0..NoOrdinal, Grows(x, o, b),
           b /\ x \in Items => Heads(n, x) /\ w[n].pc # "stopped",
           \A m \in Writers : Quiet(m), acked' \subseteq acked \cup Parsed
    PROVE  Stored'
<1>1. \A y : y \in Parsed' <=> (y \in Parsed \/ (b /\ y = x))
  BY GrownLines DEF Basics
<1>2. PICK c \in BOOLEAN : c = (b /\ x \in Items)
  OBVIOUS
<1>3. /\ \A y \in Items : y \in Parsed' <=> (y \in Parsed \/ (c /\ y = x))
      /\ c => x \in Items /\ Heads(n, x)
  BY <1>1, <1>2
<1>4. Placed'
  BY <1>3, PlacedStays DEF Stored
<1>5. AckedDurable'
  BY <1>1 DEF Stored, AckedDurable
<1>6. FileOrder'
  <2>1. CASE c
    BY <1>2, <2>1, OrderGrows DEF Stored
  <2>2. CASE ~c
    BY <1>2, <2>2, OrderStays DEF Stored
  <2> QED  BY <2>1, <2>2
<1> QED  BY <1>4, <1>5, <1>6 DEF Stored

\* Nothing is written, nothing moves.
LEMMA StoredSame ==
    ASSUME Basics, Stored, accepted' = accepted, file' = file, ended => ended',
           \A m \in Writers : Quiet(m), acked' \subseteq acked \cup Parsed
    PROVE  Stored'
<1>1. PICK b \in BOOLEAN, o \in 0..NoOrdinal, n \in Writers : b = FALSE
  BY Constants
<1>2. Grows(Meta, o, b) /\ Meta \in Records
  BY <1>1, Constants DEF Grows
<1> QED  BY <1>1, <1>2, StoredStays

\* A writer's step that leaves its items alone.
LEMMA TurnsQuiet ==
    ASSUME NEW n \in Writers, NEW p, NEW c, NEW o, NEW m, NEW x,
           Turns(n, p, c, o, m, w[n].pending, x), w[n].pc # "stopped", chan' = chan
    PROVE  \A k \in Writers : Quiet(k)
<1>1. \A k \in Writers : SameQueue(k)
  BY DEF SameQueue
<1> QED  BY <1>1 DEF Turns, Quiet

\* A failed write leaves the items alone.
LEMMA FailedStored ==
    ASSUME Basics, Stored, accepted' = accepted, chan' = chan, NEW n \in Writers, w[n].pc # "stopped",
           NEW x \in Records, NEW o \in 0..NoOrdinal, NEW b \in BOOLEAN, Grows(x, o, b),
           b /\ x \in Items => Heads(n, x), Failed(n)
    PROVE  Stored'
<1>1. PICK p \in {"open", "recv"} :
          /\ Turns(n, p, w[n].cmd, FALSE, w[n].meta, w[n].pending, w[n].next)
          /\ UNCHANGED <<client, acked>> \/ Reply(n, w[n].cmd, FALSE)
  BY BasicTypes, FailedEffect
<1>2. PICK f : f = FALSE
  OBVIOUS
<1>3. Turns(n, p, w[n].cmd, f, w[n].meta, w[n].pending, w[n].next)
  BY <1>1, <1>2
<1>4. \A k \in Writers : Quiet(k)
  BY <1>3, TurnsQuiet
<1>5. acked' = acked
  BY <1>1 DEF Reply
<1> QED  BY <1>4, <1>5, StoredStays

\* The file is opened, or opening fails.
LEMMA OpenStored ==
    ASSUME Basics, Stored, NEW n \in Writers, OpenLog(n)
    PROVE  Stored'
<1>1. /\ UNCHANGED <<file, chan, accepted>> /\ w[n].pc # "stopped"
      /\ w[n].deferred \in BOOLEAN /\ ended \in BOOLEAN
  BY BasicTypes, FieldTypes DEF OpenLog, Basics, FileOK
<1>2. CASE Failed(n) /\ ended' \in {ended, TRUE}
  <2>1. PICK b \in BOOLEAN, o \in 0..NoOrdinal : b = FALSE
    BY Constants
  <2>2. ended => ended'
    BY <1>2
  <2>3. Grows(Meta, o, b) /\ Meta \in Records
    BY <1>1, <2>1, <2>2, Constants DEF Grows
  <2> QED  BY <1>1, <1>2, <2>1, <2>3, FailedStored
<1>3. CASE /\ w' = [w EXCEPT ![n].pc = "meta", ![n].open = TRUE,
                             ![n].deferred = IF w[n].open THEN @ ELSE FALSE]
           /\ ended' = IF w[n].open THEN ended ELSE TRUE
           /\ UNCHANGED <<client, acked, count>>
  <2>1. PICK d \in BOOLEAN : d = IF w[n].open THEN w[n].deferred ELSE FALSE
    BY <1>1
  <2>2. w' = [w EXCEPT ![n].pc = "meta", ![n].open = TRUE, ![n].deferred = d]
    BY <1>3, <2>1
  <2>3. PICK o : o = TRUE
    OBVIOUS
  <2>4. Turns(n, "meta", w[n].cmd, o, w[n].meta, w[n].pending, w[n].next)
    BY <2>2, <2>3, BasicTypes, OpenTurns
  <2>5. \A k \in Writers : Quiet(k)
    BY <1>1, <2>4, TurnsQuiet
  <2>6. ended => ended'
    BY <1>3
  <2> QED  BY <1>1, <1>3, <2>5, <2>6, StoredSame
<1> QED  BY <1>2, <1>3 DEF OpenLog

\* The SessionMeta record is written, or need not be, or the write fails.
LEMMA MetaStored ==
    ASSUME Basics, Control, Stored, NEW n \in Writers, WriteMeta(n)
    PROVE  Stored'
<1>1. /\ UNCHANGED <<chan, accepted>> /\ w[n].pc = "meta" /\ ended /\ ended \in BOOLEAN
      /\ "items" \in WriterPCs
  BY DEF WriteMeta, Control, Clean, Gone, Basics, FileOK, WriterPCs
<1>2. CASE /\ w' = [w EXCEPT ![n].pc = "items"]
           /\ UNCHANGED <<file, ended, client, acked, count>>
  <2>1. Turns(n, "items", w[n].cmd, w[n].open, w[n].meta, w[n].pending, w[n].next)
    BY <1>1, <1>2, BasicTypes, PcTurns
  <2>2. \A k \in Writers : Quiet(k)
    BY <1>1, <2>1, TurnsQuiet
  <2> QED  BY <1>1, <1>2, <2>2, StoredSame
<1>3. CASE /\ w[n].meta /\ Put(Line(Meta, OrdinalOf(n), TRUE), "whole")
           /\ w' = [w EXCEPT ![n].pc = "items", ![n].meta = FALSE, ![n].next = Advance(@)]
           /\ UNCHANGED <<client, acked, count>>
  <2>1. Advance(w[n].next) \in 0..NoOrdinal /\ OrdinalOf(n) \in 0..NoOrdinal /\ "whole" \in Outcomes
    BY <1>3, OrdinalRange DEF Outcomes
  <2>2. Turns(n, "items", w[n].cmd, w[n].open, FALSE, w[n].pending, Advance(w[n].next))
    BY <1>3, <2>1, BasicTypes, MetaTurns
  <2>3. PICK m : m = FALSE
    OBVIOUS
  <2>4. Turns(n, "items", w[n].cmd, w[n].open, m, w[n].pending, Advance(w[n].next))
    BY <2>2, <2>3
  <2>5. \A k \in Writers : Quiet(k)
    BY <1>1, <2>4, TurnsQuiet
  <2>6. PICK b \in BOOLEAN : Grows(Meta, OrdinalOf(n), b)
    BY <1>1, <1>3, <2>1, PutAppends
  <2> QED  BY <1>1, <1>3, <2>1, <2>5, <2>6, Constants, StoredStays
<1>4. CASE /\ w[n].meta /\ Failed(n)
           /\ \E outcome \in Outcomes \ {"whole"} : Put(Line(Meta, OrdinalOf(n), TRUE), outcome)
  <2>1. OrdinalOf(n) \in 0..NoOrdinal
    BY <1>4, OrdinalRange
  <2>2. PICK b \in BOOLEAN : Grows(Meta, OrdinalOf(n), b)
    BY <1>1, <1>4, PutAppends
  <2> QED  BY <1>1, <1>4, <2>1, <2>2, Constants, FailedStored
<1> QED  BY <1>2, <1>3, <1>4 DEF WriteMeta

\* The first pending item leaves the queue.
LEMMA HeldTail ==
    ASSUME Basics, NEW n \in Writers, w[n].pending # <<>>, w'[n].pending = Tail(w[n].pending), NEW y, NEW z
    PROVE  /\ Held(n, y)' => Held(n, y)
           /\ HeldBefore(n, y, z)' => HeldBefore(n, y, z)
           /\ Held(n, y) => Held(n, y)' \/ y = Head(w[n].pending)
<1>1. PICK s, t : s \in Seq(Items) /\ s = w[n].pending /\ t = w'[n].pending
  BY BasicTypes, FieldTypes
<1>2. s # <<>> /\ t = Tail(s) /\ Head(s) = s[1]
  BY <1>1
<1>3. \A k \in DOMAIN t : k \in Nat /\ k + 1 \in DOMAIN s /\ t[k] = s[k + 1]
  BY <1>1, <1>2
<1>4. \A k \in DOMAIN s : k = 1 \/ (k - 1 \in DOMAIN t /\ t[k - 1] = s[k])
  BY <1>1, <1>2
<1>5. Held(n, y)' => Held(n, y)
  BY <1>1, <1>3 DEF Held
<1>6. HeldBefore(n, y, z)' => HeldBefore(n, y, z)
  <2> SUFFICES ASSUME HeldBefore(n, y, z)' PROVE HeldBefore(n, y, z)
    OBVIOUS
  <2>1. PICK p, q \in DOMAIN t : p < q /\ t[p] = y /\ t[q] = z
    BY <1>1 DEF HeldBefore
  <2>2. p + 1 \in DOMAIN s /\ q + 1 \in DOMAIN s /\ p + 1 < q + 1 /\ s[p + 1] = y /\ s[q + 1] = z
    BY <1>3, <2>1
  <2> QED  BY <1>1, <2>2 DEF HeldBefore
<1>7. Held(n, y) => Held(n, y)' \/ y = Head(s)
  BY <1>1, <1>2, <1>4 DEF Held
<1> QED  BY <1>1, <1>5, <1>6, <1>7

\* An item joins the pending ones.
LEMMA HeldAppend ==
    ASSUME Basics, NEW n \in Writers, NEW x \in Items, w'[n].pending = Append(w[n].pending, x), NEW y, NEW z
    PROVE  /\ Held(n, y)' <=> (Held(n, y) \/ y = x)
           /\ HeldBefore(n, y, z)' => HeldBefore(n, y, z) \/ (Held(n, y) /\ z = x)
<1>1. PICK s, t, l : s \in Seq(Items) /\ s = w[n].pending /\ t = w'[n].pending /\ l = Len(s)
  BY BasicTypes, FieldTypes
<1>2. t = Append(s, x)
  BY <1>1
<1>3. /\ l \in Nat /\ DOMAIN s = 1..l
      /\ l + 1 \in DOMAIN t /\ t[l + 1] = x
      /\ \A k \in DOMAIN s : k \in DOMAIN t /\ t[k] = s[k]
      /\ \A k \in DOMAIN t : (k = l + 1 /\ t[k] = x) \/ (k \in DOMAIN s /\ t[k] = s[k])
  BY <1>1, <1>2, AppendAt
<1>4. Held(n, y)' <=> (Held(n, y) \/ y = x)
  BY <1>1, <1>3 DEF Held
<1>5. HeldBefore(n, y, z)' => HeldBefore(n, y, z) \/ (Held(n, y) /\ z = x)
  <2> SUFFICES ASSUME HeldBefore(n, y, z)' PROVE HeldBefore(n, y, z) \/ (Held(n, y) /\ z = x)
    OBVIOUS
  <2>1. PICK p, q \in DOMAIN t : p < q /\ t[p] = y /\ t[q] = z
    BY <1>1 DEF HeldBefore
  <2>2. p \in DOMAIN s /\ s[p] = y
    BY <1>3, <2>1
  <2>3. CASE q = l + 1
    BY <1>1, <1>3, <2>1, <2>2, <2>3 DEF Held
  <2>4. CASE q \in DOMAIN s /\ s[q] = z
    BY <1>1, <2>1, <2>2, <2>4 DEF HeldBefore
  <2> QED  BY <1>3, <2>1, <2>3, <2>4
<1> QED  BY <1>4, <1>5

\* The first command leaves the channel.
LEMMA QueuedTail ==
    ASSUME Basics, NEW n \in Writers, chan[n] # <<>>, chan'[n] = Tail(chan[n]),
           NEW c, c = Head(chan[n]), NEW y, NEW z
    PROVE  /\ Queued(n, y)' => Queued(n, y)
           /\ QueuedBefore(n, y, z)' => QueuedBefore(n, y, z)
           /\ Queued(n, y) => Queued(n, y)' \/ (Adds(c) /\ y = c.item)
           /\ Adds(c) => Queued(n, c.item)
           /\ Adds(c) /\ Queued(n, y)' => QueuedBefore(n, c.item, y)
<1>1. PICK s, t : s \in Seq(Commands) /\ s = chan[n] /\ t = chan'[n]
  BY DEF Basics, ChannelsOK
<1>2. s # <<>> /\ t = Tail(s) /\ 1 \in DOMAIN s /\ c = s[1]
  BY <1>1
<1>3. \A k \in DOMAIN t : k \in Nat /\ 1 < k + 1 /\ k + 1 \in DOMAIN s /\ t[k] = s[k + 1]
  BY <1>1, <1>2
<1>4. \A k \in DOMAIN s : k = 1 \/ (k - 1 \in DOMAIN t /\ t[k - 1] = s[k])
  BY <1>1, <1>2
<1>5. Queued(n, y)' => Queued(n, y)
  BY <1>1, <1>3 DEF Queued
<1>6. QueuedBefore(n, y, z)' => QueuedBefore(n, y, z)
  <2> SUFFICES ASSUME QueuedBefore(n, y, z)' PROVE QueuedBefore(n, y, z)
    OBVIOUS
  <2>1. PICK p, q \in DOMAIN t : /\ p < q /\ Adds(t[p]) /\ Adds(t[q])
                                 /\ t[p].item = y /\ t[q].item = z
    BY <1>1 DEF QueuedBefore
  <2>2. /\ p + 1 \in DOMAIN s /\ q + 1 \in DOMAIN s /\ p + 1 < q + 1
        /\ s[p + 1] = t[p] /\ s[q + 1] = t[q]
    BY <1>3, <2>1
  <2> QED  BY <1>1, <2>1, <2>2 DEF QueuedBefore
<1>7. Queued(n, y) => Queued(n, y)' \/ (Adds(c) /\ y = c.item)
  <2> SUFFICES ASSUME Queued(n, y) PROVE Queued(n, y)' \/ (Adds(c) /\ y = c.item)
    OBVIOUS
  <2>1. PICK k \in DOMAIN s : Adds(s[k]) /\ s[k].item = y
    BY <1>1 DEF Queued
  <2>2. CASE k = 1
    BY <1>2, <2>1, <2>2
  <2>3. CASE k # 1
    <3>1. PICK l \in DOMAIN t : t[l] = s[k]
      BY <1>4, <2>3
    <3> QED  BY <1>1, <2>1, <3>1 DEF Queued
  <2> QED  BY <2>2, <2>3
<1>8. Adds(c) => Queued(n, c.item)
  BY <1>1, <1>2 DEF Queued
<1>9. Adds(c) /\ Queued(n, y)' => QueuedBefore(n, c.item, y)
  BY <1>1, <1>2, <1>3 DEF Queued, QueuedBefore
<1> QED  BY <1>5, <1>6, <1>7, <1>8, <1>9

\* A command joins the live recorder's channel.
LEMMA QueuedAppend ==
    ASSUME Basics, NEW c \in Commands, Send(c), NEW r \in Writers, r = recorder, NEW y, NEW z
    PROVE  /\ Queued(r, y)' <=> (Queued(r, y) \/ (Adds(c) /\ y = c.item))
           /\ QueuedBefore(r, y, z)' => QueuedBefore(r, y, z) \/ (Adds(c) /\ Queued(r, y) /\ z = c.item)
<1>1. PICK s, t, l : s = chan[r] /\ t = chan'[r] /\ l = Len(s)
  OBVIOUS
<1>2. /\ s \in Seq(Commands) /\ l \in Nat /\ DOMAIN s = 1..l /\ l + 1 \in DOMAIN t /\ t[l + 1] = c
      /\ \A k \in DOMAIN s : k \in DOMAIN t /\ t[k] = s[k]
      /\ \A k \in DOMAIN t : (k = l + 1 /\ t[k] = c) \/ (k \in DOMAIN s /\ t[k] = s[k])
  BY <1>1, SendEffect
<1>3. Queued(r, y)' => (Queued(r, y) \/ (Adds(c) /\ y = c.item))
  <2> SUFFICES ASSUME Queued(r, y)' PROVE Queued(r, y) \/ (Adds(c) /\ y = c.item)
    OBVIOUS
  <2>1. PICK k \in DOMAIN t : Adds(t[k]) /\ t[k].item = y
    BY <1>1 DEF Queued
  <2> QED  BY <1>1, <1>2, <2>1 DEF Queued
<1>4. (Queued(r, y) \/ (Adds(c) /\ y = c.item)) => Queued(r, y)'
  <2>1. Queued(r, y) => Queued(r, y)'
    BY <1>1, <1>2 DEF Queued
  <2>2. Adds(c) /\ y = c.item => Queued(r, y)'
    BY <1>1, <1>2 DEF Queued
  <2> QED  BY <2>1, <2>2
<1>5. QueuedBefore(r, y, z)' => QueuedBefore(r, y, z) \/ (Adds(c) /\ Queued(r, y) /\ z = c.item)
  <2> SUFFICES ASSUME QueuedBefore(r, y, z)'
               PROVE  QueuedBefore(r, y, z) \/ (Adds(c) /\ Queued(r, y) /\ z = c.item)
    OBVIOUS
  <2>1. PICK p, q \in DOMAIN t : /\ p < q /\ Adds(t[p]) /\ Adds(t[q])
                                 /\ t[p].item = y /\ t[q].item = z
    BY <1>1 DEF QueuedBefore
  <2>2. p \in DOMAIN s /\ t[p] = s[p]
    BY <1>2, <2>1
  <2>3. CASE q = l + 1
    BY <1>1, <1>2, <2>1, <2>2, <2>3 DEF Queued
  <2>4. CASE q \in DOMAIN s /\ t[q] = s[q]
    BY <1>1, <2>1, <2>2, <2>4 DEF QueuedBefore
  <2> QED  BY <1>2, <2>1, <2>3, <2>4
<1> QED  BY <1>3, <1>4, <1>5

\* A pending item is written, or its write fails.
LEMMA ItemStored ==
    ASSUME Basics, Control, Stored, NEW n \in Writers, WriteItem(n)
    PROVE  Stored'
<1>1. /\ UNCHANGED <<chan, accepted>> /\ w[n].pc = "items" /\ ended /\ ended \in BOOLEAN
      /\ w[n].pending # <<>>
  BY DEF WriteItem, Control, Clean, Gone, Basics, FileOK
<1>2. PICK x \in Items : x = Head(w[n].pending) /\ Heads(n, x) /\ x \in Records
  BY <1>1, FirstHeads, Constants
<1>3. w[n].pending \in Seq(Items) /\ Tail(w[n].pending) \in Seq(Items)
  BY <1>1, BasicTypes, FieldTypes
<1>4. CASE /\ ~Exhausted(n) /\ Put(Line(x, OrdinalOf(n), TRUE), "whole")
           /\ w' = [w EXCEPT ![n].pending = Tail(@), ![n].next = Advance(@)]
           /\ UNCHANGED <<client, acked, count>>
  <2>1. Advance(w[n].next) \in 0..NoOrdinal /\ OrdinalOf(n) \in 0..NoOrdinal /\ "whole" \in Outcomes
    BY <1>4, OrdinalRange DEF Outcomes
  <2>2. Turns(n, w[n].pc, w[n].cmd, w[n].open, w[n].meta, Tail(w[n].pending), Advance(w[n].next))
    BY <1>3, <1>4, <2>1, BasicTypes, ItemTurns
  <2>3. /\ w'[n].pending = Tail(w[n].pending) /\ w'[n].pc = w[n].pc
        /\ \A m \in Writers : m # n => w'[m] = w[m]
    BY <2>2 DEF Turns
  <2>4. PICK b \in BOOLEAN : Grows(x, OrdinalOf(n), b) /\ b
    BY <1>1, <1>4, <2>1, PutAppends
  <2>5. \A y : y \in Parsed' <=> (y \in Parsed \/ (b /\ y = x))
    BY <1>2, <2>1, <2>4, GrownLines DEF Basics
  <2>6. ASSUME NEW m \in Writers, NEW y \in Items, NEW z \in Items
        PROVE  /\ (Queued(m, y)' <=> Queued(m, y)) /\ (QueuedBefore(m, y, z)' <=> QueuedBefore(m, y, z))
               /\ (Held(m, y)' => Held(m, y)) /\ (HeldBefore(m, y, z)' => HeldBefore(m, y, z))
               /\ Held(m, y) => Held(m, y)' \/ (b /\ y = x)
    <3>1. (Queued(m, y)' <=> Queued(m, y)) /\ (QueuedBefore(m, y, z)' <=> QueuedBefore(m, y, z))
      BY <1>1, QueuedStays
    <3>2. CASE m # n
      BY <2>3, <3>1, <3>2, HeldStays
    <3>3. CASE m = n
      BY <1>1, <1>2, <2>3, <2>4, <3>1, <3>3, HeldTail
    <3> QED  BY <3>2, <3>3
  <2>7. \A m \in Writers : w'[m].pc # "stopped" => w[m].pc # "stopped"
    BY <2>3
  <2>8. Placed'
    <3>1. /\ \A m \in Writers : \A y \in Items :
                (Held(m, y)' => Held(m, y)) /\ (Queued(m, y)' => Queued(m, y))
          /\ \A m \in Writers : \A y, z \in Items :
                /\ HeldBefore(m, y, z)' => HeldBefore(m, y, z)
                /\ QueuedBefore(m, y, z)' => QueuedBefore(m, y, z)
          /\ \A m \in Writers : w'[m].pc # "stopped" =>
              \/ accepted[m] = <<>>
              \/ /\ w[m].pc # "stopped"
                 /\ \A y \in Items : /\ Held(m, y) => Held(m, y)' \/ (b /\ y = x)
                                     /\ Queued(m, y) => Queued(m, y)'
      BY <2>6, <2>7
    <3> QED  BY <1>1, <1>2, <2>5, <3>1, PlacedShrinks DEF Stored
  <2>9. FileOrder'
    BY <1>1, <1>2, <2>1, <2>4, OrderGrows DEF Stored
  <2>10. AckedDurable'
    BY <1>4, <2>5 DEF Stored, AckedDurable
  <2> QED  BY <2>8, <2>9, <2>10 DEF Stored
<1>5. CASE /\ ~Exhausted(n) /\ Failed(n)
           /\ \E outcome \in Outcomes \ {"whole"} : Put(Line(x, OrdinalOf(n), TRUE), outcome)
  <2>1. OrdinalOf(n) \in 0..NoOrdinal
    BY <1>5, OrdinalRange
  <2>2. PICK b \in BOOLEAN : Grows(x, OrdinalOf(n), b)
    BY <1>1, <1>5, PutAppends
  <2> QED  BY <1>1, <1>2, <1>5, <2>1, <2>2, FailedStored
<1>6. CASE Failed(n) /\ UNCHANGED <<file, ended, count>>
  <2>1. PICK b \in BOOLEAN, o \in 0..NoOrdinal : b = FALSE
    BY Constants
  <2>2. Grows(Meta, o, b) /\ Meta \in Records
    BY <1>6, <2>1, Constants DEF Grows
  <2> QED  BY <1>1, <1>6, <2>1, <2>2, FailedStored
<1> QED  BY <1>2, <1>4, <1>5, <1>6 DEF WriteItem

\* With nothing pending and nothing queued, everything accepted is in the file.
LEMMA AllWritten ==
    ASSUME Basics, Placed, NEW n \in Writers, w[n].pc # "stopped", w[n].pending = <<>>,
           \A k \in DOMAIN chan[n] : ~Adds(chan[n][k])
    PROVE  Elems(accepted[n]) \subseteq Parsed
<1>1. \A x : ~Held(n, x) /\ ~Queued(n, x)
  BY DEF Held, Queued
<1> QED  BY <1>1 DEF Placed, Safe

\* A command is answered, a channel closed.
LEMMA DoneStored ==
    ASSUME Basics, Control, Stored, NEW n \in Writers, Written(n) \/ CloseWriter(n)
    PROVE  Stored'
<1>1. UNCHANGED <<file, ended, chan, accepted>> /\ w[n].pc # "stopped"
  BY DEF Written, CloseWriter
<1>2. PICK p \in {"stopped", "recv"} : w' = [w EXCEPT ![n].pc = p]
  BY DEF Written, CloseWriter, AfterReply
<1>3. p \in WriterPCs /\ w[n].cmd \in Commands
  BY <1>2, BasicTypes, FieldTypes DEF WriterPCs
<1>4. Turns(n, p, w[n].cmd, w[n].open, w[n].meta, w[n].pending, w[n].next)
  BY <1>2, <1>3, BasicTypes, PcTurns
<1>5. \A k \in Writers : Quiet(k)
  BY <1>1, <1>4, TurnsQuiet
<1>6. acked' \subseteq acked \cup Parsed
  <2>1. CASE CloseWriter(n)
    BY <2>1 DEF CloseWriter
  <2>2. CASE Written(n) /\ ~w[n].cmd.ack
    BY <2>2 DEF Written, Reply
  <2>3. CASE Written(n) /\ w[n].cmd.ack
    <3>1. chan[n] = <<>> /\ w[n].pending = <<>>
      BY <2>3 DEF Written, Control, Waits, Busy
    <3>2. Elems(accepted[n]) \subseteq Parsed
      BY <1>1, <3>1, AllWritten DEF Stored
    <3>3. acked' \subseteq acked \cup Elems(accepted[n])
      BY <2>3 DEF Written, Reply
    <3> QED  BY <3>2, <3>3
  <2> QED  BY <2>1, <2>2, <2>3
<1> QED  BY <1>1, <1>5, <1>6, StoredSame

\* Steps of the store and the updater that leave the writers' items alone.
LEMMA StoreStored ==
    ASSUME Basics, Control, Stored,
           \/ Project \/ Discard \/ Cancel \/ WriterGone \/ OpenForUpdate
           \/ (\E n \in Writers : Resume(n)) \/ UNCHANGED vars
    PROVE  Stored'
<1>1. UNCHANGED <<file, accepted, acked>> /\ (ended => ended')
  BY DEF Project, Discard, Cancel, WriterGone, OpenForUpdate, Resume, vars
<1>2. \A m \in Writers : Quiet(m)
  <2>1. CASE UNCHANGED <<w, chan>>
    BY <2>1 DEF Quiet, SameQueue
  <2>2. CASE Cancel
    BY <2>2, CancelEffect DEF Quiet, SameQueue
  <2>3. CASE \E n \in Writers : Resume(n)
    <3>1. PICK n \in Writers : Resume(n)
      BY <2>3
    <3>2. w'[n].pending = <<>> /\ w'[n].pc = "recv" /\ \A k \in Writers : k # n => w'[k] = w[k]
      BY <3>1, ResumeEffect DEF Turns
    <3>3. chan' = chan /\ w[n].pc = "unused"
      BY <3>1 DEF Resume
    <3>4. accepted[n] = <<>>
      BY <3>3 DEF Control, Shapes
    <3>5. \A m \in Writers : SameQueue(m)
      BY <3>3 DEF SameQueue
    <3> QED  BY <3>2, <3>3, <3>4, <3>5 DEF Quiet
  <2>4. CASE WriterGone
    <3>1. /\ w' = w /\ w[recorder].pc = "stopped" /\ chan \in [Writers -> Seq(Commands)]
          /\ chan' = [chan EXCEPT ![recorder] = <<>>]
      BY <2>4 DEF WriterGone, Basics, ChannelsOK
    <3>2. ASSUME NEW m \in Writers PROVE Quiet(m)
      <4>1. CASE m = recorder
        BY <3>1, <4>1 DEF Quiet
      <4>2. CASE m # recorder
        BY <3>1, <4>2 DEF Quiet, SameQueue
      <4> QED  BY <4>1, <4>2
    <3> QED  BY <3>2
  <2> QED  BY <2>1, <2>2, <2>3, <2>4 DEF Project, Discard, OpenForUpdate, vars
<1> QED  BY <1>1, <1>2, StoredSame

\* A metadata update is written.
LEMMA UpdateStored ==
    ASSUME Basics, Control, Stored, WriteUpdate
    PROVE  Stored'
<1>1. UNCHANGED <<w, chan, accepted, acked>> /\ ended /\ ended \in BOOLEAN
  BY DEF WriteUpdate, Control, Clean, Basics, FileOK
<1>2. PICK outcome \in Outcomes : Put(Line(MetaUpdate, NoOrdinal, TRUE), outcome)
  BY DEF WriteUpdate, Outcomes
<1>3. PICK b \in BOOLEAN : Grows(MetaUpdate, NoOrdinal, b)
  BY <1>1, <1>2, PutAppends
<1>4. \A m \in Writers : Quiet(m)
  BY <1>1 DEF Quiet, SameQueue
<1>5. PICK n \in Writers : n = 1
  BY Constants
<1> QED  BY <1>1, <1>3, <1>4, <1>5, Constants, StoredStays

\* The process crashes.
LEMMA CrashStored ==
    ASSUME Basics, Control, Stored, Crash
    PROVE  Stored'
<1>1. UNCHANGED <<accepted, acked>> /\ \A n \in Writers : chan'[n] = <<>>
  BY DEF Crash
<1>2. \A m \in Writers : Quiet(m)
  <2> SUFFICES ASSUME NEW m \in Writers PROVE Quiet(m)
    OBVIOUS
  <2>1. /\ w[m].pc = "unused" => w'[m] = w[m]
        /\ w[m].pc # "unused" => w'[m].pc = "stopped" /\ w'[m].pending = <<>>
    BY CrashWriters
  <2>2. w[m].pc = "unused" => accepted[m] = <<>>
    BY DEF Control, Shapes
  <2>3. CASE w[m].pc = "unused"
    BY <1>1, <2>1, <2>2, <2>3 DEF Quiet
  <2>4. CASE w[m].pc # "unused"
    BY <1>1, <2>1, <2>4 DEF Quiet
  <2> QED  BY <2>3, <2>4
<1>3. CASE UNCHANGED <<file, ended>>
  BY <1>1, <1>2, <1>3, StoredSame
<1>4. CASE \E line \in InFlight, outcome \in {"torn", "bare"} : Put(line, outcome)
  <2>1. PICK line \in InFlight, outcome \in Outcomes : Put(line, outcome)
    BY <1>4 DEF Outcomes
  <2>2. PICK x \in Records, o \in 0..NoOrdinal :
              /\ line = Line(x, o, TRUE)
              /\ \/ x = MetaUpdate /\ updater = "write"
                 \/ \E n \in Writers : /\ w[n].pc = "meta" /\ w[n].meta /\ x = Meta
                 \/ \E n \in Writers : /\ w[n].pc = "items" /\ w[n].pending # <<>>
                                       /\ x = Head(w[n].pending) /\ x \in Items
    BY InFlightLine
  <2>3. ended /\ ended \in BOOLEAN
    BY <2>2 DEF Control, Clean, Gone, Basics, FileOK
  <2>4. PICK b \in BOOLEAN : Grows(x, o, b)
    BY <2>1, <2>2, <2>3, PutAppends
  <2>5. PICK n \in Writers : x \in Items => Heads(n, x) /\ w[n].pc # "stopped"
    <3>1. CASE x \in Items
      <4>1. PICK n \in Writers : w[n].pc = "items" /\ w[n].pending # <<>> /\ x = Head(w[n].pending)
        BY <2>2, <3>1, Constants
      <4> QED  BY <4>1, FirstHeads
    <3>2. CASE x \notin Items
      BY <3>2, Constants
    <3> QED  BY <3>1, <3>2
  <2> QED  BY <1>1, <1>2, <2>4, <2>5, StoredStays
<1> QED  BY <1>3, <1>4 DEF Crash

\* A barrier is sent: it carries no item.
LEMMA BarrierStored ==
    ASSUME Basics, Stored, NEW op \in CmdOps \ {"Add"}, Barrier(op)
    PROVE  Stored'
<1>1. UNCHANGED <<file, ended, w, recorder, accepted, acked>>
  BY DEF Barrier
<1>2. PICK c : c = [op |-> op, item |-> Meta, ack |-> TRUE]
  OBVIOUS
<1>3. c \in Commands /\ ~Adds(c)
  BY <1>2, Constants DEF Commands, CmdOps, Adds
<1>4. Send(c)
  BY <1>2 DEF Barrier
<1>5. recorder \in Writers /\ \A m \in Writers : m # recorder => chan'[m] = chan[m]
  BY <1>3, <1>4, SendEffect
<1>6. ASSUME NEW m \in Writers, NEW y \in Items, NEW z \in Items
      PROVE  /\ (Held(m, y)' <=> Held(m, y)) /\ (HeldBefore(m, y, z)' <=> HeldBefore(m, y, z))
             /\ (Queued(m, y)' <=> Queued(m, y)) /\ (QueuedBefore(m, y, z)' => QueuedBefore(m, y, z))
  <2>1. (Held(m, y)' <=> Held(m, y)) /\ (HeldBefore(m, y, z)' <=> HeldBefore(m, y, z))
    BY <1>1, HeldStays
  <2>2. CASE m = recorder
    BY <1>3, <1>4, <2>1, <2>2, QueuedAppend
  <2>3. CASE m # recorder
    BY <1>5, <2>1, <2>3, QueuedStays
  <2> QED  BY <2>2, <2>3
<1>7. Parsed' = Parsed
  BY <1>1 DEF Parsed, OkLines
<1>8. PICK b \in BOOLEAN, n \in Writers, x \in Records : b = FALSE
  BY Constants
<1>9. Placed'
  <2>1. /\ \A m \in Writers : \A y \in Items :
              (Held(m, y)' => Held(m, y)) /\ (Queued(m, y)' => Queued(m, y))
        /\ \A m \in Writers : \A y, z \in Items :
              /\ HeldBefore(m, y, z)' => HeldBefore(m, y, z)
              /\ QueuedBefore(m, y, z)' => QueuedBefore(m, y, z)
        /\ \A m \in Writers : w'[m].pc # "stopped" =>
            \/ accepted[m] = <<>>
            \/ /\ w[m].pc # "stopped"
               /\ \A y \in Items : /\ Held(m, y) => Held(m, y)' \/ (b /\ y = x)
                                   /\ Queued(m, y) => Queued(m, y)'
    BY <1>1, <1>6
  <2>2. \A y \in Items : y \in Parsed' <=> (y \in Parsed \/ (b /\ y = x))
    BY <1>7, <1>8
  <2> QED  BY <1>1, <1>8, <2>1, <2>2, PlacedShrinks DEF Stored
<1>10. FileOrder' /\ AckedDurable'
  BY <1>1, <1>7 DEF Stored, FileOrder, AckedDurable, OkLines
<1> QED  BY <1>9, <1>10 DEF Stored

\* An item moves from the channel to the end of the pending ones.
LEMMA ReceivePlaced ==
    ASSUME Basics, Placed, NEW n \in Writers, NEW c \in Commands, chan[n] # <<>>, c = Head(chan[n]),
           Adds(c), c.item \in Items, w[n].pc = "recv",
           chan'[n] = Tail(chan[n]), \A m \in Writers : m # n => chan'[m] = chan[m],
           w'[n].pending = Append(w[n].pending, c.item), \A m \in Writers : m # n => w'[m] = w[m],
           UNCHANGED <<file, accepted>>
    PROVE  Placed'
<1>1. PICK x \in Items : x = c.item
  OBVIOUS
<1>2. Parsed' = Parsed /\ \A m \in Writers : Elems(accepted[m])' = Elems(accepted[m])
  BY DEF Parsed, OkLines, Elems
<1>3. ASSUME NEW y, NEW z
      PROVE  /\ Held(n, y)' <=> (Held(n, y) \/ y = x)
             /\ HeldBefore(n, y, z)' => HeldBefore(n, y, z) \/ (Held(n, y) /\ z = x)
             /\ Queued(n, y)' => Queued(n, y) /\ QueuedBefore(n, x, y)
             /\ QueuedBefore(n, y, z)' => QueuedBefore(n, y, z)
             /\ Queued(n, y) => Queued(n, y)' \/ y = x
  <2>1. /\ Held(n, y)' <=> (Held(n, y) \/ y = x)
        /\ HeldBefore(n, y, z)' => HeldBefore(n, y, z) \/ (Held(n, y) /\ z = x)
    <3>1. w'[n].pending = Append(w[n].pending, x)
      BY <1>1
    <3> QED  BY <3>1, HeldAppend
  <2>2. /\ Queued(n, y)' => Queued(n, y)
        /\ QueuedBefore(n, y, z)' => QueuedBefore(n, y, z)
        /\ Queued(n, y) => Queued(n, y)' \/ (Adds(c) /\ y = c.item)
        /\ Adds(c) /\ Queued(n, y)' => QueuedBefore(n, c.item, y)
    BY QueuedTail
  <2> QED  BY <1>1, <2>1, <2>2
<1>8. Queued(n, x)
  BY <1>1, QueuedTail
<1>4. ASSUME NEW m \in Writers, m # n, NEW y, NEW z
      PROVE  /\ (Held(m, y)' <=> Held(m, y)) /\ (HeldBefore(m, y, z)' <=> HeldBefore(m, y, z))
             /\ (Queued(m, y)' <=> Queued(m, y)) /\ (QueuedBefore(m, y, z)' <=> QueuedBefore(m, y, z))
  BY <1>4, HeldStays, QueuedStays
<1>5. Origins'
  <2>1. \A m \in Writers : \A y \in Items : Held(m, y)' \/ Queued(m, y)' => y \in Elems(accepted[m])
    BY <1>3, <1>4, <1>8 DEF Placed, Origins
  <2> QED  BY <1>2, <2>1 DEF Placed, Origins
<1>6. Safe'
  <2>1. ASSUME NEW m \in Writers, w'[m].pc # "stopped", NEW y \in Elems(accepted[m])
        PROVE  y \in Parsed \/ Held(m, y)' \/ Queued(m, y)'
    <3>1. CASE m = n
      BY <1>3, <3>1 DEF Placed, Safe
    <3>2. CASE m # n
      BY <1>4, <2>1, <3>2 DEF Placed, Safe
    <3> QED  BY <3>1, <3>2
  <2> QED  BY <1>2, <2>1 DEF Safe
<1>7. Ordered'
  <2> SUFFICES ASSUME NEW m \in Writers, NEW i \in DOMAIN accepted[m], NEW j \in DOMAIN accepted[m]
               PROVE  /\ HeldBefore(m, accepted[m][i], accepted[m][j])' => i < j
                      /\ QueuedBefore(m, accepted[m][i], accepted[m][j])' => i < j
                      /\ Held(m, accepted[m][i])' /\ Queued(m, accepted[m][j])' => i < j
                      /\ accepted[m][i] \in Parsed' /\ Queued(m, accepted[m][j])' => i < j
                      /\ accepted[m][i] \in Parsed' /\ Held(m, accepted[m][j])' => i <= j
    BY DEF Ordered
  <2>1. PICK y \in Items, z \in Items : y = accepted[m][i] /\ z = accepted[m][j]
    BY AcceptedItems
  <2>2. /\ HeldBefore(m, y, z) => i < j
        /\ QueuedBefore(m, y, z) => i < j
        /\ Held(m, y) /\ Queued(m, z) => i < j
        /\ y \in Parsed /\ Queued(m, z) => i < j
        /\ y \in Parsed /\ Held(m, z) => i <= j
        /\ i \in Nat /\ j \in Nat
    BY <2>1, AcceptedItems DEF Placed, Ordered
  <2>3. CASE m # n
    BY <1>2, <1>4, <2>1, <2>2, <2>3
  <2>4. CASE m = n
    <3>1. HeldBefore(n, y, z)' => i < j
      BY <1>3, <1>8, <2>2, <2>4
    <3>2. QueuedBefore(n, y, z)' => i < j
      BY <1>3, <1>8, <2>2, <2>4
    <3>3. Held(n, y)' /\ Queued(n, z)' => i < j
      BY <1>3, <1>8, <2>2, <2>4
    <3>4. y \in Parsed /\ Queued(n, z)' => i < j
      BY <1>3, <1>8, <2>2, <2>4
    <3>5. y \in Parsed /\ Held(n, z)' => i <= j
      BY <1>3, <1>8, <2>2, <2>4
    <3> QED  BY <1>2, <2>1, <2>4, <3>1, <3>2, <3>3, <3>4, <3>5
  <2> QED  BY <2>3, <2>4
<1> QED  BY <1>5, <1>6, <1>7 DEF Placed

\* A command is received, and perhaps answered at once.
LEMMA ReceiveStored ==
    ASSUME Basics, Control, Stored, NEW n \in Writers, Receive(n)
    PROVE  Stored'
<1>1. UNCHANGED <<file, ended, accepted>>
  BY DEF Receive
<1>2. PICK c \in Commands, p \in WriterPCs, q \in Seq(Items) :
              /\ w[n].pc = "recv" /\ chan[n] # <<>> /\ c = Head(chan[n])
              /\ chan' = [chan EXCEPT ![n] = Tail(chan[n])]
              /\ q = IF Adds(c) THEN Append(w[n].pending, c.item) ELSE w[n].pending
              /\ Turns(n, p, c, w[n].open, w[n].meta, q, w[n].next)
              /\ \/ p = "open" /\ UNCHANGED <<client, acked>>
                 \/ /\ p = IF c.op = "Shutdown" THEN "stopped" ELSE "recv"
                    /\ Adds(c) \/ q = <<>>
                    /\ Reply(n, c, TRUE)
  BY ReceiveEffect
<1>3. /\ w'[n].pending = q /\ \A m \in Writers : m # n => w'[m] = w[m]
      /\ chan'[n] = Tail(chan[n]) /\ \A m \in Writers : m # n => chan'[m] = chan[m]
  BY <1>2 DEF Turns, Basics, ChannelsOK
<1>4. Parsed' = Parsed
  BY <1>1 DEF Parsed, OkLines
<1>5. PICK s \in Seq(Commands) : s = chan[n] /\ 1 \in DOMAIN s /\ c = s[1]
  BY <1>2 DEF Basics, ChannelsOK
<1>6. Placed'
  <2>1. CASE Adds(c)
    <3>1. c.item \in Items
      BY <1>5, <2>1 DEF Basics, ChannelsOK
    <3>2. w'[n].pending = Append(w[n].pending, c.item)
      BY <1>2, <1>3, <2>1
    <3>3. UNCHANGED <<file, accepted>>
      BY <1>1
    <3> QED  BY <1>2, <1>3, <2>1, <3>1, <3>2, <3>3, ReceivePlaced DEF Stored
  <2>2. CASE ~Adds(c)
    <3>1. w'[n].pending = w[n].pending
      BY <1>2, <1>3, <2>2
    <3>2. ASSUME NEW m \in Writers, NEW y \in Items, NEW z \in Items
          PROVE  /\ (Held(m, y)' <=> Held(m, y)) /\ (HeldBefore(m, y, z)' <=> HeldBefore(m, y, z))
                 /\ (Queued(m, y)' <=> Queued(m, y)) /\ (QueuedBefore(m, y, z)' => QueuedBefore(m, y, z))
      <4>1. (Held(m, y)' <=> Held(m, y)) /\ (HeldBefore(m, y, z)' <=> HeldBefore(m, y, z))
        BY <1>3, <3>1, HeldStays
      <4>2. CASE m = n
        BY <1>2, <1>3, <2>2, <4>1, <4>2, QueuedTail
      <4>3. CASE m # n
        BY <1>3, <4>1, <4>3, QueuedStays
      <4> QED  BY <4>2, <4>3
    <3>3. PICK b \in BOOLEAN, x \in Records : b = FALSE
      BY Constants
    <3>4. \A m \in Writers : w'[m].pc # "stopped" => w[m].pc # "stopped"
      BY <1>2, <1>3
    <3>5. /\ \A m \in Writers : \A y \in Items :
                (Held(m, y)' => Held(m, y)) /\ (Queued(m, y)' => Queued(m, y))
          /\ \A m \in Writers : \A y, z \in Items :
                /\ HeldBefore(m, y, z)' => HeldBefore(m, y, z)
                /\ QueuedBefore(m, y, z)' => QueuedBefore(m, y, z)
          /\ \A m \in Writers : w'[m].pc # "stopped" =>
              \/ accepted[m] = <<>>
              \/ /\ w[m].pc # "stopped"
                 /\ \A y \in Items : /\ Held(m, y) => Held(m, y)' \/ (b /\ y = x)
                                     /\ Queued(m, y) => Queued(m, y)'
      BY <3>2, <3>4
    <3>6. \A y \in Items : y \in Parsed' <=> (y \in Parsed \/ (b /\ y = x))
      BY <1>4, <3>3
    <3> QED  BY <1>1, <3>3, <3>5, <3>6, PlacedShrinks DEF Stored
  <2> QED  BY <2>1, <2>2
<1>7. FileOrder'
  BY <1>1, <1>4 DEF Stored, FileOrder, OkLines
<1>8. AckedDurable'
  <2>1. CASE acked' = acked
    BY <1>4, <2>1 DEF Stored, AckedDurable
  <2>2. CASE c.ack /\ Reply(n, c, TRUE) /\ (Adds(c) \/ q = <<>>)
    <3>1. ~Adds(c) /\ 1 = Len(s)
      BY <1>5, <2>2 DEF Control, Waits, Shapes
    <3>2. \A k \in DOMAIN chan[n] : ~Adds(chan[n][k])
      BY <1>5, <3>1
    <3>3. w[n].pending = <<>> /\ w[n].pc # "stopped"
      BY <1>2, <2>2, <3>1
    <3>4. Elems(accepted[n]) \subseteq Parsed
      BY <3>2, <3>3, AllWritten DEF Stored
    <3>5. acked' = acked \cup Elems(accepted[n])
      BY <2>2 DEF Reply
    <3> QED  BY <1>4, <3>4, <3>5 DEF Stored, AckedDurable
  <2> QED  BY <1>2, <2>1, <2>2 DEF Reply
<1> QED  BY <1>6, <1>7, <1>8 DEF Stored

\* A new item is accepted, and queued behind the others.
LEMMA AppendStored ==
    ASSUME Basics, Control, Stored, NEW x \in Items, AppendItems(x)
    PROVE  Stored'
<1>1. UNCHANGED <<file, ended, w, recorder, acked>>
  BY DEF AppendItems
<1>2. PICK c : c = [op |-> "Add", item |-> x, ack |-> FALSE]
  OBVIOUS
<1>3. c \in Commands /\ Adds(c) /\ c.item = x
  BY <1>2, Constants DEF Commands, CmdOps, Adds
<1>4. Send(c)
  BY <1>2 DEF AppendItems
<1>5. PICK r \in Writers : r = recorder
  BY <1>3, <1>4, SendEffect
<1>6. \A m \in Writers : m # r => chan'[m] = chan[m] /\ accepted'[m] = accepted[m]
  BY <1>3, <1>4, <1>5, SendEffect DEF AppendItems, Basics, RecordsOK
<1>7. PICK s, t, l : s \in Seq(Items) /\ s = accepted[r] /\ t = accepted'[r] /\ l = Len(s)
  BY DEF Basics, RecordsOK
<1>8. t = Append(s, x)
  BY <1>5, <1>7 DEF AppendItems, Basics, RecordsOK
<1>9. /\ l \in Nat /\ DOMAIN s = 1..l
      /\ l + 1 \in DOMAIN t /\ t[l + 1] = x
      /\ \A k \in DOMAIN s : k \in DOMAIN t /\ t[k] = s[k]
      /\ \A k \in DOMAIN t : (k = l + 1 /\ t[k] = x) \/ (k \in DOMAIN s /\ t[k] = s[k])
  BY <1>7, <1>8, AppendAt
<1>10. \A m \in Writers : x \notin Elems(accepted[m])
  BY DEF AppendItems
<1>11. /\ \A m \in Writers : m # r => Elems(accepted[m])' = Elems(accepted[m])
       /\ \A y : y \in Elems(accepted[r])' <=> (y \in Elems(accepted[r]) \/ y = x)
  <2>1. \A m \in Writers : m # r => Elems(accepted[m])' = Elems(accepted[m])
    BY <1>6 DEF Elems
  <2>2. Elems(accepted[r])' = {t[k] : k \in DOMAIN t} /\ Elems(accepted[r]) = {s[k] : k \in DOMAIN s}
    BY <1>7 DEF Elems
  <2>3. \A y : y \in {t[k] : k \in DOMAIN t} <=> (y \in {s[k] : k \in DOMAIN s} \/ y = x)
    BY <1>9
  <2> QED  BY <2>1, <2>2, <2>3
<1>12. x \notin Parsed /\ \A m \in Writers : ~Held(m, x) /\ ~Queued(m, x)
  BY <1>10 DEF Stored, Placed, Origins
<1>13. Parsed' = Parsed
  BY <1>1 DEF Parsed, OkLines
<1>14. ASSUME NEW m \in Writers, NEW y, NEW z
       PROVE  /\ (Held(m, y)' <=> Held(m, y)) /\ (HeldBefore(m, y, z)' <=> HeldBefore(m, y, z))
              /\ m # r => /\ Queued(m, y)' <=> Queued(m, y)
                          /\ QueuedBefore(m, y, z)' <=> QueuedBefore(m, y, z)
  BY <1>1, <1>6, HeldStays, QueuedStays
<1>15. ASSUME NEW y, NEW z
       PROVE  /\ Queued(r, y)' <=> (Queued(r, y) \/ y = x)
              /\ QueuedBefore(r, y, z)' => QueuedBefore(r, y, z) \/ (Queued(r, y) /\ z = x)
  BY <1>3, <1>4, <1>5, QueuedAppend
<1>16. Origins'
  <2>1. \A m \in Writers : \A y \in Items : Held(m, y)' \/ Queued(m, y)' => y \in Elems(accepted[m])'
    BY <1>11, <1>14, <1>15 DEF Stored, Placed, Origins
  <2>2. \A y \in Items : y \in Parsed' => \E m \in Writers : y \in Elems(accepted[m])'
    BY <1>11, <1>13 DEF Stored, Placed, Origins
  <2>3. ASSUME NEW m \in Writers, NEW k \in Writers, NEW i \in DOMAIN accepted'[m], NEW j \in DOMAIN accepted'[k],
               accepted'[m][i] = accepted'[k][j]
        PROVE  m = k /\ i = j
    <3>1. ASSUME NEW u \in Writers, NEW h \in DOMAIN accepted'[u]
          PROVE  \/ u = r /\ h = l + 1 /\ accepted'[u][h] = x
                 \/ /\ h \in DOMAIN accepted[u] /\ accepted'[u][h] = accepted[u][h]
                    /\ accepted'[u][h] # x
      <4>1. CASE u = r
        BY <1>7, <1>9, <1>10, <3>1, <4>1 DEF Elems
      <4>2. CASE u # r
        BY <1>6, <1>10, <3>1, <4>2 DEF Elems
      <4> QED  BY <4>1, <4>2
    <3>4. /\ \/ m = r /\ i = l + 1 /\ accepted'[m][i] = x
             \/ i \in DOMAIN accepted[m] /\ accepted'[m][i] = accepted[m][i] /\ accepted'[m][i] # x
          /\ \/ k = r /\ j = l + 1 /\ accepted'[k][j] = x
             \/ j \in DOMAIN accepted[k] /\ accepted'[k][j] = accepted[k][j] /\ accepted'[k][j] # x
      BY <3>1
    <3>2. CASE accepted'[m][i] = x
      BY <2>3, <3>4, <3>2
    <3>3. CASE accepted'[m][i] # x
      <4>1. /\ i \in DOMAIN accepted[m] /\ accepted'[m][i] = accepted[m][i]
            /\ j \in DOMAIN accepted[k] /\ accepted'[k][j] = accepted[k][j]
        BY <2>3, <3>4, <3>3
      <4>2. accepted[m][i] = accepted[k][j]
        BY <2>3, <4>1
      <4> QED  BY <4>1, <4>2 DEF Stored, Placed, Origins
    <3> QED  BY <3>2, <3>3
  <2> QED  BY <2>1, <2>2, <2>3 DEF Origins
<1>17. Safe'
  <2>1. ASSUME NEW m \in Writers, w'[m].pc # "stopped", NEW y \in Elems(accepted[m])'
        PROVE  y \in Parsed' \/ Held(m, y)' \/ Queued(m, y)'
    <3>1. CASE y \in Elems(accepted[m])
      BY <1>1, <1>13, <1>14, <1>15, <2>1, <3>1 DEF Stored, Placed, Safe
    <3>2. CASE y \notin Elems(accepted[m])
      BY <1>11, <1>15, <2>1, <3>2
    <3> QED  BY <3>1, <3>2
  <2> QED  BY <2>1 DEF Safe
<1>18. ASSUME NEW i \in DOMAIN t, NEW j \in DOMAIN t
       PROVE  /\ HeldBefore(r, t[i], t[j])' => i < j
              /\ QueuedBefore(r, t[i], t[j])' => i < j
              /\ Held(r, t[i])' /\ Queued(r, t[j])' => i < j
              /\ t[i] \in Parsed' /\ Queued(r, t[j])' => i < j
              /\ t[i] \in Parsed' /\ Held(r, t[j])' => i <= j
  <2>1. PICK y, z : y = t[i] /\ z = t[j]
    OBVIOUS
  <2>2. (HeldBefore(r, y, z) => Held(r, y) /\ Held(r, z)) /\ (QueuedBefore(r, y, z) => Queued(r, y) /\ Queued(r, z))
    BY DEF HeldBefore, Held, QueuedBefore, Queued
  <2>3. CASE i = l + 1
    <3>1. y = x
      BY <1>9, <2>1, <2>3
    <3>2. ~HeldBefore(r, y, z) /\ ~QueuedBefore(r, y, z) /\ ~Held(r, y) /\ ~Queued(r, y) /\ y \notin Parsed
      BY <1>12, <2>2, <3>1
    <3> QED  BY <1>13, <1>14, <1>15, <2>1, <3>2
  <2>4. CASE i \in DOMAIN s /\ j = l + 1
    <3>1. i < j /\ i <= j
      BY <1>9, <2>4
    <3> QED  BY <3>1
  <2>5. CASE i \in DOMAIN s /\ j \in DOMAIN s
    <3>1. y = accepted[r][i] /\ z = accepted[r][j] /\ i \in DOMAIN accepted[r] /\ j \in DOMAIN accepted[r]
      BY <1>7, <1>9, <2>1, <2>5
    <3>2. y # x /\ z # x
      BY <1>10, <3>1 DEF Elems
    <3>3. /\ HeldBefore(r, y, z) => i < j
          /\ QueuedBefore(r, y, z) => i < j
          /\ Held(r, y) /\ Queued(r, z) => i < j
          /\ y \in Parsed /\ Queued(r, z) => i < j
          /\ y \in Parsed /\ Held(r, z) => i <= j
      BY <3>1 DEF Stored, Placed, Ordered
    <3>4. /\ HeldBefore(r, y, z)' => i < j
          /\ QueuedBefore(r, y, z)' => i < j
          /\ Held(r, y)' /\ Queued(r, z)' => i < j
          /\ y \in Parsed' /\ Queued(r, z)' => i < j
          /\ y \in Parsed' /\ Held(r, z)' => i <= j
      BY <1>13, <1>14, <1>15, <3>2, <3>3
    <3> QED  BY <2>1, <3>4
  <2> QED  BY <1>9, <2>3, <2>4, <2>5
<1>19. Ordered'
  <2> SUFFICES ASSUME NEW m \in Writers, NEW i \in DOMAIN accepted'[m], NEW j \in DOMAIN accepted'[m]
               PROVE  /\ HeldBefore(m, accepted[m][i], accepted[m][j])' => i < j
                      /\ QueuedBefore(m, accepted[m][i], accepted[m][j])' => i < j
                      /\ Held(m, accepted[m][i])' /\ Queued(m, accepted[m][j])' => i < j
                      /\ accepted'[m][i] \in Parsed' /\ Queued(m, accepted[m][j])' => i < j
                      /\ accepted'[m][i] \in Parsed' /\ Held(m, accepted[m][j])' => i <= j
    BY DEF Ordered
  <2>1. PICK y, z : y = accepted'[m][i] /\ z = accepted'[m][j]
    OBVIOUS
  <2>2. /\ HeldBefore(m, y, z)' => i < j
        /\ QueuedBefore(m, y, z)' => i < j
        /\ Held(m, y)' /\ Queued(m, z)' => i < j
        /\ y \in Parsed' /\ Queued(m, z)' => i < j
        /\ y \in Parsed' /\ Held(m, z)' => i <= j
    <3>1. CASE m = r
      BY <1>7, <1>18, <2>1, <3>1
    <3>2. CASE m # r
      <4>1. i \in DOMAIN accepted[m] /\ j \in DOMAIN accepted[m] /\ y = accepted[m][i] /\ z = accepted[m][j]
        BY <1>6, <2>1, <3>2
      <4> QED  BY <1>13, <1>14, <3>2, <4>1 DEF Stored, Placed, Ordered
    <3> QED  BY <3>1, <3>2
  <2> QED  BY <2>1, <2>2 DEF Held, HeldBefore, Queued, QueuedBefore
<1>20. FileOrder'
  <2> SUFFICES ASSUME NEW m \in Writers, NEW i \in DOMAIN accepted'[m], NEW j \in DOMAIN accepted'[m],
                      i < j, accepted'[m][j] \in Parsed
               PROVE  \E k \in OkLines : /\ file[k].item = accepted'[m][i]
                                         /\ \A u \in OkLines : file[u].item = accepted'[m][j] => k < u
    BY <1>1, <1>13 DEF FileOrder, OkLines
  <2>1. CASE m # r
    BY <1>6, <2>1 DEF Stored, FileOrder
  <2>2. CASE m = r
    <3>1. j # l + 1
      BY <1>7, <1>9, <1>12, <2>2
    <3>2. j \in DOMAIN s /\ i \in DOMAIN s /\ t[i] = s[i] /\ t[j] = s[j]
      BY <1>7, <1>9, <2>2, <3>1
    <3> QED  BY <1>7, <2>2, <3>2 DEF Stored, FileOrder
  <2> QED  BY <2>1, <2>2
<1>21. AckedDurable'
  BY <1>1, <1>13 DEF Stored, AckedDurable
<1> QED  BY <1>16, <1>17, <1>19, <1>20, <1>21 DEF Stored, Placed

\* The initial state.
LEMMA InitStored ==
    ASSUME Init
    PROVE  Stored
<1>1. /\ file = <<>> /\ acked = {}
      /\ \A n \in Writers : chan[n] = <<>> /\ accepted[n] = <<>>
  BY DEF Init
<1>2. \A n \in Writers : w[n].pending = <<>>
  BY InitWriters
<1>3. Parsed = {} /\ \A n \in Writers : Elems(accepted[n]) = {}
  BY <1>1 DEF Parsed, OkLines, Elems
<1>4. \A n \in Writers : \A x : ~Held(n, x) /\ ~Queued(n, x)
  BY <1>1, <1>2 DEF Held, Queued
<1>5. Origins /\ Safe /\ Ordered
  BY <1>1, <1>3, <1>4 DEF Origins, Safe, Ordered
<1>6. FileOrder /\ AckedDurable
  BY <1>1, <1>3 DEF FileOrder, AckedDurable
<1> QED  BY <1>5, <1>6 DEF Stored, Placed

\* Every step preserves it.
LEMMA StepStored ==
    ASSUME Basics, Control, Stored, [Next]_vars
    PROVE  Stored'
<1>1. CASE UNCHANGED vars
  BY <1>1, StoreStored
<1>2. CASE \E n \in Writers : WriterStep(n)
  <2>1. PICK n \in Writers : WriterStep(n)
    BY <1>2
  <2> QED  BY <2>1, ReceiveStored, OpenStored, MetaStored, ItemStored, DoneStored
           DEF WriterStep
<1>3. CASE OperationStep
  <2>1. "Flush" \in CmdOps \ {"Add"}
    BY DEF CmdOps
  <2> QED  BY <1>3, <2>1, BarrierStored, StoreStored DEF OperationStep
<1>4. CASE StoreOp
  BY <1>4, AppendStored, BarrierStored, StoreStored DEF StoreOp
<1>5. CASE Cancel \/ OpenForUpdate \/ WriteUpdate \/ Crash
  BY <1>5, StoreStored, UpdateStored, CrashStored
<1> QED  BY <1>1, <1>2, <1>3, <1>4, <1>5 DEF Next

(***************************************************************************)
(* The ordinals of a paginated file.                                       *)
(***************************************************************************)

\* x is the record that n writes next, under its next ordinal.
Upcoming(n, x) == IF w[n].meta THEN x = Meta ELSE w[n].pending # <<>> /\ x = Head(w[n].pending)

\* The ordinals in the file are below the writer's next one, except that of a
\* line whose write failed, which will be written again.
Ordinals ==
    Paginated =>
        /\ \A i \in DOMAIN file : BaseOrdinal <= file[i].ord
        /\ \A n \in Writers : ~Gone(n) =>
              /\ BaseOrdinal <= w[n].next
              /\ \A i \in OkLines : \/ file[i].ord < w[n].next
                                    \/ file[i].ord = w[n].next /\ Upcoming(n, file[i].item)

Numbered == Ordinals /\ OrdinalsIdentify

\* A paginated file has one appender.
LEMMA PaginatedAlone ==
    ASSUME Isolated, Basics, Control, Paginated
    PROVE  \A n, m \in Writers : ~Gone(n) /\ ~Gone(m) => n = m
<1>1. Alone(mode)
  BY DEF Isolated, Basics, Paginated
<1> QED  BY <1>1 DEF Control, Solo

\* The ordinals of the lines.
LEMMA LineOrdinals ==
    ASSUME FileOK
    PROVE  \A i \in DOMAIN file : i \in Nat /\ file[i].ord \in Nat /\ file[i].item \in Records
<1>1. \A i \in DOMAIN file : file[i] \in Lines /\ i \in Nat
  BY DEF FileOK
<1> QED  BY <1>1, Constants DEF Lines

\* The one appender writes what is next, or moves on when it has.
LEMMA NumberedGrows ==
    ASSUME Basics, Basics', Numbered, Paginated, NEW n \in Writers, NEW x \in Records, NEW o \in 0..NoOrdinal,
           NEW b \in BOOLEAN, Grows(x, o, b),
           Added(x, o, b) => o = w[n].next /\ Upcoming(n, x) /\ ~Gone(n),
           \A m \in Writers : ~Gone(m)' =>
              /\ ~Gone(m) /\ (m = n \/ file' = file)
              /\ \/ w'[m].next = w[m].next /\ \A y \in Records : Upcoming(m, y) => Upcoming(m, y)'
                 \/ w'[m].next = w[m].next + 1
    PROVE  Numbered'
<1>1. /\ \A k \in OkLines : k \in OkLines' /\ file'[k] = file[k] /\ k \in Nat /\ k <= Len(file)
      /\ \A k \in OkLines' : k \in OkLines \/ (b /\ k = Len(file) + 1 /\ file'[k].item = x /\ file'[k].ord = o)
      /\ Len(file) \in Nat
      /\ \A k \in DOMAIN file' : \/ k \in DOMAIN file /\ file'[k] = file[k]
                                 \/ k = Len(file) + 1 /\ file'[k].ord = o
  BY GrownLines DEF Basics
<1>2. b => Added(x, o, b)
  BY DEF Grows
<1>3. /\ \A i \in DOMAIN file : BaseOrdinal <= file[i].ord
      /\ \A m \in Writers : ~Gone(m) =>
            /\ BaseOrdinal <= w[m].next
            /\ \A i \in OkLines : \/ file[i].ord < w[m].next
                                  \/ file[i].ord = w[m].next /\ Upcoming(m, file[i].item)
  BY DEF Numbered, Ordinals
<1>4. \A i \in OkLines : i \in DOMAIN file /\ file[i].ord \in Nat /\ file[i].item \in Records
  BY LineOrdinals DEF Basics, OkLines
<1>5. \A m \in Writers : w[m].next \in Nat /\ w'[m].next \in Nat /\ BaseOrdinal \in Nat
  <2>1. \A m \in Writers : w[m].next \in 0..NoOrdinal
    BY BasicTypes, FieldTypes
  <2>2. \A m \in Writers : w'[m].next \in 0..NoOrdinal
    BY DEF Basics, WritersOK, WriterStates
  <2> QED  BY <2>1, <2>2, Constants
<1>6. \A i \in DOMAIN file' : BaseOrdinal <= file'[i].ord
  <2>1. ASSUME NEW i \in DOMAIN file' PROVE BaseOrdinal <= file'[i].ord
    <3>1. CASE i \in DOMAIN file /\ file'[i] = file[i]
      BY <1>3, <3>1
    <3>2. CASE file' = file
      BY <1>3, <3>2
    <3>3. CASE Added(x, o, b) /\ file'[i].ord = o
      BY <1>3, <3>3
    <3> QED  BY <1>1, <3>1, <3>2, <3>3 DEF Grows
  <2> QED  BY <2>1
<1>7. ASSUME NEW m \in Writers, ~Gone(m)'
      PROVE  /\ BaseOrdinal <= w'[m].next
             /\ \A i \in OkLines' : \/ file'[i].ord < w'[m].next
                                    \/ file'[i].ord = w'[m].next /\ Upcoming(m, file[i].item)'
  <2>1. /\ ~Gone(m) /\ (m = n \/ file' = file)
        /\ \/ w'[m].next = w[m].next /\ \A y \in Records : Upcoming(m, y) => Upcoming(m, y)'
           \/ w'[m].next = w[m].next + 1
    BY <1>7
  <2>2. BaseOrdinal <= w'[m].next
    BY <1>3, <1>5, <2>1
  <2>3. ASSUME NEW y \in Records, NEW k \in Nat, k < w[m].next \/ (k = w[m].next /\ Upcoming(m, y))
        PROVE  k < w'[m].next \/ (k = w'[m].next /\ Upcoming(m, y)')
    BY <1>5, <2>1, <2>3
  <2>4. ASSUME NEW i \in OkLines'
        PROVE  \/ file'[i].ord < w'[m].next
               \/ file'[i].ord = w'[m].next /\ Upcoming(m, file[i].item)'
    <3>0. PICK y, k : y = file'[i].item /\ k = file'[i].ord
      OBVIOUS
    <3>1. CASE i \in OkLines
      <4>1. y \in Records /\ k \in Nat /\ (k < w[m].next \/ (k = w[m].next /\ Upcoming(m, y)))
        BY <1>1, <1>3, <1>4, <2>1, <3>0, <3>1
      <4>2. k < w'[m].next \/ (k = w'[m].next /\ Upcoming(m, y)')
        BY <2>3, <4>1
      <4> QED  BY <3>0, <4>2 DEF Upcoming
    <3>2. CASE i \notin OkLines
      <4>1. b /\ y = x /\ k = o /\ i = Len(file) + 1
        BY <1>1, <3>0, <3>2
      <4>2. m = n
        <5>1. file' # file
          BY <1>2, <1>1, <4>1, <3>2 DEF OkLines
        <5> QED  BY <2>1, <5>1
      <4>3. y \in Records /\ k \in Nat /\ k = w[m].next /\ Upcoming(m, y)
        BY <1>2, <1>5, <4>1, <4>2
      <4>4. k < w'[m].next \/ (k = w'[m].next /\ Upcoming(m, y)')
        BY <2>3, <4>3
      <4> QED  BY <3>0, <4>4 DEF Upcoming
    <3> QED  BY <3>1, <3>2
  <2> QED  BY <2>2, <2>4
<1>8. Ordinals'
  BY <1>6, <1>7 DEF Ordinals
<1>9. OrdinalsIdentify'
  <2> SUFFICES ASSUME NEW i \in OkLines', NEW j \in OkLines', i < j
               PROVE  \/ file'[i].ord < file'[j].ord
                      \/ file'[i].ord = file'[j].ord /\ file'[i].item = file'[j].item
    BY DEF OrdinalsIdentify
  <2>1. CASE i \in OkLines /\ j \in OkLines
    BY <1>1, <2>1 DEF Numbered, OrdinalsIdentify
  <2>2. CASE i \in OkLines /\ j \notin OkLines
    <3>1. b /\ file'[j].item = x /\ file'[j].ord = o /\ file'[i] = file[i]
      BY <1>1, <2>2
    <3>2. o = w[n].next /\ Upcoming(n, x) /\ ~Gone(n)
      BY <1>2, <3>1
    <3>3. \/ file[i].ord < w[n].next
          \/ file[i].ord = w[n].next /\ Upcoming(n, file[i].item)
      BY <1>3, <2>2, <3>2
    <3>4. Upcoming(n, file[i].item) => file[i].item = x
      BY <3>2 DEF Upcoming
    <3> QED  BY <3>1, <3>2, <3>3, <3>4
  <2>3. CASE i \notin OkLines
    BY <1>1, <2>3
  <2> QED  BY <2>1, <2>2, <2>3
<1> QED  BY <1>8, <1>9 DEF Numbered

\* Legacy lines have no ordinals.
LEMMA NumberedLegacy ==
    ASSUME mode' = mode, ~Paginated
    PROVE  Numbered'
BY DEF Numbered, Ordinals, OrdinalsIdentify, Paginated

\* Writer m keeps its place in the file, or stops.
Steady(m) == ~Gone(m)' => /\ ~Gone(m) /\ w'[m].next = w[m].next
                          /\ \A y \in Records : Upcoming(m, y) => Upcoming(m, y)'

\* A writer that keeps what it is about to write.
LEMMA SteadyWriter ==
    ASSUME NEW m \in Writers, w'[m].meta = w[m].meta, w'[m].next = w[m].next,
           w'[m].pending = w[m].pending, ~Gone(m)' => ~Gone(m)
    PROVE  Steady(m)
BY DEF Steady, Upcoming

\* The other writers keep their place.
LEMMA TurnsSteady ==
    ASSUME NEW n \in Writers, NEW p, NEW c, NEW o, Turns(n, p, c, o, w[n].meta, w[n].pending, w[n].next),
           ~Gone(n)
    PROVE  \A m \in Writers : Steady(m)
<1>1. ASSUME NEW m \in Writers PROVE Steady(m)
  <2>1. w'[m].meta = w[m].meta /\ w'[m].next = w[m].next /\ w'[m].pending = w[m].pending
    BY DEF Turns
  <2>2. ~Gone(m)' => ~Gone(m)
    BY DEF Turns, Gone
  <2> QED  BY <2>1, <2>2, SteadyWriter
<1> QED  BY <1>1

\* Nothing is written.
LEMMA NumberedStays ==
    ASSUME Basics, Basics', Numbered, mode' = mode, file' = file, ended => ended',
           \A m \in Writers : Steady(m)
    PROVE  Numbered'
<1>1. CASE ~Paginated
  BY <1>1, NumberedLegacy
<1>2. CASE Paginated
  <2>1. PICK b \in BOOLEAN, n \in Writers, x \in Records, o \in 0..NoOrdinal : b = FALSE
    BY Constants
  <2>2. Grows(x, o, b) /\ ~Added(x, o, b)
    <3>1. Len(Append(file, Line(x, o, b))) # Len(file)
      <4>1. Line(x, o, b) \in Lines /\ file \in Seq(Lines)
        BY DEF Line, Lines, Basics, FileOK
      <4> QED  BY <4>1
    <3> QED  BY <2>1, <3>1 DEF Grows, Added
  <2>3. \A m \in Writers : ~Gone(m)' =>
              /\ ~Gone(m) /\ (m = n \/ file' = file)
              /\ \/ w'[m].next = w[m].next /\ \A y \in Records : Upcoming(m, y) => Upcoming(m, y)'
                 \/ w'[m].next = w[m].next + 1
    BY DEF Steady
  <2> QED  BY <1>2, <2>2, <2>3, NumberedGrows
<1> QED  BY <1>1, <1>2

\* A line is written that will be written again.
LEMMA NumberedRetries ==
    ASSUME Isolated, Basics, Basics', Control, Numbered, mode' = mode, NEW n \in Writers, ~Gone(n),
           NEW x \in Records, NEW b \in BOOLEAN, OrdinalOf(n) \in 0..NoOrdinal, Grows(x, OrdinalOf(n), b),
           Upcoming(n, x), \A m \in Writers : Steady(m)
    PROVE  Numbered'
<1>1. CASE ~Paginated
  BY <1>1, NumberedLegacy
<1>2. CASE Paginated
  <2>1. PICK o \in 0..NoOrdinal : o = OrdinalOf(n)
    OBVIOUS
  <2>2. o = w[n].next /\ Grows(x, o, b)
    BY <1>2, <2>1 DEF OrdinalOf
  <2>3. \A m \in Writers : ~Gone(m)' =>
              /\ ~Gone(m) /\ (m = n \/ file' = file)
              /\ \/ w'[m].next = w[m].next /\ \A y \in Records : Upcoming(m, y) => Upcoming(m, y)'
                 \/ w'[m].next = w[m].next + 1
    BY <1>2, PaginatedAlone DEF Steady
  <2> QED  BY <1>2, <2>2, <2>3, NumberedGrows
<1> QED  BY <1>1, <1>2

\* A line is written, and the writer moves on.
LEMMA NumberedAdvances ==
    ASSUME Isolated, Basics, Basics', Control, Numbered, mode' = mode, NEW n \in Writers, ~Gone(n),
           NEW x \in Records, NEW b \in BOOLEAN, OrdinalOf(n) \in 0..NoOrdinal, Grows(x, OrdinalOf(n), b),
           Upcoming(n, x), NEW p, NEW c, NEW h, NEW m, NEW q, Turns(n, p, c, h, m, q, Advance(w[n].next))
    PROVE  Numbered'
<1>1. CASE ~Paginated
  BY <1>1, NumberedLegacy
<1>2. CASE Paginated
  <2>1. PICK o \in 0..NoOrdinal : o = OrdinalOf(n)
    OBVIOUS
  <2>2. o = w[n].next /\ Grows(x, o, b)
    BY <1>2, <2>1 DEF OrdinalOf
  <2>3. ASSUME NEW k \in Writers, ~Gone(k)'
        PROVE  /\ ~Gone(k) /\ (k = n \/ file' = file)
               /\ \/ w'[k].next = w[k].next /\ \A y \in Records : Upcoming(k, y) => Upcoming(k, y)'
                  \/ w'[k].next = w[k].next + 1
    <3>1. CASE k = n
      BY <1>2, <3>1 DEF Turns, Advance
    <3>2. CASE k # n
      <4>1. w'[k] = w[k]
        BY <3>2 DEF Turns
      <4>2. ~Gone(k)
        BY <2>3, <4>1 DEF Gone
      <4> QED  BY <1>2, <3>2, <4>2, PaginatedAlone
    <3> QED  BY <3>1, <3>2
  <2> QED  BY <1>2, <2>2, <2>3, NumberedGrows
<1> QED  BY <1>1, <1>2

\* A failed write.
LEMMA FailedSteady ==
    ASSUME Basics, NEW n \in Writers, ~Gone(n), Failed(n)
    PROVE  \A m \in Writers : Steady(m)
<1>1. PICK p \in {"open", "recv"} :
          Turns(n, p, w[n].cmd, FALSE, w[n].meta, w[n].pending, w[n].next)
  BY BasicTypes, FailedEffect
<1>2. PICK f : f = FALSE
  OBVIOUS
<1>3. Turns(n, p, w[n].cmd, f, w[n].meta, w[n].pending, w[n].next)
  BY <1>1, <1>2
<1> QED  BY <1>3, TurnsSteady

\* The file is opened, or opening fails; a command is answered.
LEMMA OpenNumbered ==
    ASSUME Basics, Basics', Numbered, mode' = mode, NEW n \in Writers,
           OpenLog(n) \/ Written(n) \/ CloseWriter(n)
    PROVE  Numbered'
<1>1. ~Gone(n) /\ file' = file
  BY DEF OpenLog, Written, CloseWriter, Gone
<1>2. (ended => ended') /\ \A m \in Writers : Steady(m)
  <2>1. CASE Written(n) \/ CloseWriter(n)
    <3>1. PICK p \in {"stopped", "recv"} : w' = [w EXCEPT ![n].pc = p] /\ ended' = ended
      BY <2>1 DEF Written, CloseWriter, AfterReply
    <3>2. p \in WriterPCs
      BY DEF WriterPCs
    <3>3. Turns(n, p, w[n].cmd, w[n].open, w[n].meta, w[n].pending, w[n].next)
      BY <3>1, <3>2, BasicTypes, PcTurns
    <3> QED  BY <1>1, <3>1, <3>3, TurnsSteady
  <2>2. CASE Failed(n) /\ ended' \in {ended, TRUE}
    <3>1. ended => ended'
      BY <2>2
    <3> QED  BY <1>1, <2>2, <3>1, FailedSteady
  <2>3. CASE /\ w' = [w EXCEPT ![n].pc = "meta", ![n].open = TRUE,
                               ![n].deferred = IF w[n].open THEN @ ELSE FALSE]
             /\ ended' = IF w[n].open THEN ended ELSE TRUE
    <3>1. PICK d \in BOOLEAN : d = IF w[n].open THEN w[n].deferred ELSE FALSE
      BY BasicTypes, FieldTypes
    <3>2. w' = [w EXCEPT ![n].pc = "meta", ![n].open = TRUE, ![n].deferred = d]
      BY <2>3, <3>1
    <3>3. PICK o : o = TRUE
      OBVIOUS
    <3>4. Turns(n, "meta", w[n].cmd, o, w[n].meta, w[n].pending, w[n].next)
      BY <3>2, <3>3, BasicTypes, OpenTurns
    <3> QED  BY <1>1, <2>3, <3>4, TurnsSteady
  <2> QED  BY <2>1, <2>2, <2>3 DEF OpenLog
<1> QED  BY <1>1, <1>2, NumberedStays

\* The SessionMeta record.
LEMMA MetaNumbered ==
    ASSUME Isolated, Basics, Basics', Control, Numbered, mode' = mode, NEW n \in Writers, WriteMeta(n)
    PROVE  Numbered'
<1>1. /\ ~Gone(n) /\ ended /\ ended \in BOOLEAN /\ "items" \in WriterPCs /\ Meta \in Records
  BY Constants DEF WriteMeta, Control, Clean, Gone, Basics, FileOK, WriterPCs
<1>2. CASE /\ w' = [w EXCEPT ![n].pc = "items"]
           /\ UNCHANGED <<file, ended, client, acked, count>>
  <2>1. Turns(n, "items", w[n].cmd, w[n].open, w[n].meta, w[n].pending, w[n].next)
    BY <1>1, <1>2, BasicTypes, PcTurns
  <2> QED  BY <1>1, <1>2, <2>1, TurnsSteady, NumberedStays
<1>3. CASE /\ w[n].meta /\ Put(Line(Meta, OrdinalOf(n), TRUE), "whole")
           /\ w' = [w EXCEPT ![n].pc = "items", ![n].meta = FALSE, ![n].next = Advance(@)]
           /\ UNCHANGED <<client, acked, count>>
  <2>1. Advance(w[n].next) \in 0..NoOrdinal /\ OrdinalOf(n) \in 0..NoOrdinal /\ "whole" \in Outcomes
    BY <1>3, OrdinalRange DEF Outcomes
  <2>2. Turns(n, "items", w[n].cmd, w[n].open, FALSE, w[n].pending, Advance(w[n].next))
    BY <1>3, <2>1, BasicTypes, MetaTurns
  <2>3. PICK m : Turns(n, "items", w[n].cmd, w[n].open, m, w[n].pending, Advance(w[n].next))
    BY <2>2
  <2>4. PICK b \in BOOLEAN : Grows(Meta, OrdinalOf(n), b)
    BY <1>1, <1>3, <2>1, PutAppends
  <2>5. Upcoming(n, Meta)
    BY <1>3 DEF Upcoming
  <2> QED  BY <1>1, <2>1, <2>3, <2>4, <2>5, NumberedAdvances
<1>4. CASE /\ w[n].meta /\ Failed(n)
           /\ \E outcome \in Outcomes \ {"whole"} : Put(Line(Meta, OrdinalOf(n), TRUE), outcome)
  <2>1. OrdinalOf(n) \in 0..NoOrdinal
    BY <1>4, OrdinalRange
  <2>2. PICK b \in BOOLEAN : Grows(Meta, OrdinalOf(n), b)
    BY <1>1, <1>4, PutAppends
  <2>3. Upcoming(n, Meta)
    BY <1>4 DEF Upcoming
  <2>4. \A m \in Writers : Steady(m)
    BY <1>1, <1>4, FailedSteady
  <2> QED  BY <1>1, <2>1, <2>2, <2>3, <2>4, NumberedRetries
<1> QED  BY <1>2, <1>3, <1>4 DEF WriteMeta

\* A pending item.
LEMMA ItemNumbered ==
    ASSUME Isolated, Basics, Basics', Control, Numbered, mode' = mode, NEW n \in Writers, WriteItem(n)
    PROVE  Numbered'
<1>1. /\ ~Gone(n) /\ w[n].pc = "items" /\ ended /\ ended \in BOOLEAN
      /\ w[n].pending # <<>> /\ ~w[n].meta
  BY DEF WriteItem, Control, Clean, Gone, Basics, FileOK, WritersOK
<1>2. PICK x \in Items : x = Head(w[n].pending) /\ x \in Records
  BY <1>1, FirstHeads, Constants
<1>3. w[n].pending \in Seq(Items) /\ Tail(w[n].pending) \in Seq(Items) /\ Upcoming(n, x)
  BY <1>1, <1>2, BasicTypes, FieldTypes DEF Upcoming
<1>4. CASE /\ ~Exhausted(n) /\ Put(Line(x, OrdinalOf(n), TRUE), "whole")
           /\ w' = [w EXCEPT ![n].pending = Tail(@), ![n].next = Advance(@)]
  <2>1. Advance(w[n].next) \in 0..NoOrdinal /\ OrdinalOf(n) \in 0..NoOrdinal /\ "whole" \in Outcomes
    BY <1>4, OrdinalRange DEF Outcomes
  <2>2. Turns(n, w[n].pc, w[n].cmd, w[n].open, w[n].meta, Tail(w[n].pending), Advance(w[n].next))
    BY <1>3, <1>4, <2>1, BasicTypes, ItemTurns
  <2>3. PICK b \in BOOLEAN : Grows(x, OrdinalOf(n), b)
    BY <1>1, <1>4, <2>1, PutAppends
  <2> QED  BY <1>1, <1>2, <1>3, <2>1, <2>2, <2>3, NumberedAdvances
<1>5. CASE /\ ~Exhausted(n) /\ Failed(n)
           /\ \E outcome \in Outcomes \ {"whole"} : Put(Line(x, OrdinalOf(n), TRUE), outcome)
  <2>1. OrdinalOf(n) \in 0..NoOrdinal
    BY <1>5, OrdinalRange
  <2>2. PICK b \in BOOLEAN : Grows(x, OrdinalOf(n), b)
    BY <1>1, <1>5, PutAppends
  <2>3. \A m \in Writers : Steady(m)
    BY <1>1, <1>5, FailedSteady
  <2> QED  BY <1>1, <1>2, <1>3, <2>1, <2>2, <2>3, NumberedRetries
<1>6. CASE Failed(n) /\ UNCHANGED <<file, ended, count>>
  BY <1>1, <1>6, FailedSteady, NumberedStays
<1> QED  BY <1>2, <1>4, <1>5, <1>6 DEF WriteItem

\* A command is received: what is next stays next.
LEMMA ReceiveNumbered ==
    ASSUME Basics, Basics', Numbered, mode' = mode, NEW n \in Writers, Receive(n)
    PROVE  Numbered'
<1>1. UNCHANGED <<file, ended>> /\ w[n].pc = "recv"
  BY DEF Receive
<1>2. PICK c \in Commands, p \in WriterPCs, q \in Seq(Items) :
              /\ q = IF Adds(c) THEN Append(w[n].pending, c.item) ELSE w[n].pending
              /\ Turns(n, p, c, w[n].open, w[n].meta, q, w[n].next)
  BY ReceiveEffect
<1>3. PICK s \in Seq(Items) : s = w[n].pending
  BY BasicTypes, FieldTypes
<1>4. s # <<>> => q # <<>> /\ Head(q) = Head(s)
  <2>1. CASE Adds(c)
    <3>1. q = Append(s, c.item)
      BY <1>2, <1>3, <2>1
    <3>2. q # <<>>
      BY <3>1
    <3>3. s # <<>> => q[1] = s[1]
      BY <3>1
    <3> QED  BY <3>2, <3>3
  <2>2. CASE ~Adds(c)
    BY <1>2, <1>3, <2>2
  <2> QED  BY <2>1, <2>2
<1>5. ASSUME NEW m \in Writers PROVE Steady(m)
  <2>1. CASE m = n
    <3>1. w'[n].meta = w[n].meta /\ w'[n].pending = q /\ w'[n].next = w[n].next /\ ~Gone(n)
      BY <1>1, <1>2 DEF Turns, Gone
    <3>2. \A y \in Records : Upcoming(n, y) => Upcoming(n, y)'
      BY <1>3, <1>4, <3>1 DEF Upcoming
    <3> QED  BY <2>1, <3>1, <3>2 DEF Steady
  <2>2. CASE m # n
    <3>1. w'[m] = w[m]
      BY <1>2, <2>2 DEF Turns
    <3> QED  BY <3>1 DEF Steady, Upcoming, Gone
  <2> QED  BY <2>1, <2>2
<1> QED  BY <1>1, <1>5, NumberedStays

\* Steps that leave the writers where they are.
LEMMA StoreNumbered ==
    ASSUME Basics, Basics', Numbered, mode' = mode,
           \/ \E i \in Items : AppendItems(i)
           \/ \E op \in CmdOps \ {"Add"} : Barrier(op)
           \/ Project \/ Discard \/ Cancel \/ WriterGone \/ OpenForUpdate \/ UNCHANGED vars
    PROVE  Numbered'
<1>1. file' = file /\ (ended => ended')
  <2>1. CASE OpenForUpdate
    BY <2>1 DEF OpenForUpdate
  <2>2. CASE \/ \E i \in Items : AppendItems(i)
             \/ \E op \in CmdOps \ {"Add"} : Barrier(op)
             \/ Project \/ Discard \/ Cancel \/ WriterGone \/ UNCHANGED vars
    <3>1. UNCHANGED <<file, ended>>
      BY <2>2 DEF AppendItems, Barrier, Project, Discard, Cancel, WriterGone, vars
    <3> QED  BY <3>1
  <2> QED  BY <2>1, <2>2
<1>2. \A m \in Writers : Steady(m)
  <2>1. CASE w' = w
    BY <2>1 DEF Steady, Upcoming, Gone
  <2>2. CASE Cancel
    <3>1. ASSUME NEW m \in Writers PROVE Steady(m)
      BY <2>2, CancelEffect, SteadyWriter DEF Gone
    <3> QED  BY <3>1
  <2> QED  BY <2>1, <2>2 DEF AppendItems, Barrier, Project, Discard, WriterGone, OpenForUpdate, vars
<1> QED  BY <1>1, <1>2, NumberedStays

\* A recorder is opened: it goes on behind the last line that parses.
LEMMA ResumeNumbered ==
    ASSUME Isolated, Basics, Basics', Control, Numbered, mode' = mode, NEW n \in Writers, Resume(n)
    PROVE  Numbered'
<1>1. CASE ~Paginated
  BY <1>1, NumberedLegacy
<1>2. CASE Paginated
  <2>1. PICK x \in 0..NoOrdinal, i \in OkLines :
           /\ Turns(n, "recv", Unused.cmd, TRUE, FALSE, <<>>, x)
           /\ \A j \in OkLines : j <= i
           /\ x = file[i].ord + 1
    BY <1>2, ResumeEffect
  <2>2. file' = file /\ OkLines' = OkLines /\ recorder = 0
    BY DEF Resume, OkLines
  <2>3. Alone(mode)
    BY <1>2 DEF Isolated, Basics, Paginated
  <2>4. \A m \in Writers : Gone(m)
    BY <2>2, <2>3, Constants DEF Control, Solo
  <2>5. \A m \in Writers : ~Gone(m)' => m = n
    BY <2>1, <2>4 DEF Turns, Gone
  <2>6. w'[n].next = file[i].ord + 1
    BY <2>1 DEF Turns
  <2>7. \A j \in OkLines : j \in DOMAIN file /\ j \in Nat /\ file[j].ord \in Nat
    BY LineOrdinals DEF Basics, OkLines
  <2>8. \A j \in OkLines : file[j].ord <= file[i].ord
    <3>1. ASSUME NEW j \in OkLines PROVE file[j].ord <= file[i].ord
      <4>1. j < i \/ j = i
        BY <2>1, <2>7
      <4>2. j < i => file[j].ord < file[i].ord \/ file[j].ord = file[i].ord
        BY <1>2 DEF Numbered, OrdinalsIdentify
      <4> QED  BY <2>7, <4>1, <4>2
    <3> QED  BY <3>1
  <2>9. \A j \in DOMAIN file : BaseOrdinal <= file[j].ord
    BY <1>2 DEF Numbered, Ordinals
  <2>10. BaseOrdinal <= w'[n].next /\ \A j \in OkLines : file[j].ord < w'[n].next
    BY <2>6, <2>7, <2>8, <2>9, Constants
  <2>11. Ordinals'
    BY <2>2, <2>5, <2>9, <2>10 DEF Ordinals
  <2>12. OrdinalsIdentify'
    BY <1>2, <2>2 DEF Numbered, OrdinalsIdentify
  <2> QED  BY <2>11, <2>12 DEF Numbered
<1> QED  BY <1>1, <1>2

\* The process crashes.
LEMMA CrashNumbered ==
    ASSUME Isolated, Basics, Basics', Control, Numbered, mode' = mode, Crash
    PROVE  Numbered'
<1>1. \A m \in Writers : Steady(m)
  <2>1. \A m \in Writers : Gone(m)'
    BY CrashWriters DEF Gone
  <2> QED  BY <2>1 DEF Steady
<1>2. CASE UNCHANGED <<file, ended>>
  BY <1>1, <1>2, NumberedStays
<1>3. CASE ~Paginated
  BY <1>3, NumberedLegacy
<1>4. CASE Paginated /\ \E line \in InFlight, outcome \in {"torn", "bare"} : Put(line, outcome)
  <2>1. PICK line \in InFlight, outcome \in Outcomes : Put(line, outcome)
    BY <1>4 DEF Outcomes
  <2>2. PICK x \in Records, o \in 0..NoOrdinal :
              /\ line = Line(x, o, TRUE)
              /\ \/ x = MetaUpdate /\ updater = "write"
                 \/ \E n \in Writers : /\ w[n].pc = "meta" /\ w[n].meta /\ x = Meta
                                       /\ o = OrdinalOf(n)
                 \/ \E n \in Writers : /\ w[n].pc = "items" /\ w[n].pending # <<>>
                                       /\ x = Head(w[n].pending) /\ x \in Items
                                       /\ o = OrdinalOf(n)
    BY InFlightLine
  <2>3. updater # "write"
    BY <1>4 DEF Basics, StoreOK
  <2>4. PICK n \in Writers : w[n].pc \in {"meta", "items"} /\ Upcoming(n, x) /\ o = OrdinalOf(n)
    BY <2>2, <2>3 DEF Upcoming, Basics, WritersOK
  <2>5. ~Gone(n) /\ ended /\ ended \in BOOLEAN /\ OrdinalOf(n) \in 0..NoOrdinal
    BY <2>4 DEF Control, Clean, Gone, Basics, FileOK
  <2>6. PICK b \in BOOLEAN : Grows(x, OrdinalOf(n), b)
    BY <2>1, <2>2, <2>4, <2>5, PutAppends
  <2> QED  BY <1>1, <2>4, <2>5, <2>6, NumberedRetries
<1> QED  BY <1>2, <1>3, <1>4 DEF Crash

\* The initial state.
LEMMA InitNumbered ==
    ASSUME Init
    PROVE  Numbered
<1>1. file = <<>> /\ OkLines = {}
  BY DEF Init, OkLines
<1>2. \A n \in Writers : ~Gone(n) => w[n].next = BaseOrdinal
  BY InitWriters DEF Gone
<1>3. BaseOrdinal <= BaseOrdinal
  BY Constants
<1> QED  BY <1>1, <1>2, <1>3 DEF Numbered, Ordinals, OrdinalsIdentify

\* Every step preserves it.
LEMMA StepNumbered ==
    ASSUME Isolated, Basics, Basics', Control, Numbered, [Next]_vars
    PROVE  Numbered'
<1>1. CASE UNCHANGED vars
  <2>1. mode' = mode
    BY <1>1 DEF vars
  <2> QED  BY <1>1, <2>1, StoreNumbered
<1>2. CASE \E n \in Writers : WriterStep(n)
  <2>1. PICK n \in Writers : WriterStep(n)
    BY <1>2
  <2> QED  BY <2>1, ReceiveNumbered, OpenNumbered, MetaNumbered, ItemNumbered
           DEF WriterStep
<1>3. CASE OperationStep
  <2>1. "Flush" \in CmdOps \ {"Add"}
    BY DEF CmdOps
  <2> QED  BY <1>3, <2>1, StoreNumbered DEF OperationStep
<1>4. CASE mode' = mode /\ StoreOp
  BY <1>4, StoreNumbered, ResumeNumbered DEF StoreOp
<1>5. CASE mode' = mode /\ (Cancel \/ OpenForUpdate \/ Crash)
  BY <1>5, StoreNumbered, CrashNumbered
<1>6. CASE mode' = mode /\ WriteUpdate
  BY <1>6, NumberedLegacy DEF WriteUpdate, Basics, StoreOK
<1> QED  BY <1>1, <1>2, <1>3, <1>4, <1>5, <1>6 DEF Next

(***************************************************************************)
(* The projection.                                                         *)
(***************************************************************************)

\* The checkpoint covers complete lines and is just behind their ordinals.
Checkpoint ==
    Paginated =>
        /\ db.off <= Complete
        /\ \A i \in OkLines : i <= db.off => file[i].ord < db.next
        /\ db.next = BaseOrdinal \/ \E i \in OkLines : i <= db.off /\ file[i].ord + 1 = db.next

Viewed == Checkpoint /\ ProjectionExact

\* The file grows, the projection stays: it is behind.
LEMMA ViewStays ==
    ASSUME Basics, Basics', Viewed, mode' = mode, db' = db,
           \E x \in Records, o \in 0..NoOrdinal, b \in BOOLEAN : Grows(x, o, b)
    PROVE  Viewed'
<1>1. PICK x \in Records, o \in 0..NoOrdinal, b \in BOOLEAN : Grows(x, o, b)
  OBVIOUS
<1>2. /\ \A k \in OkLines : k \in OkLines' /\ file'[k] = file[k] /\ k \in Nat /\ k <= Len(file)
      /\ \A k \in OkLines' : k \in OkLines \/ k = Len(file) + 1
      /\ Len(file) \in Nat
  BY <1>1, GrownLines DEF Basics
<1>3. /\ Complete \in Nat /\ Complete <= Len(file) /\ db.off \in Nat
      /\ Complete' \in Nat /\ Complete <= Complete'
  <2>1. Complete \in Nat /\ Complete <= Len(file) /\ db.off \in Nat /\ (ended => Complete = Len(file))
    BY CompleteRange DEF Basics, RecordsOK
  <2>2. /\ FileOK' /\ ended' \in BOOLEAN /\ ended \in BOOLEAN
    BY DEF Basics, FileOK
  <2>3. CASE file' = file /\ (ended => ended')
    <3>1. Len(file') = Len(file)
      BY <2>3
    <3> QED  BY <1>2, <2>1, <2>2, <2>3, <3>1 DEF Complete
  <2>4. CASE Added(x, o, b)
    <3>1. Len(file') = Len(file) + 1
      BY <2>4, AddedLines DEF Basics
    <3> QED  BY <1>2, <2>1, <2>2, <3>1 DEF Complete
  <2> QED  BY <1>1, <2>3, <2>4 DEF Grows
<1>4. Paginated' <=> Paginated
  BY DEF Paginated
<1>5. CASE ~Paginated
  BY <1>4, <1>5 DEF Viewed, Checkpoint, ProjectionExact
<1>6. CASE Paginated
  <2>1. /\ db.off <= Complete
        /\ \A i \in OkLines : i <= db.off => file[i].ord < db.next
        /\ db.next = BaseOrdinal \/ \E i \in OkLines : i <= db.off /\ file[i].ord + 1 = db.next
    BY <1>6 DEF Viewed, Checkpoint
  <2>2. db.rows = {file[i].item : i \in {k \in OkLines : k <= db.off}}
    BY <1>6 DEF Viewed, ProjectionExact
  <2>3. \A i \in OkLines' : i <= db.off => i \in OkLines
    BY <1>2, <1>3, <2>1
  <2>4. db.off <= Complete'
    BY <1>3, <2>1
  <2>5. \A i \in OkLines' : i <= db.off => file'[i].ord < db.next
    BY <1>2, <2>1, <2>3
  <2>6. db.next = BaseOrdinal \/ \E i \in OkLines' : i <= db.off /\ file'[i].ord + 1 = db.next
    BY <1>2, <2>1
  <2>7. {k \in OkLines' : k <= db.off} = {k \in OkLines : k <= db.off}
    BY <1>2, <2>3
  <2>8. {file'[i].item : i \in {k \in OkLines' : k <= db.off}} = {file[i].item : i \in {k \in OkLines : k <= db.off}}
    BY <1>2, <2>7
  <2> QED  BY <1>4, <2>2, <2>4, <2>5, <2>6, <2>8 DEF Viewed, Checkpoint, ProjectionExact
<1> QED  BY <1>5, <1>6

\* Among the lines with the ordinal of line k the first is covered by the
\* checkpoint or fresh, and they all have its item.
LEMMA FirstOfOrdinal ==
    ASSUME Basics, Numbered, Checkpoint, Paginated, NEW k \in OkLines, k <= Complete
    PROVE  \E f \in OkLines : /\ file[f].ord = file[k].ord /\ file[f].item = file[k].item
                              /\ f <= k /\ (f <= db.off \/ f \in Fresh)
<1>1. /\ \A i \in OkLines : i \in DOMAIN file /\ i \in Nat /\ file[i].ord \in Nat
      /\ db.off \in Nat /\ Complete \in Nat /\ BaseOrdinal \in Nat /\ db.next \in Nat
  BY LineOrdinals, CompleteRange, Constants DEF Basics, OkLines, RecordsOK
<1>2. PICK T : T = {i \in OkLines : i <= k /\ file[i].ord = file[k].ord}
  OBVIOUS
<1>3. T \subseteq Nat /\ k \in T
  BY <1>1, <1>2
<1>4. PICK f \in T : \A j \in T : f <= j
  BY <1>3, LeastOf
<1>5. f \in OkLines /\ f <= k /\ file[f].ord = file[k].ord
  BY <1>2, <1>4
<1>6. \A j \in OkLines : j < f => file[j].ord # file[f].ord
  <2>1. ASSUME NEW j \in OkLines, j < f, file[j].ord = file[f].ord PROVE FALSE
    <3>1. j \in Nat /\ f \in Nat /\ k \in Nat
      BY <1>1, <1>5
    <3>2. j <= k /\ j \in T
      BY <1>2, <1>5, <2>1, <3>1
    <3> QED  BY <1>4, <2>1, <3>1, <3>2
  <2> QED  BY <2>1
<1>7. \A j \in OkLines : j < f => file[j].ord < file[f].ord
  BY <1>5, <1>6 DEF Numbered, OrdinalsIdentify
<1>8. file[f].item = file[k].item
  <2>1. f < k \/ f = k
    BY <1>1, <1>5
  <2>2. f < k => file[f].item = file[k].item
    BY <1>1, <1>5 DEF Numbered, OrdinalsIdentify
  <2> QED  BY <2>1, <2>2
<1>9. ASSUME ~(f <= db.off)
      PROVE  f \in Fresh
  <2>1. db.off < f /\ f <= Complete
    BY <1>1, <1>5, <1>9
  <2>2. file[f].ord >= db.next
    <3>1. CASE db.next = BaseOrdinal
      BY <1>1, <1>5, <3>1 DEF Numbered, Ordinals
    <3>2. CASE \E i \in OkLines : i <= db.off /\ file[i].ord + 1 = db.next
      <4>1. PICK i \in OkLines : i <= db.off /\ file[i].ord + 1 = db.next
        BY <3>2
      <4>2. i < f
        BY <1>1, <1>5, <2>1, <4>1
      <4>3. file[i].ord < file[f].ord
        BY <1>7, <4>2
      <4> QED  BY <1>1, <1>5, <4>1, <4>3
    <3> QED  BY <3>1, <3>2 DEF Checkpoint
  <2> QED  BY <1>5, <1>7, <2>1, <2>2 DEF Fresh
<1> QED  BY <1>5, <1>8, <1>9

\* The projection catches up.
LEMMA ViewCatchesUp ==
    ASSUME Basics, Numbered, Viewed, Paginated, mode' = mode, UNCHANGED <<file, ended>>, db' = Projected
    PROVE  Viewed'
<1>1. /\ \A i \in OkLines : i \in DOMAIN file /\ i \in Nat /\ file[i].ord \in Nat
      /\ db.off \in Nat /\ Complete \in Nat /\ BaseOrdinal \in Nat /\ db.next \in Nat
      /\ db \in [off : Nat, next : 0..NoOrdinal, rows : SUBSET Records]
  BY LineOrdinals, CompleteRange, Constants DEF Basics, OkLines, RecordsOK
<1>2. /\ db.off <= Complete
      /\ \A i \in OkLines : i <= db.off => file[i].ord < db.next
      /\ db.next = BaseOrdinal \/ \E i \in OkLines : i <= db.off /\ file[i].ord + 1 = db.next
      /\ db.rows = {file[i].item : i \in {k \in OkLines : k <= db.off}}
  BY DEF Viewed, Checkpoint, ProjectionExact
<1>3. OkLines' = OkLines /\ Complete' = Complete /\ Paginated'
  BY DEF OkLines, Complete, Paginated
<1>4. \A f \in Fresh : f \in OkLines /\ f <= Complete /\ db.off < f /\ file[f].ord >= db.next
  BY DEF Fresh
<1>5. ASSUME NEW k \in OkLines, k <= Complete
      PROVE  \E f \in OkLines : /\ file[f].ord = file[k].ord /\ file[f].item = file[k].item
                                /\ f <= db.off \/ f \in Fresh
  BY <1>5, FirstOfOrdinal DEF Viewed
<1>6. db'.off = Complete /\ db'.rows = db.rows \cup {file[i].item : i \in Fresh}
  <2>1. CASE Fresh = {}
    <3>1. {file[i].item : i \in Fresh} = {}
      BY <2>1
    <3> QED  BY <1>1, <2>1, <3>1 DEF Projected
  <2>2. CASE Fresh # {}
    BY <2>2 DEF Projected
  <2> QED  BY <2>1, <2>2
<1>7. db'.rows = {file[i].item : i \in {k \in OkLines : k <= Complete}}
  <2>1. ASSUME NEW y, y \in db'.rows
        PROVE  y \in {file[i].item : i \in {k \in OkLines : k <= Complete}}
    <3>1. CASE y \in db.rows
      <4>1. PICK i \in OkLines : i <= db.off /\ y = file[i].item
        BY <1>2, <3>1
      <4>2. i <= Complete
        BY <1>1, <1>2, <4>1
      <4> QED  BY <4>1, <4>2
    <3>2. CASE y \in {file[i].item : i \in Fresh}
      BY <1>4, <3>2
    <3> QED  BY <1>6, <2>1, <3>1, <3>2
  <2>2. ASSUME NEW y, y \in {file[i].item : i \in {k \in OkLines : k <= Complete}}
        PROVE  y \in db'.rows
    <3>1. PICK k \in OkLines : k <= Complete /\ y = file[k].item
      BY <2>2
    <3>2. PICK f \in OkLines : file[f].item = y /\ (f <= db.off \/ f \in Fresh)
      BY <1>5, <3>1
    <3> QED  BY <1>2, <1>6, <3>2
  <2> QED  BY <2>1, <2>2
<1>8. /\ \A i \in OkLines : i <= Complete => file[i].ord < db'.next
      /\ db'.next = BaseOrdinal \/ \E i \in OkLines : i <= Complete /\ file[i].ord + 1 = db'.next
  <2>1. CASE Fresh = {}
    <3>1. db'.next = db.next
      BY <1>1, <2>1 DEF Projected
    <3>2. \A i \in OkLines : i <= Complete => file[i].ord < db.next
      BY <1>2, <1>5, <2>1
    <3>3. \A i \in OkLines : i <= db.off => i <= Complete
      BY <1>1, <1>2
    <3> QED  BY <1>2, <3>1, <3>2, <3>3
  <2>2. CASE Fresh # {}
    <3>1. PICK z \in Fresh : /\ \A j \in Fresh : j <= z
                             /\ Projected = [off |-> Complete, next |-> file[z].ord + 1,
                                             rows |-> db.rows \cup {file[k].item : k \in Fresh}]
      BY <2>2, LastFresh DEF Basics
    <3>2. db'.next = file[z].ord + 1 /\ z \in OkLines /\ z <= Complete /\ file[z].ord >= db.next
      BY <1>4, <3>1
    <3>3. ASSUME NEW f \in OkLines, f <= db.off \/ f \in Fresh
          PROVE  file[f].ord <= file[z].ord
      <4>1. CASE f <= db.off
        BY <1>1, <1>2, <3>2, <4>1
      <4>2. CASE f \in Fresh
        <5>1. f < z \/ f = z
          BY <1>1, <3>1, <3>2, <4>2
        <5>2. f < z => file[f].ord < file[z].ord \/ file[f].ord = file[z].ord
          BY <3>2 DEF Numbered, OrdinalsIdentify
        <5> QED  BY <1>1, <3>2, <5>1, <5>2
      <4> QED  BY <3>3, <4>1, <4>2
    <3>4. ASSUME NEW i \in OkLines, i <= Complete
          PROVE  file[i].ord < db'.next
      <4>1. PICK f \in OkLines : file[f].ord = file[i].ord /\ (f <= db.off \/ f \in Fresh)
        BY <1>5, <3>4
      <4>2. file[i].ord <= file[z].ord
        BY <3>3, <4>1
      <4> QED  BY <1>1, <3>2, <4>2
    <3> QED  BY <3>2, <3>4
  <2> QED  BY <2>1, <2>2
<1>9. Complete <= Complete
  BY <1>1
<1>10. Checkpoint'
  BY <1>3, <1>6, <1>8, <1>9 DEF Checkpoint
<1>11. ProjectionExact'
  BY <1>3, <1>6, <1>7 DEF ProjectionExact
<1> QED  BY <1>10, <1>11 DEF Viewed

\* Every step but the projection's appends to the file or leaves it.
LEMMA StepGrows ==
    ASSUME Basics, Control, [Next]_vars
    PROVE  /\ mode' = mode
           /\ \E x \in Records, o \in 0..NoOrdinal, b \in BOOLEAN : Grows(x, o, b)
           /\ db' = db \/ (db' = Projected /\ UNCHANGED <<file, ended>> /\ Paginated)
<1>1. mode' = mode
  BY DEF Next, WriterStep, OperationStep, vars
<1>2. db' = db \/ (db' = Projected /\ UNCHANGED <<file, ended>> /\ Paginated)
  <2>1. CASE Project
    BY <2>1 DEF Project
  <2>2. CASE \E n \in Writers : WriterStep(n)
    BY <2>2 DEF WriterStep, Receive, OpenLog, WriteMeta, WriteItem, Written, CloseWriter
  <2>3. CASE \/ \E i \in Items : AppendItems(i)
             \/ \E op \in CmdOps : Barrier(op)
             \/ Discard \/ Cancel \/ WriterGone \/ OpenForUpdate \/ WriteUpdate \/ Crash
             \/ UNCHANGED vars \/ \E n \in Writers : Resume(n)
    BY <2>3 DEF AppendItems, Barrier, Discard, Cancel, WriterGone, OpenForUpdate, WriteUpdate, Crash, Resume, vars
  <2>4. "Flush" \in CmdOps
    BY DEF CmdOps
  <2> QED  BY <2>1, <2>2, <2>3, <2>4 DEF Next, OperationStep, StoreOp
<1>6. SUFFICES \E x \in Records, o \in 0..NoOrdinal, b \in BOOLEAN : Grows(x, o, b)
  BY <1>1, <1>2
<1>3. ASSUME file' = file, ended => ended'
      PROVE  \E x \in Records, o \in 0..NoOrdinal, b \in BOOLEAN : Grows(x, o, b)
  <2>1. PICK x \in Records, o \in 0..NoOrdinal, b \in BOOLEAN : b = FALSE
    BY Constants
  <2> QED  BY <1>3, <2>1 DEF Grows
<1>4. ASSUME NEW x \in Records, NEW o \in 0..NoOrdinal, NEW outcome \in Outcomes, ended,
             Put(Line(x, o, TRUE), outcome)
      PROVE  \E b \in BOOLEAN : Grows(x, o, b)
  BY <1>4, PutAppends DEF Basics, FileOK
<1>5. \A n \in Writers : w[n].pc \in {"meta", "items"} => ended
  BY DEF Control, Clean, Gone
<1>7. CASE \E n \in Writers : WriteMeta(n)
  <2>1. PICK n \in Writers : WriteMeta(n)
    BY <1>7
  <2>2. CASE UNCHANGED <<file, ended>>
    BY <1>3, <2>2
  <2>3. CASE w[n].meta /\ \E outcome \in Outcomes : Put(Line(Meta, OrdinalOf(n), TRUE), outcome)
    <3>1. OrdinalOf(n) \in 0..NoOrdinal /\ ended /\ Meta \in Records
      BY <1>5, <2>1, <2>3, OrdinalRange, Constants DEF WriteMeta
    <3> QED  BY <1>4, <2>3, <3>1
  <2> QED  BY <2>1, <2>2, <2>3 DEF WriteMeta, Outcomes
<1>8. CASE \E n \in Writers : WriteItem(n)
  <2>1. PICK n \in Writers : WriteItem(n)
    BY <1>8
  <2>2. CASE UNCHANGED <<file, ended>>
    BY <1>3, <2>2
  <2>3. CASE /\ ~Exhausted(n)
             /\ \E outcome \in Outcomes : Put(Line(Head(w[n].pending), OrdinalOf(n), TRUE), outcome)
    <3>1. OrdinalOf(n) \in 0..NoOrdinal /\ ended /\ w[n].pending # <<>>
      BY <1>5, <2>1, <2>3, OrdinalRange DEF WriteItem
    <3>2. Head(w[n].pending) \in Records
      BY <3>1, FirstHeads, Constants
    <3> QED  BY <1>4, <2>3, <3>1, <3>2
  <2> QED  BY <2>1, <2>2, <2>3 DEF WriteItem, Outcomes
<1>9. CASE WriteUpdate
  <2>1. ended /\ MetaUpdate \in Records /\ NoOrdinal \in 0..NoOrdinal
    BY <1>9, Constants DEF WriteUpdate, Control, Clean
  <2>2. PICK outcome \in Outcomes : Put(Line(MetaUpdate, NoOrdinal, TRUE), outcome)
    BY <1>9 DEF WriteUpdate, Outcomes
  <2> QED  BY <1>4, <2>1, <2>2
<1>10. CASE Crash
  <2>1. CASE UNCHANGED <<file, ended>>
    BY <1>3, <2>1
  <2>2. CASE \E line \in InFlight, outcome \in {"torn", "bare"} : Put(line, outcome)
    <3>1. PICK line \in InFlight, outcome \in Outcomes : Put(line, outcome)
      BY <2>2 DEF Outcomes
    <3>2. PICK x \in Records, o \in 0..NoOrdinal :
              /\ line = Line(x, o, TRUE)
              /\ \/ x = MetaUpdate /\ updater = "write"
                 \/ \E n \in Writers : /\ w[n].pc = "meta" /\ w[n].meta /\ x = Meta
                 \/ \E n \in Writers : /\ w[n].pc = "items" /\ w[n].pending # <<>>
      BY InFlightLine
    <3>3. ended
      BY <1>5, <3>2 DEF Control, Clean
    <3> QED  BY <1>4, <3>1, <3>2, <3>3
  <2> QED  BY <1>10, <2>1, <2>2 DEF Crash
<1>11. CASE \E n \in Writers : Receive(n) \/ Written(n) \/ CloseWriter(n)
  <2>1. PICK n \in Writers : Receive(n) \/ Written(n) \/ CloseWriter(n)
    BY <1>11
  <2>2. UNCHANGED <<file, ended>>
    BY <2>1 DEF Receive, Written, CloseWriter
  <2> QED  BY <1>3, <2>2
<1>12. CASE \E n \in Writers : OpenLog(n)
  <2>1. PICK n \in Writers : OpenLog(n)
    BY <1>12
  <2>2. file' = file /\ (ended' = ended \/ ended' = TRUE)
    BY <2>1 DEF OpenLog
  <2> QED  BY <1>3, <2>2
<1>13. CASE \/ \E i \in Items : AppendItems(i)
            \/ \E op \in CmdOps : Barrier(op)
            \/ Discard \/ Cancel \/ WriterGone \/ Project \/ UNCHANGED vars
  <2>1. UNCHANGED <<file, ended>>
    BY <1>13 DEF AppendItems, Barrier, Discard, Cancel, WriterGone, Project, vars
  <2> QED  BY <1>3, <2>1
<1>14. CASE OpenForUpdate \/ \E n \in Writers : Resume(n)
  BY <1>3, <1>14 DEF OpenForUpdate, Resume
<1>15. \E x \in Records, o \in 0..NoOrdinal, b \in BOOLEAN : Grows(x, o, b)
  <2>1. "Flush" \in CmdOps
    BY DEF CmdOps
  <2>2. CASE \E n \in Writers : WriterStep(n)
    BY <1>7, <1>8, <1>11, <1>12, <2>2 DEF WriterStep
  <2>3. CASE OperationStep \/ StoreOp \/ UNCHANGED vars
    BY <1>13, <1>14, <2>1, <2>3 DEF OperationStep, StoreOp
  <2> QED  BY <1>9, <1>10, <1>13, <1>14, <2>2, <2>3 DEF Next
<1> QED  BY <1>15

\* The initial state.
LEMMA InitViewed ==
    ASSUME Init
    PROVE  Viewed
<1>1. /\ file = <<>> /\ OkLines = {} /\ ended = TRUE /\ db.off = 0 /\ db.next = BaseOrdinal
      /\ db.rows = {}
  BY DEF Init, OkLines
<1>2. Complete = 0
  BY <1>1 DEF Complete
<1>3. {file[i].item : i \in {k \in OkLines : k <= db.off}} = {}
  BY <1>1
<1> QED  BY <1>1, <1>2, <1>3 DEF Viewed, Checkpoint, ProjectionExact

\* Every step preserves it.
LEMMA StepViewed ==
    ASSUME Basics, Basics', Control, Numbered, Viewed, [Next]_vars
    PROVE  Viewed'
<1>1. CASE db' = db
  BY <1>1, StepGrows, ViewStays
<1>2. CASE db' = Projected /\ UNCHANGED <<file, ended>> /\ Paginated
  BY <1>2, StepGrows, ViewCatchesUp
<1> QED  BY <1>1, <1>2, StepGrows

(***************************************************************************)
(* The theorems.                                                           *)
(***************************************************************************)

LogInv == Basics /\ Control /\ Stored /\ Numbered /\ Viewed

\* The whole invariant: who may write, where every accepted item is, which
\* ordinals are used and what the projection covers.
THEOREM LogInvariance == ASSUME Isolated PROVE Spec => []LogInv
<1>1. Init => LogInv
  BY InitBasics, InitControl, InitStored, InitNumbered, InitViewed DEF LogInv
<1>2. LogInv /\ [Next]_vars => LogInv'
  <2> SUFFICES ASSUME LogInv, [Next]_vars PROVE LogInv'
    OBVIOUS
  <2>1. Basics /\ Control /\ Stored /\ Numbered /\ Viewed
    BY DEF LogInv
  <2>2. Basics'
    BY <2>1, StepBasics
  <2>3. Control' /\ Stored' /\ Numbered' /\ Viewed'
    BY <2>1, <2>2, StepControl, StepStored, StepNumbered, StepViewed
  <2> QED  BY <2>2, <2>3 DEF LogInv
<1> QED  BY <1>1, <1>2, PTL DEF Spec

\* What a successful append, persist, flush or shutdown promised is in the
\* file as a record that parses, whatever fails, is canceled or crashes.
THEOREM AckedAreDurable == ASSUME Isolated PROVE Spec => []AckedDurable
<1>1. LogInv => AckedDurable
  BY DEF LogInv, Stored
<1> QED  BY <1>1, LogInvariance, PTL

\* The items of one recorder reach the file in the order it accepted them,
\* with none left out.
THEOREM FileInOrder == ASSUME Isolated PROVE Spec => []FileOrder
<1>1. LogInv => FileOrder
  BY DEF LogInv, Stored
<1> QED  BY <1>1, LogInvariance, PTL

\* Ordinals grow along the file, across retries, crashes and resumes, and one
\* is used twice only for the same item.
THEOREM OrdinalsAreUnique == ASSUME Isolated PROVE Spec => []OrdinalsIdentify
<1>1. LogInv => OrdinalsIdentify
  BY DEF LogInv, Numbered
<1> QED  BY <1>1, LogInvariance, PTL

\* The SQLite view is exactly the items of the lines before its checkpoint.
THEOREM ProjectionIsExact == ASSUME Isolated PROVE Spec => []ProjectionExact
<1>1. LogInv => ProjectionExact
  BY DEF LogInv, Viewed
<1> QED  BY <1>1, LogInvariance, PTL
=============================================================================
