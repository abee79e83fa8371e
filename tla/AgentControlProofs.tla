------------------------- MODULE AgentControlProofs -------------------------
(***************************************************************************)
(* Proofs about AgentControl for any agents, paths, calls and bounds.      *)
(***************************************************************************)
EXTENDS AgentControl, FiniteSetTheorems, SequenceTheorems, TLAPS

(***************************************************************************)
(* The inductive invariant.                                                *)
(***************************************************************************)
CallTypes == [pc : Steps, op : Operations,
              agent : Agents \cup {NoAgent}, name : Paths \cup {NoPath},
              victim : Agents \cup {NoAgent}, held : Nat, left : Nat]

\* Residency lists hold an agent at most once.
IsList(s) == s \in Seq(Agents) /\ \A i, j \in DOMAIN s : s[i] = s[j] => i = j
In(a, s)  == \E i \in DOMAIN s : s[i] = a

\* The type of the state.
Types ==
    /\ version \in Versions
    /\ tree \in [Keys -> Agents \cup {NoAgent, Reserved}]
    /\ paths \in [Agents -> Keys \cup {NoPath}]
    /\ total \in Nat /\ leaked \in Nat /\ pending \in Nat
    /\ runtime \in [Agents -> {"absent", "busy", "idle", "dead"}]
    /\ starts \in [Agents -> 0..MaxStarts]
    /\ closing \in SUBSET Agents /\ unloads \in 0..MaxUnloads /\ calls \in 0..MaxCalls
    /\ IsList(residents)
    /\ call \in [Callers -> CallTypes]

\* A spawn has a path exactly in V2.
Named(v, x) == /\ v = "V2" => x.name \in Paths
               /\ v = "V1" => x.name = NoPath

\* What a call at each of its steps is about: x is the call, v the version.
Shape(v, x) ==
    /\ x.pc \in EvictionSteps =>
         /\ v = "V2"
         /\ \/ x.op = "Spawn" /\ x.name \in Paths
            \/ x.op \in {"Send", "Open"} /\ x.agent \in Agents /\ x.name = NoPath
    /\ x.pc \in {"check", "touch", "unload", "evict"} => x.victim \in Agents
    /\ x.pc = "number" =>
         \/ x.op = "Spawn" /\ Named(v, x)
         \/ x.op = "Resume" /\ v = "V1" /\ x.agent \in Agents /\ x.name = NoPath
    /\ x.pc \in {"name", "unname"} => v = "V2" /\ x.op = "Spawn" /\ x.name \in Paths
    /\ x.pc = "start" => x.op = "Spawn" /\ Named(v, x)
    /\ x.pc = "register" =>
         /\ x.agent \in Agents
         /\ \/ x.op = "Spawn" /\ Named(v, x)
            \/ x.op = "Resume" /\ v = "V1" /\ x.name = NoPath
    /\ x.pc \in {"resume", "insert"} =>
         /\ x.agent \in Agents /\ x.name = NoPath
         /\ \/ v = "V2" /\ x.op \in {"Send", "Open"}
            \/ v = "V1" /\ x.op = "Resume"
    /\ x.pc \in {"lookup", "known", "retouch", "recheck", "swap"} =>
         v = "V2" /\ x.op \in {"Send", "Open"} /\ x.agent \in Agents /\ x.name = NoPath
    /\ x.pc = "place" =>
         v = "V2" /\ x.op \in {"Spawn", "Send", "Open"} /\ x.agent \in Agents
    /\ x.pc = "unslot" => v = "V2" /\ x.op \in {"Spawn", "Send", "Open"}
    /\ x.pc = "deliver" => x.op \in {"Spawn", "Send"} /\ x.agent \in Agents
    /\ x.pc = "shutdown" => x.op = "Close" /\ x.agent \in Agents
    /\ x.pc \in {"remove", "forget", "release"} =>
         x.op \in {"Bury", "Close"} /\ x.agent \in Agents
    /\ x.pc = "uncount" => x.op \in {"Spawn", "Resume", "Bury", "Close"}

CallShape == \A c \in Callers : Shape(version, call[c])

\* A V1 agent is registered under its own id.
OwnKeys == version = "V1" => \A a \in Agents : paths[a] \in {a, NoPath}

\* V1 counts no more than it may.
Limited == version = "V1" => total <= MaxThreads

AgentsInv ==
    /\ Types /\ CallShape /\ OwnKeys /\ NamesOwned
    /\ SlotAccounting /\ Limited /\ PendingExact

\* An agent that is registered has had a runtime, or is of an earlier process.
Begun ==
    version = "V2" =>
        /\ \A a \in Registered : starts[a] > 0 \/ a \in Stored
        /\ \A c \in Callers : call[c].pc = "register" => starts[call[c].agent] > 0

(***************************************************************************)
(* Calls.                                                                  *)
(***************************************************************************)

\* The names of the steps and operations.
LEMMA StepNames ==
    /\ \A l \in {"room", "count", "scan", "check", "touch", "unload", "evict", "idle",
                 "lookup", "known", "retouch", "number", "name", "start", "resume",
                 "insert", "recheck", "register", "place", "deliver", "swap", "unslot",
                 "unname", "uncount", "shutdown", "remove", "forget", "release"} : l \in Steps
    /\ \A o \in {"none", "Spawn", "Send", "Open", "Resume", "Close", "Bury"} : o \in Operations
BY DEF Steps, EvictionSteps, Operations

\* A call's step is written.
LEMMA SetPc ==
    ASSUME NEW f \in [Callers -> CallTypes], NEW c \in Callers, NEW v \in Steps,
           NEW g, g = [f EXCEPT ![c].pc = v]
    PROVE  /\ g \in [Callers -> CallTypes] /\ \A d \in Callers : d # c => g[d] = f[d]
           /\ g[c].pc = v
           /\ g[c].op = f[c].op /\ g[c].agent = f[c].agent
           /\ g[c].name = f[c].name /\ g[c].victim = f[c].victim
           /\ g[c].held = f[c].held /\ g[c].left = f[c].left
BY DEF CallTypes

\* A call's operation is written.
LEMMA SetOp ==
    ASSUME NEW f \in [Callers -> CallTypes], NEW c \in Callers, NEW v \in Operations,
           NEW g, g = [f EXCEPT ![c].op = v]
    PROVE  /\ g \in [Callers -> CallTypes] /\ \A d \in Callers : d # c => g[d] = f[d]
           /\ g[c].op = v
           /\ g[c].pc = f[c].pc /\ g[c].agent = f[c].agent
           /\ g[c].name = f[c].name /\ g[c].victim = f[c].victim
           /\ g[c].held = f[c].held /\ g[c].left = f[c].left
BY DEF CallTypes

\* A call's agent is written.
LEMMA SetAgent ==
    ASSUME NEW f \in [Callers -> CallTypes], NEW c \in Callers, NEW v \in Agents \cup {NoAgent},
           NEW g, g = [f EXCEPT ![c].agent = v]
    PROVE  /\ g \in [Callers -> CallTypes] /\ \A d \in Callers : d # c => g[d] = f[d]
           /\ g[c].agent = v
           /\ g[c].pc = f[c].pc /\ g[c].op = f[c].op
           /\ g[c].name = f[c].name /\ g[c].victim = f[c].victim
           /\ g[c].held = f[c].held /\ g[c].left = f[c].left
BY DEF CallTypes

\* A call's path is written.
LEMMA SetName ==
    ASSUME NEW f \in [Callers -> CallTypes], NEW c \in Callers, NEW v \in Paths \cup {NoPath},
           NEW g, g = [f EXCEPT ![c].name = v]
    PROVE  /\ g \in [Callers -> CallTypes] /\ \A d \in Callers : d # c => g[d] = f[d]
           /\ g[c].name = v
           /\ g[c].pc = f[c].pc /\ g[c].op = f[c].op
           /\ g[c].agent = f[c].agent /\ g[c].victim = f[c].victim
           /\ g[c].held = f[c].held /\ g[c].left = f[c].left
BY DEF CallTypes

\* A call's candidate is written.
LEMMA SetVictim ==
    ASSUME NEW f \in [Callers -> CallTypes], NEW c \in Callers, NEW v \in Agents \cup {NoAgent},
           NEW g, g = [f EXCEPT ![c].victim = v]
    PROVE  /\ g \in [Callers -> CallTypes] /\ \A d \in Callers : d # c => g[d] = f[d]
           /\ g[c].victim = v
           /\ g[c].pc = f[c].pc /\ g[c].op = f[c].op
           /\ g[c].agent = f[c].agent /\ g[c].name = f[c].name
           /\ g[c].held = f[c].held /\ g[c].left = f[c].left
BY DEF CallTypes

\* A call's runtime it holds is written.
LEMMA SetHeld ==
    ASSUME NEW f \in [Callers -> CallTypes], NEW c \in Callers, NEW v \in Nat,
           NEW g, g = [f EXCEPT ![c].held = v]
    PROVE  /\ g \in [Callers -> CallTypes] /\ \A d \in Callers : d # c => g[d] = f[d]
           /\ g[c].held = v
           /\ g[c].pc = f[c].pc /\ g[c].op = f[c].op
           /\ g[c].agent = f[c].agent /\ g[c].name = f[c].name
           /\ g[c].victim = f[c].victim /\ g[c].left = f[c].left
BY DEF CallTypes

\* A call's number of candidates left is written.
LEMMA SetLeft ==
    ASSUME NEW f \in [Callers -> CallTypes], NEW c \in Callers, NEW v \in Nat,
           NEW g, g = [f EXCEPT ![c].left = v]
    PROVE  /\ g \in [Callers -> CallTypes] /\ \A d \in Callers : d # c => g[d] = f[d]
           /\ g[c].left = v
           /\ g[c].pc = f[c].pc /\ g[c].op = f[c].op
           /\ g[c].agent = f[c].agent /\ g[c].name = f[c].name
           /\ g[c].victim = f[c].victim /\ g[c].held = f[c].held
BY DEF CallTypes

\* What a step makes of its call, and that it leaves the others alone.
Moves(c, l, o, a, p, v) ==
    /\ call' \in [Callers -> CallTypes]
    /\ \A d \in Callers : d # c => call'[d] = call[d]
    /\ call'[c].pc = l /\ call'[c].op = o /\ call'[c].agent = a /\ call'[c].name = p
    /\ call'[c].victim = v

\* Goto changes the step only.
LEMMA GotoMoves ==
    ASSUME Types, NEW c \in Callers, NEW l \in Steps, Goto(c, l)
    PROVE  Moves(c, l, call[c].op, call[c].agent, call[c].name, call[c].victim)
<1>1. call \in [Callers -> CallTypes] /\ call' = [call EXCEPT ![c].pc = l]
  BY DEF Types, Goto
<1>2. PICK f, g : f = call /\ g = call'
  OBVIOUS
<1>3. /\ g \in [Callers -> CallTypes] /\ \A d \in Callers : d # c => g[d] = f[d]
      /\ g[c].pc = l /\ g[c].op = f[c].op /\ g[c].agent = f[c].agent
      /\ g[c].name = f[c].name /\ g[c].victim = f[c].victim
  BY <1>1, <1>2, SetPc
<1> QED  BY <1>2, <1>3 DEF Moves

\* Return leaves no call.
LEMMA ReturnMoves ==
    ASSUME Types, NEW c \in Callers, Return(c)
    PROVE  Moves(c, "idle", "none", NoAgent, NoPath, NoAgent)
<1>1. /\ NoCall \in CallTypes /\ NoCall.pc = "idle" /\ NoCall.op = "none"
      /\ NoCall.agent = NoAgent /\ NoCall.name = NoPath /\ NoCall.victim = NoAgent
  BY StepNames DEF NoCall, CallTypes
<1>2. call \in [Callers -> CallTypes] /\ call' = [call EXCEPT ![c] = NoCall]
  BY DEF Types, Return
<1>3. call'[c] = NoCall /\ call' \in [Callers -> CallTypes]
      /\ \A d \in Callers : d # c => call'[d] = call[d]
  BY <1>1, <1>2
<1> QED  BY <1>1, <1>3 DEF Moves

(***************************************************************************)
(* Counting calls.                                                         *)
(***************************************************************************)

\* A set of calls that gains or loses one, or does not.
LEMMA OneChanges ==
    ASSUME NEW U, IsFiniteSet(U), NEW S, S \subseteq U, NEW T, T \subseteq U,
           NEW c, \A d \in U : d # c => (d \in S <=> d \in T)
    PROVE  /\ Cardinality(S) \in Nat /\ Cardinality(T) \in Nat
           /\ (c \in S <=> c \in T) => Cardinality(T) = Cardinality(S)
           /\ c \in T /\ c \notin S => Cardinality(T) = Cardinality(S) + 1
           /\ c \in S /\ c \notin T =>
                 Cardinality(T) = Cardinality(S) - 1 /\ Cardinality(S) > 0
<1>1. IsFiniteSet(S) /\ IsFiniteSet(T)
  BY FS_Subset
<1>2. Cardinality(S) \in Nat /\ Cardinality(T) \in Nat
  BY <1>1, FS_CardinalityType
<1>3. (c \in S <=> c \in T) => S = T
  OBVIOUS
<1>4. c \in T /\ c \notin S => T = S \cup {c}
  OBVIOUS
<1>5. c \in S /\ c \notin T => S = T \cup {c}
  OBVIOUS
<1>6. c \in T /\ c \notin S => Cardinality(T) = Cardinality(S) + 1
  BY <1>1, <1>4, FS_AddElement
<1>7. c \in S /\ c \notin T => Cardinality(S) = Cardinality(T) + 1
  BY <1>1, <1>5, FS_AddElement
<1> QED  BY <1>2, <1>3, <1>6, <1>7

CountedCalls == {c \in Callers : Counted(c)}
SlotCalls    == {c \in Callers : HoldsSlot(c)}

\* The calls that hold a count, after a step of one of them.
LEMMA CountedStep ==
    ASSUME NEW c \in Callers, \A d \in Callers : d # c => call'[d] = call[d]
    PROVE  /\ Cardinality(CountedCalls) \in Nat /\ Cardinality(CountedCalls') \in Nat
           /\ (Counted(c)' <=> Counted(c)) => Cardinality(CountedCalls') = Cardinality(CountedCalls)
           /\ Counted(c)' /\ ~Counted(c) => Cardinality(CountedCalls') = Cardinality(CountedCalls) + 1
           /\ Counted(c) /\ ~Counted(c)' =>
                 /\ Cardinality(CountedCalls') = Cardinality(CountedCalls) - 1
                 /\ Cardinality(CountedCalls) > 0
<1>1. \A d \in Callers : d # c => (Counted(d)' <=> Counted(d))
  BY DEF Counted
<1>2. \A d \in Callers : (d \in CountedCalls <=> Counted(d)) /\ (d \in CountedCalls' <=> Counted(d)')
  BY DEF CountedCalls
<1>3. CountedCalls \subseteq Callers /\ CountedCalls' \subseteq Callers
  BY DEF CountedCalls
<1>4. IsFiniteSet(Callers)
  BY AgentsAssumption
<1> HIDE DEF CountedCalls
<1>5. PICK S, T : S = CountedCalls /\ T = CountedCalls'
  OBVIOUS
<1>6. \A d \in Callers : d # c => (d \in S <=> d \in T)
  BY <1>1, <1>2, <1>5
<1>7. /\ Cardinality(S) \in Nat /\ Cardinality(T) \in Nat
      /\ (c \in S <=> c \in T) => Cardinality(T) = Cardinality(S)
      /\ c \in T /\ c \notin S => Cardinality(T) = Cardinality(S) + 1
      /\ c \in S /\ c \notin T =>
            Cardinality(T) = Cardinality(S) - 1 /\ Cardinality(S) > 0
  BY <1>3, <1>4, <1>5, <1>6, OneChanges
<1> QED  BY <1>2, <1>5, <1>7

\* The calls that hold a residency slot, likewise.
LEMMA SlotStep ==
    ASSUME NEW c \in Callers, \A d \in Callers : d # c => call'[d] = call[d],
           version' = version
    PROVE  /\ Cardinality(SlotCalls) \in Nat /\ Cardinality(SlotCalls') \in Nat
           /\ (HoldsSlot(c)' <=> HoldsSlot(c)) => Cardinality(SlotCalls') = Cardinality(SlotCalls)
           /\ HoldsSlot(c)' /\ ~HoldsSlot(c) => Cardinality(SlotCalls') = Cardinality(SlotCalls) + 1
           /\ HoldsSlot(c) /\ ~HoldsSlot(c)' =>
                 /\ Cardinality(SlotCalls') = Cardinality(SlotCalls) - 1
                 /\ Cardinality(SlotCalls) > 0
<1>1. \A d \in Callers : d # c => (HoldsSlot(d)' <=> HoldsSlot(d))
  BY DEF HoldsSlot
<1>2. \A d \in Callers : (d \in SlotCalls <=> HoldsSlot(d)) /\ (d \in SlotCalls' <=> HoldsSlot(d)')
  BY DEF SlotCalls
<1>3. SlotCalls \subseteq Callers /\ SlotCalls' \subseteq Callers
  BY DEF SlotCalls
<1>4. IsFiniteSet(Callers)
  BY AgentsAssumption
<1> HIDE DEF SlotCalls
<1>5. PICK S, T : S = SlotCalls /\ T = SlotCalls'
  OBVIOUS
<1>6. \A d \in Callers : d # c => (d \in S <=> d \in T)
  BY <1>1, <1>2, <1>5
<1>7. /\ Cardinality(S) \in Nat /\ Cardinality(T) \in Nat
      /\ (c \in S <=> c \in T) => Cardinality(T) = Cardinality(S)
      /\ c \in T /\ c \notin S => Cardinality(T) = Cardinality(S) + 1
      /\ c \in S /\ c \notin T =>
            Cardinality(T) = Cardinality(S) - 1 /\ Cardinality(S) > 0
  BY <1>3, <1>4, <1>5, <1>6, OneChanges
<1> QED  BY <1>2, <1>5, <1>7

(***************************************************************************)
(* Steps that leave the registry alone.                                    *)
(***************************************************************************)

\* What a step does to the residency slots that are promised.
Promises(c) ==
    \/ pending' = pending /\ (HoldsSlot(c)' <=> HoldsSlot(c))
    \/ pending' = pending + 1 /\ HoldsSlot(c)' /\ ~HoldsSlot(c)
    \/ pending' = pending - 1 /\ HoldsSlot(c) /\ ~HoldsSlot(c)'

\* What a step of a call that neither takes nor returns a count or a path
\* leaves as it is.
Holds(c) ==
    /\ Counted(c)' <=> Counted(c)
    /\ HoldsName(c)' <=> HoldsName(c)
    /\ HoldsName(c) => call'[c].name = call[c].name

\* The slots stay exact.
LEMMA PendingStep ==
    ASSUME AgentsInv, NEW c \in Callers, \A d \in Callers : d # c => call'[d] = call[d],
           version' = version, Promises(c)
    PROVE  PendingExact' /\ pending' \in Nat
<1>1. pending = Cardinality(SlotCalls) /\ pending \in Nat
  BY DEF AgentsInv, PendingExact, SlotCalls, Types
<1>2. pending' = Cardinality(SlotCalls') /\ pending' \in Nat
  BY <1>1, SlotStep DEF Promises
<1> QED  BY <1>2 DEF PendingExact, SlotCalls

\* A step of one call that leaves the registry alone.
LEMMA CallOnly ==
    ASSUME AgentsInv, NEW c \in Callers, Types',
           \A d \in Callers : d # c => call'[d] = call[d],
           UNCHANGED <<version, tree, paths, total, leaked>>,
           Shape(version, call'[c]), Holds(c), Promises(c)
    PROVE  AgentsInv'
<1>1. CallShape'
  BY DEF AgentsInv, CallShape
<1>2. OwnKeys' /\ Limited'
  BY DEF AgentsInv, OwnKeys, Limited
<1>3. PendingExact'
  BY PendingStep
<1>4. SlotAccounting'
  <2>1. Registered' = Registered
    BY DEF Registered
  <2>2. Cardinality(CountedCalls') = Cardinality(CountedCalls)
    BY CountedStep DEF Holds
  <2>3. total = Cardinality(Registered) + Cardinality(CountedCalls) + leaked
    BY DEF AgentsInv, SlotAccounting, CountedCalls
  <2>4. total' = Cardinality(Registered') + Cardinality(CountedCalls') + leaked'
    BY <2>1, <2>2, <2>3
  <2> QED  BY <2>4 DEF SlotAccounting, CountedCalls
<1>5. NamesOwned'
  <2>1. NamesOwned
    BY DEF AgentsInv
  <2>2. \A d \in Callers : HoldsName(d)' <=> HoldsName(d)
    BY DEF Holds, HoldsName
  <2>3. \A d \in Callers : HoldsName(d) => call'[d].name = call[d].name
    BY DEF Holds
  <2> QED  BY <2>1, <2>2, <2>3 DEF NamesOwned
<1> QED  BY <1>1, <1>2, <1>3, <1>4, <1>5 DEF AgentsInv

\* A step of the agents themselves.
LEMMA NoCallMoves ==
    ASSUME AgentsInv, Types',
           UNCHANGED <<version, tree, paths, total, leaked, pending, call>>
    PROVE  AgentsInv'
<1>1. CallShape' /\ OwnKeys' /\ Limited'
  BY DEF AgentsInv, CallShape, OwnKeys, Limited
<1>2. Registered' = Registered /\ CountedCalls' = CountedCalls /\ SlotCalls' = SlotCalls
  BY DEF Registered, CountedCalls, Counted, SlotCalls, HoldsSlot
<1>3. SlotAccounting' /\ PendingExact'
  BY <1>2 DEF AgentsInv, SlotAccounting, PendingExact, CountedCalls, SlotCalls
<1>4. NamesOwned'
  BY DEF AgentsInv, NamesOwned, HoldsName
<1> QED  BY <1>1, <1>3, <1>4 DEF AgentsInv

(***************************************************************************)
(* The residency list.                                                     *)
(***************************************************************************)

\* A sequence without its i-th element.
IsCut(A, s, n, i, t) ==
    /\ t \in Seq(A) /\ Len(t) = n - 1
    /\ \A j \in 1..(n - 1) : t[j] = s[IF j < i THEN j ELSE j + 1]

\* That is what cutting it there gives.
LEMMA CutAt ==
    ASSUME NEW A, NEW s \in Seq(A), NEW n \in Nat, n = Len(s), NEW i \in 1..n, NEW t,
           t = SubSeq(s, 1, i - 1) \o SubSeq(s, i + 1, n)
    PROVE  IsCut(A, s, n, i, t)
<1>1. PICK x, y : x = SubSeq(s, 1, i - 1) /\ y = SubSeq(s, i + 1, n)
  OBVIOUS
<1>2. /\ x \in Seq(A) /\ Len(x) = i - 1 /\ \A j \in 1..(i - 1) : x[j] = s[j]
  BY <1>1
<1>3. /\ y \in Seq(A) /\ Len(y) = n - i /\ \A j \in 1..(n - i) : y[j] = s[i + j]
  BY <1>1
<1>4. /\ t \in Seq(A) /\ Len(t) = Len(x) + Len(y)
      /\ \A j \in 1..(Len(x) + Len(y)) : t[j] = IF j <= Len(x) THEN x[j] ELSE y[j - Len(x)]
  <2>1. x \in Seq(A) /\ y \in Seq(A)
    BY <1>2, <1>3
  <2>2. /\ x \o y \in Seq(A) /\ Len(x \o y) = Len(x) + Len(y)
        /\ \A j \in 1..(Len(x) + Len(y)) :
              (x \o y)[j] = IF j <= Len(x) THEN x[j] ELSE y[j - Len(x)]
    BY ONLY <2>1, ConcatProperties
  <2>3. t = x \o y
    BY <1>1
  <2> QED  BY ONLY <2>2, <2>3
<1>5. Len(x) + Len(y) = n - 1
  BY <1>2, <1>3
<1>6. /\ Len(t) = n - 1
      /\ \A j \in 1..(n - 1) : t[j] = IF j <= i - 1 THEN x[j] ELSE y[j - (i - 1)]
  BY <1>2, <1>4, <1>5
<1>7. ASSUME NEW j \in 1..(n - 1)
      PROVE  t[j] = s[IF j < i THEN j ELSE j + 1]
  <2>1. CASE j < i
    <3>1. j \in 1..(i - 1) /\ j <= i - 1
      BY <2>1
    <3> QED  BY <1>2, <1>6, <2>1, <3>1
  <2>2. CASE ~(j < i)
    <3>1. j - (i - 1) \in 1..(n - i) /\ ~(j <= i - 1) /\ i + (j - (i - 1)) = j + 1
      BY <2>2
    <3> QED  BY <1>3, <1>6, <2>2, <3>1
  <2> QED  BY <2>1, <2>2
<1> QED  BY <1>4, <1>6, <1>7 DEF IsCut

\* A sequence that starts after its i-th element and goes round to it.
IsTurn(A, s, n, i, t) ==
    /\ t \in Seq(A) /\ Len(t) = n - 1
    /\ \A j \in 1..(n - 1) : t[j] = s[IF j <= n - i THEN i + j ELSE j - (n - i)]

\* That is what turning it there gives.
LEMMA TurnAt ==
    ASSUME NEW A, NEW s \in Seq(A), NEW n \in Nat, n = Len(s), NEW i \in 1..n, NEW t,
           t = SubSeq(s, i + 1, n) \o SubSeq(s, 1, i - 1)
    PROVE  IsTurn(A, s, n, i, t)
<1>1. PICK x, y : x = SubSeq(s, 1, i - 1) /\ y = SubSeq(s, i + 1, n)
  OBVIOUS
<1>2. /\ x \in Seq(A) /\ Len(x) = i - 1 /\ \A j \in 1..(i - 1) : x[j] = s[j]
  BY <1>1
<1>3. /\ y \in Seq(A) /\ Len(y) = n - i /\ \A j \in 1..(n - i) : y[j] = s[i + j]
  BY <1>1
<1>4. /\ t \in Seq(A) /\ Len(t) = Len(y) + Len(x)
      /\ \A j \in 1..(Len(y) + Len(x)) : t[j] = IF j <= Len(y) THEN y[j] ELSE x[j - Len(y)]
  <2>1. x \in Seq(A) /\ y \in Seq(A)
    BY <1>2, <1>3
  <2>2. /\ y \o x \in Seq(A) /\ Len(y \o x) = Len(y) + Len(x)
        /\ \A j \in 1..(Len(y) + Len(x)) :
              (y \o x)[j] = IF j <= Len(y) THEN y[j] ELSE x[j - Len(y)]
    BY ONLY <2>1, ConcatProperties
  <2>3. t = y \o x
    BY <1>1
  <2> QED  BY ONLY <2>2, <2>3
<1>5. Len(y) + Len(x) = n - 1
  BY <1>2, <1>3
<1>6. /\ Len(t) = n - 1
      /\ \A j \in 1..(n - 1) : t[j] = IF j <= n - i THEN y[j] ELSE x[j - (n - i)]
  BY <1>3, <1>4, <1>5
<1>7. ASSUME NEW j \in 1..(n - 1)
      PROVE  t[j] = s[IF j <= n - i THEN i + j ELSE j - (n - i)]
  <2>1. CASE j <= n - i
    <3>1. j \in 1..(n - i)
      BY <2>1
    <3> QED  BY <1>3, <1>6, <2>1, <3>1
  <2>2. CASE ~(j <= n - i)
    <3>1. j - (n - i) \in 1..(i - 1)
      BY <2>2
    <3> QED  BY <1>2, <1>6, <2>2, <3>1
  <2> QED  BY <2>1, <2>2
<1> QED  BY <1>4, <1>6, <1>7 DEF IsTurn

\* The elements of a sequence without repetitions, less its i-th.
LessOne(s, i, t) ==
    /\ \A j, k \in 1..Len(t) : t[j] = t[k] => j = k
    /\ \A j \in 1..Len(t) : t[j] # s[i]
    /\ \A h \in 1..Len(s) : h # i => \E j \in 1..Len(t) : t[j] = s[h]
    /\ \A j \in 1..Len(t) : \E h \in 1..Len(s) : t[j] = s[h]

\* Both ways of taking out an element leave the others, once each.
LEMMA CutLessOne ==
    ASSUME NEW A, NEW s \in Seq(A), NEW i \in 1..Len(s), NEW t,
           \A j, k \in 1..Len(s) : s[j] = s[k] => j = k,
           \/ t = SubSeq(s, 1, i - 1) \o SubSeq(s, i + 1, Len(s))
           \/ t = SubSeq(s, i + 1, Len(s)) \o SubSeq(s, 1, i - 1)
    PROVE  t \in Seq(A) /\ LessOne(s, i, t)
<1>1. PICK n \in Nat : n = Len(s)
  BY LenProperties
<1>2. i \in 1..n
  BY <1>1
<1>3. CASE t = SubSeq(s, 1, i - 1) \o SubSeq(s, i + 1, Len(s))
  <2>1. /\ t \in Seq(A) /\ Len(t) = n - 1
        /\ \A j \in 1..(n - 1) : t[j] = s[IF j < i THEN j ELSE j + 1]
    <3>1. t = SubSeq(s, 1, i - 1) \o SubSeq(s, i + 1, n)
      BY <1>1, <1>3
    <3>2. s \in Seq(A) /\ n \in Nat /\ n = Len(s) /\ i \in 1..n
      BY <1>1, <1>2
    <3>3. IsCut(A, s, n, i, t)
      BY ONLY <3>1, <3>2, CutAt
    <3> QED  BY ONLY <3>3 DEF IsCut
  <2>2. \A j \in 1..(n - 1) : /\ j < i => t[j] = s[j] /\ j \in 1..n
                              /\ j >= i => t[j] = s[j + 1] /\ j + 1 \in 1..n
    BY <2>1
  <2>7. \A j \in 1..(n - 1) : \E h \in 1..n :
            t[j] = s[h] /\ h # i /\ (h < i => j = h) /\ (h > i => j = h - 1)
    <3> SUFFICES ASSUME NEW j \in 1..(n - 1)
                 PROVE  \E h \in 1..n : /\ t[j] = s[h] /\ h # i
                                        /\ (h < i => j = h) /\ (h > i => j = h - 1)
      OBVIOUS
    <3>1. CASE j < i
      <4>1. j \in 1..n /\ t[j] = s[j] /\ j # i /\ ~(j > i)
        BY <1>2, <2>2, <3>1
      <4> QED  BY <4>1
    <3>2. CASE j >= i
      <4>1. j + 1 \in 1..n /\ t[j] = s[j + 1] /\ j + 1 # i /\ ~(j + 1 < i) /\ j = (j + 1) - 1
        BY <1>2, <2>2, <3>2
      <4> QED  BY <4>1
    <3> QED  BY <1>2, <3>1, <3>2
  <2>3. \A j, k \in 1..(n - 1) : t[j] = t[k] => j = k
    <3> SUFFICES ASSUME NEW j \in 1..(n - 1), NEW k \in 1..(n - 1), t[j] = t[k]
                 PROVE  j = k
      OBVIOUS
    <3>1. PICK h \in 1..n : /\ t[j] = s[h] /\ h # i
                           /\ (h < i => j = h) /\ (h > i => j = h - 1)
      BY <2>7
    <3>2. PICK g \in 1..n : /\ t[k] = s[g] /\ g # i
                           /\ (g < i => k = g) /\ (g > i => k = g - 1)
      BY <2>7
    <3>3. h = g
      BY <1>1, <3>1, <3>2
    <3> QED  BY <1>2, <3>1, <3>2, <3>3
  <2>4. \A j \in 1..(n - 1) : t[j] # s[i]
    <3> SUFFICES ASSUME NEW j \in 1..(n - 1), t[j] = s[i]
                 PROVE  FALSE
      OBVIOUS
    <3>1. PICK h \in 1..n : t[j] = s[h] /\ h # i
      BY <2>7
    <3> QED  BY <1>1, <1>2, <3>1
  <2>5. ASSUME NEW h \in 1..n, h # i
        PROVE  \E j \in 1..(n - 1) : t[j] = s[h]
    <3>1. CASE h < i
      BY <1>2, <2>2, <3>1
    <3>2. CASE h > i
      <4>1. h - 1 \in 1..(n - 1) /\ h - 1 >= i /\ (h - 1) + 1 = h
        BY <1>2, <3>2
      <4> QED  BY <2>2, <4>1
    <3> QED  BY <1>2, <2>5, <3>1, <3>2
  <2>6. \A j \in 1..(n - 1) : \E h \in 1..n : t[j] = s[h]
    BY <2>7
  <2> QED  BY <1>1, <2>1, <2>3, <2>4, <2>5, <2>6 DEF LessOne
<1>4. CASE t = SubSeq(s, i + 1, Len(s)) \o SubSeq(s, 1, i - 1)
  <2>1. /\ t \in Seq(A) /\ Len(t) = n - 1
        /\ \A j \in 1..(n - 1) : t[j] = s[IF j <= n - i THEN i + j ELSE j - (n - i)]
    <3>1. t = SubSeq(s, i + 1, n) \o SubSeq(s, 1, i - 1)
      BY <1>1, <1>4
    <3>2. s \in Seq(A) /\ n \in Nat /\ n = Len(s) /\ i \in 1..n
      BY <1>1, <1>2
    <3>3. IsTurn(A, s, n, i, t)
      BY ONLY <3>1, <3>2, TurnAt
    <3> QED  BY ONLY <3>3 DEF IsTurn
  <2> DEFINE ix(j) == IF j <= n - i THEN i + j ELSE j - (n - i)
  <2>2. /\ \A j \in 1..(n - 1) : ix(j) \in 1..n /\ ix(j) # i
        /\ \A j, k \in 1..(n - 1) : ix(j) = ix(k) => j = k
    BY <1>2
  <2>6. \A j \in 1..(n - 1) : t[j] = s[ix(j)]
    BY <2>1
  <2>7. \A h \in 1..n : h # i => \E j \in 1..(n - 1) : ix(j) = h
    <3> SUFFICES ASSUME NEW h \in 1..n, h # i
                 PROVE  \E j \in 1..(n - 1) : ix(j) = h
      OBVIOUS
    <3>1. CASE h > i
      <4>1. h - i \in 1..(n - 1) /\ h - i <= n - i /\ i + (h - i) = h
        BY <1>2, <3>1
      <4>2. ix(h - i) = h
        BY <4>1
      <4> QED  BY <4>1, <4>2
    <3>2. CASE h < i
      <4>1. h + (n - i) \in 1..(n - 1) /\ ~(h + (n - i) <= n - i) /\ (h + (n - i)) - (n - i) = h
        BY <1>2, <3>2
      <4>2. ix(h + (n - i)) = h
        BY <4>1
      <4> QED  BY <4>1, <4>2
    <3> QED  BY <1>2, <3>1, <3>2
  <2> HIDE DEF ix
  <2>3. \A j, k \in 1..(n - 1) : t[j] = t[k] => j = k
    <3> SUFFICES ASSUME NEW j \in 1..(n - 1), NEW k \in 1..(n - 1), t[j] = t[k]
                 PROVE  j = k
      OBVIOUS
    <3>1. s[ix(j)] = s[ix(k)] /\ ix(j) \in 1..Len(s) /\ ix(k) \in 1..Len(s)
      BY <1>1, <2>2, <2>6
    <3>2. ix(j) = ix(k)
      BY <3>1
    <3> QED  BY <2>2, <3>2
  <2>4. \A j \in 1..(n - 1) : t[j] # s[i]
    BY <1>1, <1>2, <2>2, <2>6
  <2>5. \A h \in 1..n : h # i => \E j \in 1..(n - 1) : t[j] = s[h]
    BY <2>6, <2>7
  <2>8. \A j \in 1..(n - 1) : \E h \in 1..n : t[j] = s[h]
    BY <2>2, <2>6
  <2> QED  BY <1>1, <2>1, <2>3, <2>4, <2>5, <2>8 DEF LessOne
<1> QED  BY <1>3, <1>4

\* One element less of a residency list.
LEMMA CutList ==
    ASSUME NEW s, IsList(s), NEW i \in DOMAIN s, NEW t,
           \/ t = SubSeq(s, 1, i - 1) \o SubSeq(s, i + 1, Len(s))
           \/ t = SubSeq(s, i + 1, Len(s)) \o SubSeq(s, 1, i - 1)
    PROVE  /\ IsList(t) /\ ~In(s[i], t) /\ \A b : b # s[i] /\ In(b, s) => In(b, t)
           /\ \A b : In(b, t) => In(b, s)
<1>1. s \in Seq(Agents) /\ DOMAIN s = 1..Len(s) /\ i \in 1..Len(s)
  BY DEF IsList
<1>2. \A j, k \in 1..Len(s) : s[j] = s[k] => j = k
  BY <1>1 DEF IsList
<1>3. t \in Seq(Agents) /\ LessOne(s, i, t)
  BY <1>1, <1>2, CutLessOne
<1>4. DOMAIN t = 1..Len(t)
  BY <1>3
<1>5. /\ \A j, k \in 1..Len(t) : t[j] = t[k] => j = k
      /\ \A j \in 1..Len(t) : t[j] # s[i]
      /\ \A h \in 1..Len(s) : h # i => \E j \in 1..Len(t) : t[j] = s[h]
      /\ \A j \in 1..Len(t) : \E h \in 1..Len(s) : t[j] = s[h]
  BY <1>3 DEF LessOne
<1>6. ASSUME NEW b, b # s[i], In(b, s)
      PROVE  In(b, t)
  <2>1. PICK h \in 1..Len(s) : s[h] = b
    BY <1>1, <1>6 DEF In
  <2>2. PICK j \in 1..Len(t) : t[j] = s[h]
    BY <1>5, <1>6, <2>1
  <2> QED  BY <1>4, <2>1, <2>2 DEF In
<1>7. ASSUME NEW b, In(b, t)
      PROVE  In(b, s)
  <2>1. PICK j \in 1..Len(t) : t[j] = b
    BY <1>4, <1>7 DEF In
  <2>2. PICK h \in 1..Len(s) : t[j] = s[h]
    BY <1>5
  <2> QED  BY <1>1, <2>1, <2>2 DEF In
<1> QED  BY <1>3, <1>4, <1>5, <1>6, <1>7 DEF IsList, In

\* retain leaves the other residents.
LEMMA WithoutList ==
    ASSUME IsList(residents), NEW a
    PROVE  /\ IsList(Without(a)) /\ ~In(a, Without(a))
           /\ \A b : b # a /\ In(b, residents) => In(b, Without(a))
           /\ \A b : In(b, Without(a)) => In(b, residents)
<1>1. CASE \E i \in DOMAIN residents : residents[i] = a
  <2>1. PICK i : i = CHOOSE j \in DOMAIN residents : residents[j] = a
    OBVIOUS
  <2>2. i \in DOMAIN residents /\ residents[i] = a
    BY <1>1, <2>1
  <2>3. Without(a) = SubSeq(residents, 1, i - 1) \o SubSeq(residents, i + 1, Len(residents))
    BY <1>1, <2>1 DEF Without
  <2> QED  BY <2>2, <2>3, CutList
<1>2. CASE ~\E i \in DOMAIN residents : residents[i] = a
  BY <1>2 DEF Without, In
<1> QED  BY <1>1, <1>2

\* touch puts an agent at the back and leaves the others.
LEMMA TouchList ==
    ASSUME IsList(residents), NEW a \in Agents
    PROVE  /\ IsList(Touch(a)) /\ In(a, Touch(a))
           /\ \A b : In(b, residents) => In(b, Touch(a))
           /\ \A b : In(b, Touch(a)) => b = a \/ In(b, residents)
<1>1. PICK w : w = Without(a)
  OBVIOUS
<1>2. /\ IsList(w) /\ ~In(a, w) /\ \A b : b # a /\ In(b, residents) => In(b, w)
      /\ \A b : In(b, w) => In(b, residents)
  BY <1>1, WithoutList
<1>3. PICK t : t = Append(w, a)
  OBVIOUS
<1>4. w \in Seq(Agents) /\ DOMAIN w = 1..Len(w) /\ Len(w) \in Nat
  BY <1>2 DEF IsList
<1>5. PICK n \in Nat : n = Len(w)
  BY <1>4
<1>6. /\ t \in Seq(Agents) /\ Len(t) = n + 1 /\ DOMAIN t = 1..(n + 1)
      /\ \A j \in 1..n : t[j] = w[j] /\ t[n + 1] = a
  BY <1>3, <1>4, <1>5, AppendProperties
<1>7. t[n + 1] = a /\ \A j \in 1..(n + 1) : j = n + 1 \/ j \in 1..n
  BY <1>3, <1>4, <1>5, AppendProperties
<1>8. \A j \in 1..n : t[j] # a
  BY <1>2, <1>4, <1>5, <1>6 DEF In
<1>9. \A j, k \in 1..n : t[j] = t[k] => j = k
  BY <1>2, <1>4, <1>5, <1>6 DEF IsList
<1>10. \A j, k \in 1..(n + 1) : t[j] = t[k] => j = k
  BY <1>7, <1>8, <1>9
<1>11. n + 1 \in 1..(n + 1) /\ \A j \in 1..n : j \in 1..(n + 1)
  OBVIOUS
<1>12. In(a, t) /\ \A b : In(b, w) => In(b, t)
  BY <1>4, <1>5, <1>6, <1>7, <1>11 DEF In
<1>13. \A b : In(b, t) => b = a \/ In(b, w)
  BY <1>4, <1>5, <1>6, <1>7 DEF In
<1>14. Touch(a) = t
  BY <1>1, <1>3 DEF Touch
<1> QED  BY <1>2, <1>6, <1>10, <1>12, <1>13, <1>14 DEF IsList

(***************************************************************************)
(* Steps that write several fields of their call.                          *)
(***************************************************************************)

\* A call begins.
LEMMA BeginMoves ==
    ASSUME Types, NEW c \in Callers, NEW l \in Steps, NEW o \in Operations,
           NEW a \in Agents \cup {NoAgent}, NEW p \in Paths \cup {NoPath},
           call' = [call EXCEPT ![c].pc = l, ![c].op = o, ![c].agent = a, ![c].name = p]
    PROVE  Moves(c, l, o, a, p, call[c].victim)
<1>p. PICK g0, g1, g2, g3, g4 : /\ g0 = call
                                /\ g1 = [g0 EXCEPT ![c].pc = l]
                                /\ g2 = [g1 EXCEPT ![c].op = o]
                                /\ g3 = [g2 EXCEPT ![c].agent = a]
                                /\ g4 = [g3 EXCEPT ![c].name = p]
  OBVIOUS
<1>0. g0 \in [Callers -> CallTypes] /\ call' = g4
  BY <1>p DEF Types
<1>1. /\ g1 \in [Callers -> CallTypes] /\ \A d \in Callers : d # c => g1[d] = g0[d]
      /\ g1[c].pc = l /\ g1[c].op = g0[c].op /\ g1[c].agent = g0[c].agent
      /\ g1[c].name = g0[c].name /\ g1[c].victim = g0[c].victim
  <2>1. g0 \in [Callers -> CallTypes] /\ c \in Callers /\ l \in Steps
    BY <1>0
  <2>2. g1 = [g0 EXCEPT ![c].pc = l]
    BY <1>p
  <2> QED  BY ONLY <2>1, <2>2, SetPc
<1>2. /\ g2 \in [Callers -> CallTypes] /\ \A d \in Callers : d # c => g2[d] = g1[d]
      /\ g2[c].op = o /\ g2[c].pc = g1[c].pc /\ g2[c].agent = g1[c].agent
      /\ g2[c].name = g1[c].name /\ g2[c].victim = g1[c].victim
  <2>1. g1 \in [Callers -> CallTypes] /\ c \in Callers /\ o \in Operations
    BY <1>1
  <2>2. g2 = [g1 EXCEPT ![c].op = o]
    BY <1>p
  <2> QED  BY ONLY <2>1, <2>2, SetOp
<1>3. /\ g3 \in [Callers -> CallTypes] /\ \A d \in Callers : d # c => g3[d] = g2[d]
      /\ g3[c].agent = a /\ g3[c].pc = g2[c].pc /\ g3[c].op = g2[c].op
      /\ g3[c].name = g2[c].name /\ g3[c].victim = g2[c].victim
  <2>1. g2 \in [Callers -> CallTypes] /\ c \in Callers /\ a \in Agents \cup {NoAgent}
    BY <1>2
  <2>2. g3 = [g2 EXCEPT ![c].agent = a]
    BY <1>p
  <2> QED  BY ONLY <2>1, <2>2, SetAgent
<1>4. /\ g4 \in [Callers -> CallTypes] /\ \A d \in Callers : d # c => g4[d] = g3[d]
      /\ g4[c].name = p /\ g4[c].pc = g3[c].pc /\ g4[c].op = g3[c].op
      /\ g4[c].agent = g3[c].agent /\ g4[c].victim = g3[c].victim
  <2>1. g3 \in [Callers -> CallTypes] /\ c \in Callers /\ p \in Paths \cup {NoPath}
    BY <1>3
  <2>2. g4 = [g3 EXCEPT ![c].name = p]
    BY <1>p
  <2> QED  BY ONLY <2>1, <2>2, SetName
<1> QED  BY <1>p, <1>0, <1>1, <1>2, <1>3, <1>4 DEF Moves

\* A call loses its path.
LEMMA NameMoves ==
    ASSUME Types, NEW c \in Callers, NEW l \in Steps, NEW p \in Paths \cup {NoPath},
           call' = [call EXCEPT ![c].pc = l, ![c].name = p]
    PROVE  Moves(c, l, call[c].op, call[c].agent, p, call[c].victim)
<1>p. PICK g0, g1, g2 : /\ g0 = call
                        /\ g1 = [g0 EXCEPT ![c].pc = l]
                        /\ g2 = [g1 EXCEPT ![c].name = p]
  OBVIOUS
<1>0. g0 \in [Callers -> CallTypes] /\ call' = g2
  BY <1>p DEF Types
<1>1. /\ g1 \in [Callers -> CallTypes] /\ \A d \in Callers : d # c => g1[d] = g0[d]
      /\ g1[c].pc = l /\ g1[c].op = g0[c].op /\ g1[c].agent = g0[c].agent
      /\ g1[c].name = g0[c].name /\ g1[c].victim = g0[c].victim
  <2>1. g0 \in [Callers -> CallTypes] /\ c \in Callers /\ l \in Steps
    BY <1>0
  <2>2. g1 = [g0 EXCEPT ![c].pc = l]
    BY <1>p
  <2> QED  BY ONLY <2>1, <2>2, SetPc
<1>2. /\ g2 \in [Callers -> CallTypes] /\ \A d \in Callers : d # c => g2[d] = g1[d]
      /\ g2[c].name = p /\ g2[c].pc = g1[c].pc /\ g2[c].op = g1[c].op
      /\ g2[c].agent = g1[c].agent /\ g2[c].victim = g1[c].victim
  <2>1. g1 \in [Callers -> CallTypes] /\ c \in Callers /\ p \in Paths \cup {NoPath}
    BY <1>1
  <2>2. g2 = [g1 EXCEPT ![c].name = p]
    BY <1>p
  <2> QED  BY ONLY <2>1, <2>2, SetName
<1> QED  BY <1>p, <1>0, <1>1, <1>2 DEF Moves

\* A call has its agent.
LEMMA AgentMoves ==
    ASSUME Types, NEW c \in Callers, NEW l \in Steps, NEW a \in Agents \cup {NoAgent},
           call' = [call EXCEPT ![c].pc = l, ![c].agent = a]
    PROVE  Moves(c, l, call[c].op, a, call[c].name, call[c].victim)
<1>p. PICK g0, g1, g2 : /\ g0 = call
                        /\ g1 = [g0 EXCEPT ![c].pc = l]
                        /\ g2 = [g1 EXCEPT ![c].agent = a]
  OBVIOUS
<1>0. g0 \in [Callers -> CallTypes] /\ call' = g2
  BY <1>p DEF Types
<1>1. /\ g1 \in [Callers -> CallTypes] /\ \A d \in Callers : d # c => g1[d] = g0[d]
      /\ g1[c].pc = l /\ g1[c].op = g0[c].op /\ g1[c].agent = g0[c].agent
      /\ g1[c].name = g0[c].name /\ g1[c].victim = g0[c].victim
  <2>1. g0 \in [Callers -> CallTypes] /\ c \in Callers /\ l \in Steps
    BY <1>0
  <2>2. g1 = [g0 EXCEPT ![c].pc = l]
    BY <1>p
  <2> QED  BY ONLY <2>1, <2>2, SetPc
<1>2. /\ g2 \in [Callers -> CallTypes] /\ \A d \in Callers : d # c => g2[d] = g1[d]
      /\ g2[c].agent = a /\ g2[c].pc = g1[c].pc /\ g2[c].op = g1[c].op
      /\ g2[c].name = g1[c].name /\ g2[c].victim = g1[c].victim
  <2>1. g1 \in [Callers -> CallTypes] /\ c \in Callers /\ a \in Agents \cup {NoAgent}
    BY <1>1
  <2>2. g2 = [g1 EXCEPT ![c].agent = a]
    BY <1>p
  <2> QED  BY ONLY <2>1, <2>2, SetAgent
<1> QED  BY <1>p, <1>0, <1>1, <1>2 DEF Moves

\* A call turns to removing a dead agent.
LEMMA BuryMoves ==
    ASSUME Types, NEW c \in Callers, NEW l \in Steps, NEW o \in Operations,
           NEW p \in Paths \cup {NoPath},
           call' = [call EXCEPT ![c].pc = l, ![c].op = o, ![c].name = p]
    PROVE  Moves(c, l, o, call[c].agent, p, call[c].victim)
<1>p. PICK g0, g1, g2, g3 : /\ g0 = call
                            /\ g1 = [g0 EXCEPT ![c].pc = l]
                            /\ g2 = [g1 EXCEPT ![c].op = o]
                            /\ g3 = [g2 EXCEPT ![c].name = p]
  OBVIOUS
<1>0. g0 \in [Callers -> CallTypes] /\ call' = g3
  BY <1>p DEF Types
<1>1. /\ g1 \in [Callers -> CallTypes] /\ \A d \in Callers : d # c => g1[d] = g0[d]
      /\ g1[c].pc = l /\ g1[c].op = g0[c].op /\ g1[c].agent = g0[c].agent
      /\ g1[c].name = g0[c].name /\ g1[c].victim = g0[c].victim
  <2>1. g0 \in [Callers -> CallTypes] /\ c \in Callers /\ l \in Steps
    BY <1>0
  <2>2. g1 = [g0 EXCEPT ![c].pc = l]
    BY <1>p
  <2> QED  BY ONLY <2>1, <2>2, SetPc
<1>2. /\ g2 \in [Callers -> CallTypes] /\ \A d \in Callers : d # c => g2[d] = g1[d]
      /\ g2[c].op = o /\ g2[c].pc = g1[c].pc /\ g2[c].agent = g1[c].agent
      /\ g2[c].name = g1[c].name /\ g2[c].victim = g1[c].victim
  <2>1. g1 \in [Callers -> CallTypes] /\ c \in Callers /\ o \in Operations
    BY <1>1
  <2>2. g2 = [g1 EXCEPT ![c].op = o]
    BY <1>p
  <2> QED  BY ONLY <2>1, <2>2, SetOp
<1>3. /\ g3 \in [Callers -> CallTypes] /\ \A d \in Callers : d # c => g3[d] = g2[d]
      /\ g3[c].name = p /\ g3[c].pc = g2[c].pc /\ g3[c].op = g2[c].op
      /\ g3[c].agent = g2[c].agent /\ g3[c].victim = g2[c].victim
  <2>1. g2 \in [Callers -> CallTypes] /\ c \in Callers /\ p \in Paths \cup {NoPath}
    BY <1>2
  <2>2. g3 = [g2 EXCEPT ![c].name = p]
    BY <1>p
  <2> QED  BY ONLY <2>1, <2>2, SetName
<1> QED  BY <1>p, <1>0, <1>1, <1>2, <1>3 DEF Moves

\* A call counts candidates.
LEMMA LeftMoves ==
    ASSUME Types, NEW c \in Callers, NEW l \in Steps, NEW n \in Nat,
           call' = [call EXCEPT ![c].pc = l, ![c].left = n]
    PROVE  Moves(c, l, call[c].op, call[c].agent, call[c].name, call[c].victim)
<1>p. PICK g0, g1, g2 : /\ g0 = call
                        /\ g1 = [g0 EXCEPT ![c].pc = l]
                        /\ g2 = [g1 EXCEPT ![c].left = n]
  OBVIOUS
<1>0. g0 \in [Callers -> CallTypes] /\ call' = g2
  BY <1>p DEF Types
<1>1. /\ g1 \in [Callers -> CallTypes] /\ \A d \in Callers : d # c => g1[d] = g0[d]
      /\ g1[c].pc = l /\ g1[c].op = g0[c].op /\ g1[c].agent = g0[c].agent
      /\ g1[c].name = g0[c].name /\ g1[c].victim = g0[c].victim
  <2>1. g0 \in [Callers -> CallTypes] /\ c \in Callers /\ l \in Steps
    BY <1>0
  <2>2. g1 = [g0 EXCEPT ![c].pc = l]
    BY <1>p
  <2> QED  BY ONLY <2>1, <2>2, SetPc
<1>2. /\ g2 \in [Callers -> CallTypes] /\ \A d \in Callers : d # c => g2[d] = g1[d]
      /\ g2[c].left = n /\ g2[c].pc = g1[c].pc /\ g2[c].op = g1[c].op
      /\ g2[c].agent = g1[c].agent /\ g2[c].name = g1[c].name /\ g2[c].victim = g1[c].victim
  <2>1. g1 \in [Callers -> CallTypes] /\ c \in Callers /\ n \in Nat
    BY <1>1
  <2>2. g2 = [g1 EXCEPT ![c].left = n]
    BY <1>p
  <2> QED  BY ONLY <2>1, <2>2, SetLeft
<1> QED  BY <1>p, <1>0, <1>1, <1>2 DEF Moves

\* A call takes a candidate.
LEMMA VictimMoves ==
    ASSUME Types, NEW c \in Callers, NEW l \in Steps, NEW v \in Agents \cup {NoAgent},
           NEW n \in Nat,
           call' = [call EXCEPT ![c].pc = l, ![c].victim = v, ![c].left = n]
    PROVE  Moves(c, l, call[c].op, call[c].agent, call[c].name, v)
<1>p. PICK g0, g1, g2, g3 : /\ g0 = call
                            /\ g1 = [g0 EXCEPT ![c].pc = l]
                            /\ g2 = [g1 EXCEPT ![c].victim = v]
                            /\ g3 = [g2 EXCEPT ![c].left = n]
  OBVIOUS
<1>0. g0 \in [Callers -> CallTypes] /\ call' = g3
  BY <1>p DEF Types
<1>1. /\ g1 \in [Callers -> CallTypes] /\ \A d \in Callers : d # c => g1[d] = g0[d]
      /\ g1[c].pc = l /\ g1[c].op = g0[c].op /\ g1[c].agent = g0[c].agent
      /\ g1[c].name = g0[c].name /\ g1[c].victim = g0[c].victim
  <2>1. g0 \in [Callers -> CallTypes] /\ c \in Callers /\ l \in Steps
    BY <1>0
  <2>2. g1 = [g0 EXCEPT ![c].pc = l]
    BY <1>p
  <2> QED  BY ONLY <2>1, <2>2, SetPc
<1>2. /\ g2 \in [Callers -> CallTypes] /\ \A d \in Callers : d # c => g2[d] = g1[d]
      /\ g2[c].victim = v /\ g2[c].pc = g1[c].pc /\ g2[c].op = g1[c].op
      /\ g2[c].agent = g1[c].agent /\ g2[c].name = g1[c].name
  <2>1. g1 \in [Callers -> CallTypes] /\ c \in Callers /\ v \in Agents \cup {NoAgent}
    BY <1>1
  <2>2. g2 = [g1 EXCEPT ![c].victim = v]
    BY <1>p
  <2> QED  BY ONLY <2>1, <2>2, SetVictim
<1>3. /\ g3 \in [Callers -> CallTypes] /\ \A d \in Callers : d # c => g3[d] = g2[d]
      /\ g3[c].left = n /\ g3[c].pc = g2[c].pc /\ g3[c].op = g2[c].op
      /\ g3[c].agent = g2[c].agent /\ g3[c].name = g2[c].name /\ g3[c].victim = g2[c].victim
  <2>1. g2 \in [Callers -> CallTypes] /\ c \in Callers /\ n \in Nat
    BY <1>2
  <2>2. g3 = [g2 EXCEPT ![c].left = n]
    BY <1>p
  <2> QED  BY ONLY <2>1, <2>2, SetLeft
<1> QED  BY <1>p, <1>0, <1>1, <1>2, <1>3 DEF Moves

\* A call holds a candidate's runtime.
LEMMA HeldMoves ==
    ASSUME Types, NEW c \in Callers, NEW l \in Steps, NEW h \in Nat,
           call' = [call EXCEPT ![c].pc = l, ![c].held = h]
    PROVE  Moves(c, l, call[c].op, call[c].agent, call[c].name, call[c].victim)
<1>p. PICK g0, g1, g2 : /\ g0 = call
                        /\ g1 = [g0 EXCEPT ![c].pc = l]
                        /\ g2 = [g1 EXCEPT ![c].held = h]
  OBVIOUS
<1>0. g0 \in [Callers -> CallTypes] /\ call' = g2
  BY <1>p DEF Types
<1>1. /\ g1 \in [Callers -> CallTypes] /\ \A d \in Callers : d # c => g1[d] = g0[d]
      /\ g1[c].pc = l /\ g1[c].op = g0[c].op /\ g1[c].agent = g0[c].agent
      /\ g1[c].name = g0[c].name /\ g1[c].victim = g0[c].victim
  <2>1. g0 \in [Callers -> CallTypes] /\ c \in Callers /\ l \in Steps
    BY <1>0
  <2>2. g1 = [g0 EXCEPT ![c].pc = l]
    BY <1>p
  <2> QED  BY ONLY <2>1, <2>2, SetPc
<1>2. /\ g2 \in [Callers -> CallTypes] /\ \A d \in Callers : d # c => g2[d] = g1[d]
      /\ g2[c].held = h /\ g2[c].pc = g1[c].pc /\ g2[c].op = g1[c].op
      /\ g2[c].agent = g1[c].agent /\ g2[c].name = g1[c].name /\ g2[c].victim = g1[c].victim
  <2>1. g1 \in [Callers -> CallTypes] /\ c \in Callers /\ h \in Nat
    BY <1>1
  <2>2. g2 = [g1 EXCEPT ![c].held = h]
    BY <1>p
  <2> QED  BY ONLY <2>1, <2>2, SetHeld
<1> QED  BY <1>p, <1>0, <1>1, <1>2 DEF Moves

\* A call is done with its candidate.
LEMMA ClearMoves ==
    ASSUME Types, NEW c \in Callers, NEW l \in Steps, NEW v \in Agents \cup {NoAgent},
           NEW h \in Nat, NEW n \in Nat,
           call' = [call EXCEPT ![c].pc = l, ![c].victim = v, ![c].held = h,
                                ![c].left = n]
    PROVE  Moves(c, l, call[c].op, call[c].agent, call[c].name, v)
<1>p. PICK g0, g1, g2, g3, g4 : /\ g0 = call
                                /\ g1 = [g0 EXCEPT ![c].pc = l]
                                /\ g2 = [g1 EXCEPT ![c].victim = v]
                                /\ g3 = [g2 EXCEPT ![c].held = h]
                                /\ g4 = [g3 EXCEPT ![c].left = n]
  OBVIOUS
<1>0. g0 \in [Callers -> CallTypes] /\ call' = g4
  BY <1>p DEF Types
<1>1. /\ g1 \in [Callers -> CallTypes] /\ \A d \in Callers : d # c => g1[d] = g0[d]
      /\ g1[c].pc = l /\ g1[c].op = g0[c].op /\ g1[c].agent = g0[c].agent
      /\ g1[c].name = g0[c].name /\ g1[c].victim = g0[c].victim
  <2>1. g0 \in [Callers -> CallTypes] /\ c \in Callers /\ l \in Steps
    BY <1>0
  <2>2. g1 = [g0 EXCEPT ![c].pc = l]
    BY <1>p
  <2> QED  BY ONLY <2>1, <2>2, SetPc
<1>2. /\ g2 \in [Callers -> CallTypes] /\ \A d \in Callers : d # c => g2[d] = g1[d]
      /\ g2[c].victim = v /\ g2[c].pc = g1[c].pc /\ g2[c].op = g1[c].op
      /\ g2[c].agent = g1[c].agent /\ g2[c].name = g1[c].name
  <2>1. g1 \in [Callers -> CallTypes] /\ c \in Callers /\ v \in Agents \cup {NoAgent}
    BY <1>1
  <2>2. g2 = [g1 EXCEPT ![c].victim = v]
    BY <1>p
  <2> QED  BY ONLY <2>1, <2>2, SetVictim
<1>3. /\ g3 \in [Callers -> CallTypes] /\ \A d \in Callers : d # c => g3[d] = g2[d]
      /\ g3[c].held = h /\ g3[c].pc = g2[c].pc /\ g3[c].op = g2[c].op
      /\ g3[c].agent = g2[c].agent /\ g3[c].name = g2[c].name /\ g3[c].victim = g2[c].victim
  <2>1. g2 \in [Callers -> CallTypes] /\ c \in Callers /\ h \in Nat
    BY <1>2
  <2>2. g3 = [g2 EXCEPT ![c].held = h]
    BY <1>p
  <2> QED  BY ONLY <2>1, <2>2, SetHeld
<1>4. /\ g4 \in [Callers -> CallTypes] /\ \A d \in Callers : d # c => g4[d] = g3[d]
      /\ g4[c].left = n /\ g4[c].pc = g3[c].pc /\ g4[c].op = g3[c].op
      /\ g4[c].agent = g3[c].agent /\ g4[c].name = g3[c].name /\ g4[c].victim = g3[c].victim
  <2>1. g3 \in [Callers -> CallTypes] /\ c \in Callers /\ n \in Nat
    BY <1>3
  <2>2. g4 = [g3 EXCEPT ![c].left = n]
    BY <1>p
  <2> QED  BY ONLY <2>1, <2>2, SetLeft
<1> QED  BY <1>p, <1>0, <1>1, <1>2, <1>3, <1>4 DEF Moves

(***************************************************************************)
(* The steps of calls outside the registry.                                *)
(***************************************************************************)

Runtimes == [Agents -> {"absent", "busy", "idle", "dead"}]

\* What a call at its step is about.
LEMMA AtStep ==
    ASSUME AgentsInv, NEW c \in Callers
    PROVE  /\ Types /\ Shape(version, call[c]) /\ version \in {"V1", "V2"}
           /\ call[c] \in CallTypes
BY AgentsAssumption DEF AgentsInv, CallShape, Types

\* A step that moves its call on, and may change runtimes and the residency list.
LEMMA MovesOn ==
    ASSUME AgentsInv, NEW c \in Callers, NEW l, NEW o, NEW a, NEW p, NEW v,
           Moves(c, l, o, a, p, v),
           UNCHANGED <<version, tree, paths, total, leaked, unloads, calls>>,
           runtime' \in Runtimes, starts' \in [Agents -> 0..MaxStarts],
           closing' \in SUBSET Agents, IsList(residents'),
           Shape(version, call'[c]), Holds(c), Promises(c)
    PROVE  AgentsInv'
<1>1. /\ call' \in [Callers -> CallTypes]
      /\ \A d \in Callers : d # c => call'[d] = call[d]
  BY DEF Moves
<1>2. pending' \in Nat
  BY <1>1, PendingStep
<1>3. Types'
  BY <1>1, <1>2 DEF AgentsInv, Types, Runtimes
<1> QED  BY <1>1, <1>3, CallOnly

\* A slot is promised, or the list is full.
LEMMA TryReserveInv ==
    ASSUME AgentsInv, NEW c \in Callers, TryReservePendingSlot(c), calls' = calls
    PROVE  AgentsInv'
<1>1. /\ Types /\ Shape(version, call[c]) /\ version \in {"V1", "V2"}
  BY AtStep
<1>2. /\ call[c].pc = "room"
      /\ UNCHANGED <<version, tree, paths, total, leaked, runtime, starts, closing,
                     unloads, residents>>
      /\ \/ pending' = pending /\ Goto(c, "count")
         \/ pending' = pending + 1 /\ Goto(c, IF call[c].op = "Spawn" THEN "number" ELSE "resume")
  BY DEF TryReservePendingSlot, registry, manager
<1>3. /\ runtime' \in Runtimes /\ starts' \in [Agents -> 0..MaxStarts]
      /\ closing' \in SUBSET Agents /\ IsList(residents')
  BY <1>1, <1>2 DEF Types, Runtimes
<1>4. CASE pending' = pending /\ Goto(c, "count")
  <2>1. Moves(c, "count", call[c].op, call[c].agent, call[c].name, call[c].victim)
    BY <1>1, <1>4, GotoMoves, StepNames
  <2>2. Shape(version, call'[c]) /\ Holds(c) /\ Promises(c)
    BY <1>1, <1>2, <1>4, <2>1 DEF Moves, Shape, Named, EvictionSteps, Holds, Counted,
       HoldsName, Promises, HoldsSlot
  <2> QED  BY <1>2, <1>3, <2>1, <2>2, MovesOn
<1>5. CASE pending' = pending + 1 /\ Goto(c, IF call[c].op = "Spawn" THEN "number" ELSE "resume")
  <2>1. PICK l \in Steps : l = IF call[c].op = "Spawn" THEN "number" ELSE "resume"
    BY StepNames
  <2>2. Moves(c, l, call[c].op, call[c].agent, call[c].name, call[c].victim)
    BY <1>1, <1>5, <2>1, GotoMoves
  <2>3. Shape(version, call'[c]) /\ Holds(c) /\ Promises(c)
    BY <1>1, <1>2, <1>5, <2>1, <2>2 DEF Moves, Shape, Named, EvictionSteps, Holds, Counted,
       HoldsName, Promises, HoldsSlot
  <2> QED  BY <1>2, <1>3, <2>2, <2>3, MovesOn
<1> QED  BY <1>2, <1>4, <1>5

\* Nothing can be unloaded.
LEMMA LimitReachedInv ==
    ASSUME AgentsInv, NEW c \in Callers, LimitReached(c), calls' = calls
    PROVE  AgentsInv'
<1>1. Types /\ Shape(version, call[c]) /\ version \in {"V1", "V2"}
  BY AtStep
<1>2. /\ call[c].pc = "scan"
      /\ UNCHANGED <<version, tree, paths, total, leaked, runtime, starts, closing,
                     unloads, residents, pending>>
      /\ Return(c)
  BY DEF LimitReached, registry, manager, residency
<1>3. /\ runtime' \in Runtimes /\ starts' \in [Agents -> 0..MaxStarts]
      /\ closing' \in SUBSET Agents /\ IsList(residents')
  BY <1>1, <1>2 DEF Types, Runtimes
<1>4. CASE Return(c)
  <2>1. Moves(c, "idle", "none", NoAgent, NoPath, NoAgent)
    BY <1>1, <1>2, <1>4, ReturnMoves, StepNames
  <2>2. Shape(version, call'[c]) /\ Holds(c) /\ Promises(c)
    BY <1>1, <1>2, <1>4, <2>1 DEF Moves, Shape, Named, EvictionSteps, Holds,
       Counted, HoldsName, Promises, HoldsSlot
  <2> QED  BY <1>2, <1>3, <2>1, <2>2, MovesOn
<1> QED  BY <1>2, <1>4

\* A candidate is looked at.
LEMMA CheckCandidateInv ==
    ASSUME AgentsInv, NEW c \in Callers, CheckCandidate(c), calls' = calls
    PROVE  AgentsInv'
<1>1. Types /\ Shape(version, call[c]) /\ version \in {"V1", "V2"}
  BY AtStep
<1>2. /\ call[c].pc = "check"
      /\ UNCHANGED <<version, tree, paths, total, leaked, runtime, starts, closing,
                     unloads, residents, pending>>
      /\ \/ Goto(c, "scan")
         \/ Goto(c, "touch")
         \/ call' = [call EXCEPT ![c].pc = "unload", ![c].held = starts[call[c].victim]]
            /\ starts[call[c].victim] \in Nat
  BY <1>1 DEF CheckCandidate, registry, manager, residency, Types, Shape
<1>3. /\ runtime' \in Runtimes /\ starts' \in [Agents -> 0..MaxStarts]
      /\ closing' \in SUBSET Agents /\ IsList(residents')
  BY <1>1, <1>2 DEF Types, Runtimes
<1>4. CASE Goto(c, "scan")
  <2>1. Moves(c, "scan", call[c].op, call[c].agent, call[c].name, call[c].victim)
    BY <1>1, <1>2, <1>4, GotoMoves, StepNames
  <2>2. Shape(version, call'[c]) /\ Holds(c) /\ Promises(c)
    BY <1>1, <1>2, <1>4, <2>1 DEF Moves, Shape, Named, EvictionSteps, Holds,
       Counted, HoldsName, Promises, HoldsSlot
  <2> QED  BY <1>2, <1>3, <2>1, <2>2, MovesOn
<1>5. CASE Goto(c, "touch")
  <2>1. Moves(c, "touch", call[c].op, call[c].agent, call[c].name, call[c].victim)
    BY <1>1, <1>2, <1>5, GotoMoves, StepNames
  <2>2. Shape(version, call'[c]) /\ Holds(c) /\ Promises(c)
    BY <1>1, <1>2, <1>5, <2>1 DEF Moves, Shape, Named, EvictionSteps, Holds,
       Counted, HoldsName, Promises, HoldsSlot
  <2> QED  BY <1>2, <1>3, <2>1, <2>2, MovesOn
<1>6. CASE call' = [call EXCEPT ![c].pc = "unload", ![c].held = starts[call[c].victim]]
            /\ starts[call[c].victim] \in Nat
  <2>1. Moves(c, "unload", call[c].op, call[c].agent, call[c].name, call[c].victim)
    BY <1>1, <1>2, <1>6, HeldMoves, StepNames DEF Types
  <2>2. Shape(version, call'[c]) /\ Holds(c) /\ Promises(c)
    BY <1>1, <1>2, <1>6, <2>1 DEF Moves, Shape, Named, EvictionSteps, Holds,
       Counted, HoldsName, Promises, HoldsSlot
  <2> QED  BY <1>2, <1>3, <2>1, <2>2, MovesOn
<1> QED  BY <1>2, <1>4, <1>5, <1>6

\* A candidate is put back.
LEMMA TouchCandidateInv ==
    ASSUME AgentsInv, NEW c \in Callers, TouchCandidate(c), calls' = calls
    PROVE  AgentsInv'
<1>1. Types /\ Shape(version, call[c]) /\ version \in {"V1", "V2"}
  BY AtStep
<1>2. /\ call[c].pc = "touch"
      /\ UNCHANGED <<version, tree, paths, total, leaked, runtime, starts, closing,
                     unloads, pending>>
      /\ residents' = Touch(call[c].victim)
      /\ Goto(c, "scan")
  BY DEF TouchCandidate, registry, manager
<1>3. /\ runtime' \in Runtimes /\ starts' \in [Agents -> 0..MaxStarts]
      /\ closing' \in SUBSET Agents /\ IsList(residents')
  <2>1. call[c].victim \in Agents
    BY <1>1, <1>2 DEF Shape
  <2> QED  BY <1>1, <1>2, <2>1, TouchList DEF Types, Runtimes
<1>4. CASE Goto(c, "scan")
  <2>1. Moves(c, "scan", call[c].op, call[c].agent, call[c].name, call[c].victim)
    BY <1>1, <1>2, <1>4, GotoMoves, StepNames
  <2>2. Shape(version, call'[c]) /\ Holds(c) /\ Promises(c)
    BY <1>1, <1>2, <1>4, <2>1 DEF Moves, Shape, Named, EvictionSteps, Holds,
       Counted, HoldsName, Promises, HoldsSlot
  <2> QED  BY <1>2, <1>3, <2>1, <2>2, MovesOn
<1> QED  BY <1>2, <1>4

\* A candidate is shut down.
LEMMA ShutdownCandidateInv ==
    ASSUME AgentsInv, NEW c \in Callers, ShutdownCandidate(c), calls' = calls
    PROVE  AgentsInv'
<1>1. Types /\ Shape(version, call[c]) /\ version \in {"V1", "V2"}
  BY AtStep
<1>2. /\ call[c].pc = "unload"
      /\ UNCHANGED <<version, tree, paths, total, leaked, starts, closing, unloads,
                     residents, pending>>
      /\ \/ runtime' = runtime
         \/ runtime' = [runtime EXCEPT ![call[c].victim] = "dead"]
      /\ Goto(c, "evict")
  BY DEF ShutdownCandidate, registry, residency
<1>3. /\ runtime' \in Runtimes /\ starts' \in [Agents -> 0..MaxStarts]
      /\ closing' \in SUBSET Agents /\ IsList(residents')
  BY <1>1, <1>2 DEF Types, Runtimes
<1>4. CASE Goto(c, "evict")
  <2>1. Moves(c, "evict", call[c].op, call[c].agent, call[c].name, call[c].victim)
    BY <1>1, <1>2, <1>4, GotoMoves, StepNames
  <2>2. Shape(version, call'[c]) /\ Holds(c) /\ Promises(c)
    BY <1>1, <1>2, <1>4, <2>1 DEF Moves, Shape, Named, EvictionSteps, Holds,
       Counted, HoldsName, Promises, HoldsSlot
  <2> QED  BY <1>2, <1>3, <2>1, <2>2, MovesOn
<1> QED  BY <1>2, <1>4

\* A candidate is removed.
LEMMA RemoveCandidateInv ==
    ASSUME AgentsInv, NEW c \in Callers, RemoveCandidate(c), calls' = calls
    PROVE  AgentsInv'
<1>1. Types /\ Shape(version, call[c]) /\ version \in {"V1", "V2"}
  BY AtStep
<1>2. /\ call[c].pc = "evict"
      /\ UNCHANGED <<version, tree, paths, total, leaked, starts, closing, unloads,
                     residents, pending>>
      /\ runtime' = [runtime EXCEPT ![call[c].victim] = "absent"]
      /\ call' = [call EXCEPT ![c].pc = "room", ![c].victim = NoAgent, ![c].held = 0, ![c].left = 0]
  BY DEF RemoveCandidate, registry, residency
<1>3. /\ runtime' \in Runtimes /\ starts' \in [Agents -> 0..MaxStarts]
      /\ closing' \in SUBSET Agents /\ IsList(residents')
  BY <1>1, <1>2 DEF Types, Runtimes
<1>4. CASE call' = [call EXCEPT ![c].pc = "room", ![c].victim = NoAgent, ![c].held = 0, ![c].left = 0]
  <2>1. Moves(c, "room", call[c].op, call[c].agent, call[c].name, NoAgent)
    BY <1>1, <1>2, <1>4, ClearMoves, StepNames
  <2>2. Shape(version, call'[c]) /\ Holds(c) /\ Promises(c)
    BY <1>1, <1>2, <1>4, <2>1 DEF Moves, Shape, Named, EvictionSteps, Holds,
       Counted, HoldsName, Promises, HoldsSlot
  <2> QED  BY <1>2, <1>3, <2>1, <2>2, MovesOn
<1> QED  BY <1>2, <1>4

\* A thread cannot be started.
LEMMA StartFailsInv ==
    ASSUME AgentsInv, NEW c \in Callers, StartFails(c), calls' = calls
    PROVE  AgentsInv'
<1>1. Types /\ Shape(version, call[c]) /\ version \in {"V1", "V2"}
  BY AtStep
<1>2. /\ call[c].pc = "start"
      /\ UNCHANGED <<version, tree, paths, total, leaked, runtime, starts, closing,
                     unloads, residents, pending>>
      /\ Goto(c, IF version = "V2" THEN "unname" ELSE "uncount")
  BY DEF StartFails, registry, manager, residency
<1>3. /\ runtime' \in Runtimes /\ starts' \in [Agents -> 0..MaxStarts]
      /\ closing' \in SUBSET Agents /\ IsList(residents')
  BY <1>1, <1>2 DEF Types, Runtimes
<1>4. CASE Goto(c, IF version = "V2" THEN "unname" ELSE "uncount")
  <2>1. PICK l \in Steps : l = IF version = "V2" THEN "unname" ELSE "uncount"
    BY StepNames DEF Loaded
  <2>2. Moves(c, l, call[c].op, call[c].agent, call[c].name, call[c].victim)
    BY <1>1, <1>2, <1>4, <2>1, GotoMoves, StepNames
  <2>3. Shape(version, call'[c]) /\ Holds(c) /\ Promises(c)
    BY <1>1, <1>2, <1>4, <2>1, <2>2 DEF Moves, Shape, Named, EvictionSteps, Holds,
       Counted, HoldsName, Promises, HoldsSlot
  <2> QED  BY <1>2, <1>3, <2>2, <2>3, MovesOn
<1> QED  BY <1>2, <1>4

\* An agent is looked up.
LEMMA LookupAgentInv ==
    ASSUME AgentsInv, NEW c \in Callers, LookupAgent(c), calls' = calls
    PROVE  AgentsInv'
<1>1. Types /\ Shape(version, call[c]) /\ version \in {"V1", "V2"}
  BY AtStep
<1>2. /\ call[c].pc = "lookup"
      /\ UNCHANGED <<version, tree, paths, total, leaked, runtime, starts, closing,
                     unloads, residents, pending>>
      /\ \/ Goto(c, "retouch")
         \/ Goto(c, "known")
         \/ Goto(c, "room")
         \/ Return(c)
  BY DEF LookupAgent, registry, manager, residency
<1>3. /\ runtime' \in Runtimes /\ starts' \in [Agents -> 0..MaxStarts]
      /\ closing' \in SUBSET Agents /\ IsList(residents')
  BY <1>1, <1>2 DEF Types, Runtimes
<1>4. CASE Goto(c, "retouch")
  <2>1. Moves(c, "retouch", call[c].op, call[c].agent, call[c].name, call[c].victim)
    BY <1>1, <1>2, <1>4, GotoMoves, StepNames
  <2>2. Shape(version, call'[c]) /\ Holds(c) /\ Promises(c)
    BY <1>1, <1>2, <1>4, <2>1 DEF Moves, Shape, Named, EvictionSteps, Holds,
       Counted, HoldsName, Promises, HoldsSlot
  <2> QED  BY <1>2, <1>3, <2>1, <2>2, MovesOn
<1>5. CASE Goto(c, "known")
  <2>1. Moves(c, "known", call[c].op, call[c].agent, call[c].name, call[c].victim)
    BY <1>1, <1>2, <1>5, GotoMoves, StepNames
  <2>2. Shape(version, call'[c]) /\ Holds(c) /\ Promises(c)
    BY <1>1, <1>2, <1>5, <2>1 DEF Moves, Shape, Named, EvictionSteps, Holds,
       Counted, HoldsName, Promises, HoldsSlot
  <2> QED  BY <1>2, <1>3, <2>1, <2>2, MovesOn
<1>6. CASE Goto(c, "room")
  <2>1. Moves(c, "room", call[c].op, call[c].agent, call[c].name, call[c].victim)
    BY <1>1, <1>2, <1>6, GotoMoves, StepNames
  <2>2. Shape(version, call'[c]) /\ Holds(c) /\ Promises(c)
    BY <1>1, <1>2, <1>6, <2>1 DEF Moves, Shape, Named, EvictionSteps, Holds,
       Counted, HoldsName, Promises, HoldsSlot
  <2> QED  BY <1>2, <1>3, <2>1, <2>2, MovesOn
<1>7. CASE Return(c)
  <2>1. Moves(c, "idle", "none", NoAgent, NoPath, NoAgent)
    BY <1>1, <1>2, <1>7, ReturnMoves, StepNames
  <2>2. Shape(version, call'[c]) /\ Holds(c) /\ Promises(c)
    BY <1>1, <1>2, <1>7, <2>1 DEF Moves, Shape, Named, EvictionSteps, Holds,
       Counted, HoldsName, Promises, HoldsSlot
  <2> QED  BY <1>2, <1>3, <2>1, <2>2, MovesOn
<1> QED  BY <1>2, <1>4, <1>5, <1>6, <1>7

\* An agent is known, or the call fails.
LEMMA AgentKnownInv ==
    ASSUME AgentsInv, NEW c \in Callers, AgentKnown(c), calls' = calls
    PROVE  AgentsInv'
<1>1. Types /\ Shape(version, call[c]) /\ version \in {"V1", "V2"}
  BY AtStep
<1>2. /\ call[c].pc = "known"
      /\ UNCHANGED <<version, tree, paths, total, leaked, runtime, starts, closing,
                     unloads, residents, pending>>
      /\ \/ Goto(c, IF call[c].op = "Send" THEN "room" ELSE "lookup")
         \/ Return(c)
  BY DEF AgentKnown, registry, manager, residency
<1>3. /\ runtime' \in Runtimes /\ starts' \in [Agents -> 0..MaxStarts]
      /\ closing' \in SUBSET Agents /\ IsList(residents')
  BY <1>1, <1>2 DEF Types, Runtimes
<1>4. CASE Goto(c, IF call[c].op = "Send" THEN "room" ELSE "lookup")
  <2>1. PICK l \in Steps : l = IF call[c].op = "Send" THEN "room" ELSE "lookup"
    BY StepNames DEF Loaded
  <2>2. Moves(c, l, call[c].op, call[c].agent, call[c].name, call[c].victim)
    BY <1>1, <1>2, <1>4, <2>1, GotoMoves, StepNames
  <2>3. Shape(version, call'[c]) /\ Holds(c) /\ Promises(c)
    BY <1>1, <1>2, <1>4, <2>1, <2>2 DEF Moves, Shape, Named, EvictionSteps, Holds,
       Counted, HoldsName, Promises, HoldsSlot
  <2> QED  BY <1>2, <1>3, <2>2, <2>3, MovesOn
<1>5. CASE Return(c)
  <2>1. Moves(c, "idle", "none", NoAgent, NoPath, NoAgent)
    BY <1>1, <1>2, <1>5, ReturnMoves, StepNames
  <2>2. Shape(version, call'[c]) /\ Holds(c) /\ Promises(c)
    BY <1>1, <1>2, <1>5, <2>1 DEF Moves, Shape, Named, EvictionSteps, Holds,
       Counted, HoldsName, Promises, HoldsSlot
  <2> QED  BY <1>2, <1>3, <2>1, <2>2, MovesOn
<1> QED  BY <1>2, <1>4, <1>5

\* A loaded agent is touched.
LEMMA TouchLoadedInv ==
    ASSUME AgentsInv, NEW c \in Callers, TouchLoaded(c), calls' = calls
    PROVE  AgentsInv'
<1>1. Types /\ Shape(version, call[c]) /\ version \in {"V1", "V2"}
  BY AtStep
<1>2. /\ call[c].pc = "retouch"
      /\ UNCHANGED <<version, tree, paths, total, leaked, runtime, starts, closing,
                     unloads, pending>>
      /\ residents' = residents \/ residents' = Touch(call[c].agent)
      /\ \/ call[c].op = "Send" /\ Goto(c, "deliver")
         \/ call[c].op # "Send" /\ Return(c)
  BY DEF TouchLoaded, registry, manager
<1>3. /\ runtime' \in Runtimes /\ starts' \in [Agents -> 0..MaxStarts]
      /\ closing' \in SUBSET Agents /\ IsList(residents')
  <2>1. call[c].agent \in Agents
    BY <1>1, <1>2 DEF Shape
  <2> QED  BY <1>1, <1>2, <2>1, TouchList DEF Types, Runtimes
<1>4. CASE call[c].op = "Send" /\ Goto(c, "deliver")
  <2>1. Moves(c, "deliver", call[c].op, call[c].agent, call[c].name, call[c].victim)
    BY <1>1, <1>2, <1>4, GotoMoves, StepNames
  <2>2. Shape(version, call'[c]) /\ Holds(c) /\ Promises(c)
    BY <1>1, <1>2, <1>4, <2>1 DEF Moves, Shape, Named, EvictionSteps, Holds,
       Counted, HoldsName, Promises, HoldsSlot
  <2> QED  BY <1>2, <1>3, <2>1, <2>2, MovesOn
<1>5. CASE call[c].op # "Send" /\ Return(c)
  <2>1. Moves(c, "idle", "none", NoAgent, NoPath, NoAgent)
    BY <1>1, <1>2, <1>5, ReturnMoves, StepNames
  <2>2. Shape(version, call'[c]) /\ Holds(c) /\ Promises(c)
    BY <1>1, <1>2, <1>5, <2>1 DEF Moves, Shape, Named, EvictionSteps, Holds,
       Counted, HoldsName, Promises, HoldsSlot
  <2> QED  BY <1>2, <1>3, <2>1, <2>2, MovesOn
<1> QED  BY <1>2, <1>4, <1>5

\* A runtime is found, or a dead one removed.
LEMMA ResumeThreadInv ==
    ASSUME AgentsInv, NEW c \in Callers, ResumeThread(c), calls' = calls
    PROVE  AgentsInv'
<1>1. Types /\ Shape(version, call[c]) /\ version \in {"V1", "V2"}
  BY AtStep
<1>2. /\ call[c].pc = "resume"
      /\ UNCHANGED <<version, tree, paths, total, leaked, starts, closing, unloads,
                     residents, pending>>
      /\ runtime' = runtime \/ runtime' = [runtime EXCEPT ![call[c].agent] = "absent"]
      /\ \/ Goto(c, "insert")
         \/ Goto(c, IF version = "V2" THEN "place" ELSE "register")
  BY DEF ResumeThread, Loaded, registry, residency
<1>3. /\ runtime' \in Runtimes /\ starts' \in [Agents -> 0..MaxStarts]
      /\ closing' \in SUBSET Agents /\ IsList(residents')
  BY <1>1, <1>2 DEF Types, Runtimes
<1>4. CASE Goto(c, "insert")
  <2>1. Moves(c, "insert", call[c].op, call[c].agent, call[c].name, call[c].victim)
    BY <1>1, <1>2, <1>4, GotoMoves, StepNames
  <2>2. Shape(version, call'[c]) /\ Holds(c) /\ Promises(c)
    BY <1>1, <1>2, <1>4, <2>1 DEF Moves, Shape, Named, EvictionSteps, Holds,
       Counted, HoldsName, Promises, HoldsSlot
  <2> QED  BY <1>2, <1>3, <2>1, <2>2, MovesOn
<1>5. CASE Goto(c, IF version = "V2" THEN "place" ELSE "register")
  <2>1. PICK l \in Steps : l = IF version = "V2" THEN "place" ELSE "register"
    BY StepNames DEF Loaded
  <2>2. Moves(c, l, call[c].op, call[c].agent, call[c].name, call[c].victim)
    BY <1>1, <1>2, <1>5, <2>1, GotoMoves, StepNames
  <2>3. Shape(version, call'[c]) /\ Holds(c) /\ Promises(c)
    BY <1>1, <1>2, <1>5, <2>1, <2>2 DEF Moves, Shape, Named, EvictionSteps, Holds,
       Counted, HoldsName, Promises, HoldsSlot
  <2> QED  BY <1>2, <1>3, <2>2, <2>3, MovesOn
<1> QED  BY <1>2, <1>4, <1>5

\* A runtime cannot be started, or another was.
LEMMA InsertFailsInv ==
    ASSUME AgentsInv, NEW c \in Callers, InsertFails(c), calls' = calls
    PROVE  AgentsInv'
<1>1. Types /\ Shape(version, call[c]) /\ version \in {"V1", "V2"}
  BY AtStep
<1>2. /\ call[c].pc = "insert"
      /\ UNCHANGED <<version, tree, paths, total, leaked, runtime, starts, closing,
                     unloads, residents, pending>>
      /\ Goto(c, IF version = "V2" THEN "recheck" ELSE "uncount")
  BY DEF InsertFails, registry, manager, residency
<1>3. /\ runtime' \in Runtimes /\ starts' \in [Agents -> 0..MaxStarts]
      /\ closing' \in SUBSET Agents /\ IsList(residents')
  BY <1>1, <1>2 DEF Types, Runtimes
<1>4. CASE Goto(c, IF version = "V2" THEN "recheck" ELSE "uncount")
  <2>1. PICK l \in Steps : l = IF version = "V2" THEN "recheck" ELSE "uncount"
    BY StepNames DEF Loaded
  <2>2. Moves(c, l, call[c].op, call[c].agent, call[c].name, call[c].victim)
    BY <1>1, <1>2, <1>4, <2>1, GotoMoves, StepNames
  <2>3. Shape(version, call'[c]) /\ Holds(c) /\ Promises(c)
    BY <1>1, <1>2, <1>4, <2>1, <2>2 DEF Moves, Shape, Named, EvictionSteps, Holds,
       Counted, HoldsName, Promises, HoldsSlot
  <2> QED  BY <1>2, <1>3, <2>2, <2>3, MovesOn
<1> QED  BY <1>2, <1>4

\* A reload that failed looks again.
LEMMA RecheckLoadedInv ==
    ASSUME AgentsInv, NEW c \in Callers, RecheckLoaded(c), calls' = calls
    PROVE  AgentsInv'
<1>1. Types /\ Shape(version, call[c]) /\ version \in {"V1", "V2"}
  BY AtStep
<1>2. /\ call[c].pc = "recheck"
      /\ UNCHANGED <<version, tree, paths, total, leaked, runtime, starts, closing,
                     unloads, residents, pending>>
      /\ Goto(c, IF Usable(c) THEN "swap" ELSE "unslot")
  BY DEF RecheckLoaded, registry, manager, residency
<1>3. /\ runtime' \in Runtimes /\ starts' \in [Agents -> 0..MaxStarts]
      /\ closing' \in SUBSET Agents /\ IsList(residents')
  BY <1>1, <1>2 DEF Types, Runtimes
<1>4. CASE Goto(c, IF Usable(c) THEN "swap" ELSE "unslot")
  <2>1. PICK l \in Steps : l = IF Usable(c) THEN "swap" ELSE "unslot"
    BY StepNames DEF Loaded
  <2>2. Moves(c, l, call[c].op, call[c].agent, call[c].name, call[c].victim)
    BY <1>1, <1>2, <1>4, <2>1, GotoMoves, StepNames
  <2>3. Shape(version, call'[c]) /\ Holds(c) /\ Promises(c)
    BY <1>1, <1>2, <1>4, <2>1, <2>2 DEF Moves, Shape, Named, EvictionSteps, Holds,
       Counted, HoldsName, Promises, HoldsSlot
  <2> QED  BY <1>2, <1>3, <2>2, <2>3, MovesOn
<1> QED  BY <1>2, <1>4

\* A slot is dropped.
LEMMA DropSlotInv ==
    ASSUME AgentsInv, NEW c \in Callers, DropSlot(c), calls' = calls
    PROVE  AgentsInv'
<1>1. Types /\ Shape(version, call[c]) /\ version \in {"V1", "V2"}
  BY AtStep
<1>2. /\ call[c].pc \in {"swap", "unslot"}
      /\ UNCHANGED <<version, tree, paths, total, leaked, runtime, starts, closing,
                     unloads, residents>>
      /\ pending' = pending - 1
      /\ \/ call[c].pc = "swap" /\ Goto(c, "retouch")
         \/ call[c].pc = "unslot" /\ Return(c)
  BY DEF DropSlot, registry, manager
<1>3. /\ runtime' \in Runtimes /\ starts' \in [Agents -> 0..MaxStarts]
      /\ closing' \in SUBSET Agents /\ IsList(residents')
  BY <1>1, <1>2 DEF Types, Runtimes
<1>4. CASE call[c].pc = "swap" /\ Goto(c, "retouch")
  <2>1. Moves(c, "retouch", call[c].op, call[c].agent, call[c].name, call[c].victim)
    BY <1>1, <1>2, <1>4, GotoMoves, StepNames
  <2>2. Shape(version, call'[c]) /\ Holds(c) /\ Promises(c)
    BY <1>1, <1>2, <1>4, <2>1 DEF Moves, Shape, Named, EvictionSteps, Holds,
       Counted, HoldsName, Promises, HoldsSlot
  <2> QED  BY <1>2, <1>3, <2>1, <2>2, MovesOn
<1>5. CASE call[c].pc = "unslot" /\ Return(c)
  <2>1. Moves(c, "idle", "none", NoAgent, NoPath, NoAgent)
    BY <1>1, <1>2, <1>5, ReturnMoves, StepNames
  <2>2. Shape(version, call'[c]) /\ Holds(c) /\ Promises(c)
    BY <1>1, <1>2, <1>5, <2>1 DEF Moves, Shape, Named, EvictionSteps, Holds,
       Counted, HoldsName, Promises, HoldsSlot
  <2> QED  BY <1>2, <1>3, <2>1, <2>2, MovesOn
<1> QED  BY <1>2, <1>4, <1>5

\* A slot is committed.
LEMMA CommitSlotInv ==
    ASSUME AgentsInv, NEW c \in Callers, CommitSlot(c), calls' = calls
    PROVE  AgentsInv'
<1>1. Types /\ Shape(version, call[c]) /\ version \in {"V1", "V2"}
  BY AtStep
<1>2. /\ call[c].pc = "place"
      /\ UNCHANGED <<version, tree, paths, total, leaked, runtime, starts, closing,
                     unloads>>
      /\ pending' = pending - 1 /\ residents' \in {residents, Touch(call[c].agent)}
      /\ \/ call[c].op # "Open" /\ Goto(c, "deliver")
         \/ call[c].op = "Open" /\ Return(c)
  BY DEF CommitSlot, registry, manager
<1>3. /\ runtime' \in Runtimes /\ starts' \in [Agents -> 0..MaxStarts]
      /\ closing' \in SUBSET Agents /\ IsList(residents')
  <2>1. call[c].agent \in Agents
    BY <1>1, <1>2 DEF Shape
  <2> QED  BY <1>1, <1>2, <2>1, TouchList DEF Types, Runtimes
<1>4. CASE call[c].op # "Open" /\ Goto(c, "deliver")
  <2>1. Moves(c, "deliver", call[c].op, call[c].agent, call[c].name, call[c].victim)
    BY <1>1, <1>2, <1>4, GotoMoves, StepNames
  <2>2. Shape(version, call'[c]) /\ Holds(c) /\ Promises(c)
    BY <1>1, <1>2, <1>4, <2>1 DEF Moves, Shape, Named, EvictionSteps, Holds,
       Counted, HoldsName, Promises, HoldsSlot
  <2> QED  BY <1>2, <1>3, <2>1, <2>2, MovesOn
<1>5. CASE call[c].op = "Open" /\ Return(c)
  <2>1. Moves(c, "idle", "none", NoAgent, NoPath, NoAgent)
    BY <1>1, <1>2, <1>5, ReturnMoves, StepNames
  <2>2. Shape(version, call'[c]) /\ Holds(c) /\ Promises(c)
    BY <1>1, <1>2, <1>5, <2>1 DEF Moves, Shape, Named, EvictionSteps, Holds,
       Counted, HoldsName, Promises, HoldsSlot
  <2> QED  BY <1>2, <1>3, <2>1, <2>2, MovesOn
<1> QED  BY <1>2, <1>4, <1>5

\* An agent gets its input, is gone, or is found dead.
LEMMA DeliverInv ==
    ASSUME AgentsInv, NEW c \in Callers, Deliver(c), calls' = calls
    PROVE  AgentsInv'
<1>1. Types /\ Shape(version, call[c]) /\ version \in {"V1", "V2"}
  BY AtStep
<1>2. /\ call[c].pc = "deliver"
      /\ UNCHANGED <<version, tree, paths, total, leaked, starts, closing, unloads,
                     residents, pending>>
      /\ runtime' = runtime \/ runtime' = [runtime EXCEPT ![call[c].agent] = "busy"]
      /\ \/ Return(c)
         \/ call' = [call EXCEPT ![c].pc = "remove", ![c].op = "Bury", ![c].name = NoPath]
  BY DEF Deliver, registry, residency
<1>3. /\ runtime' \in Runtimes /\ starts' \in [Agents -> 0..MaxStarts]
      /\ closing' \in SUBSET Agents /\ IsList(residents')
  BY <1>1, <1>2 DEF Types, Runtimes
<1>4. CASE Return(c)
  <2>1. Moves(c, "idle", "none", NoAgent, NoPath, NoAgent)
    BY <1>1, <1>2, <1>4, ReturnMoves, StepNames
  <2>2. Shape(version, call'[c]) /\ Holds(c) /\ Promises(c)
    BY <1>1, <1>2, <1>4, <2>1 DEF Moves, Shape, Named, EvictionSteps, Holds,
       Counted, HoldsName, Promises, HoldsSlot
  <2> QED  BY <1>2, <1>3, <2>1, <2>2, MovesOn
<1>5. CASE call' = [call EXCEPT ![c].pc = "remove", ![c].op = "Bury", ![c].name = NoPath]
  <2>1. Moves(c, "remove", "Bury", call[c].agent, NoPath, call[c].victim)
    BY <1>1, <1>2, <1>5, BuryMoves, StepNames DEF Types
  <2>2. Shape(version, call'[c]) /\ Holds(c) /\ Promises(c)
    BY <1>1, <1>2, <1>5, <2>1 DEF Moves, Shape, Named, EvictionSteps, Holds,
       Counted, HoldsName, Promises, HoldsSlot
  <2> QED  BY <1>2, <1>3, <2>1, <2>2, MovesOn
<1> QED  BY <1>2, <1>4, <1>5

\* An agent is shut down.
LEMMA ShutdownAgentInv ==
    ASSUME AgentsInv, NEW c \in Callers, ShutdownAgent(c), calls' = calls
    PROVE  AgentsInv'
<1>1. Types /\ Shape(version, call[c]) /\ version \in {"V1", "V2"}
  BY AtStep
<1>2. /\ call[c].pc = "shutdown"
      /\ UNCHANGED <<version, tree, paths, total, leaked, starts, closing, unloads,
                     residents, pending>>
      /\ runtime' = runtime \/ runtime' = [runtime EXCEPT ![call[c].agent] = "dead"]
      /\ Goto(c, "remove")
  BY DEF ShutdownAgent, registry, residency
<1>3. /\ runtime' \in Runtimes /\ starts' \in [Agents -> 0..MaxStarts]
      /\ closing' \in SUBSET Agents /\ IsList(residents')
  BY <1>1, <1>2 DEF Types, Runtimes
<1>4. CASE Goto(c, "remove")
  <2>1. Moves(c, "remove", call[c].op, call[c].agent, call[c].name, call[c].victim)
    BY <1>1, <1>2, <1>4, GotoMoves, StepNames
  <2>2. Shape(version, call'[c]) /\ Holds(c) /\ Promises(c)
    BY <1>1, <1>2, <1>4, <2>1 DEF Moves, Shape, Named, EvictionSteps, Holds,
       Counted, HoldsName, Promises, HoldsSlot
  <2> QED  BY <1>2, <1>3, <2>1, <2>2, MovesOn
<1> QED  BY <1>2, <1>4

\* An agent is removed.
LEMMA RemoveThreadInv ==
    ASSUME AgentsInv, NEW c \in Callers, RemoveThread(c), calls' = calls
    PROVE  AgentsInv'
<1>1. Types /\ Shape(version, call[c]) /\ version \in {"V1", "V2"}
  BY AtStep
<1>2. /\ call[c].pc = "remove"
      /\ UNCHANGED <<version, tree, paths, total, leaked, starts, closing, unloads,
                     residents, pending>>
      /\ runtime' = [runtime EXCEPT ![call[c].agent] = "absent"]
      /\ Goto(c, "forget")
  BY DEF RemoveThread, registry, residency
<1>3. /\ runtime' \in Runtimes /\ starts' \in [Agents -> 0..MaxStarts]
      /\ closing' \in SUBSET Agents /\ IsList(residents')
  BY <1>1, <1>2 DEF Types, Runtimes
<1>4. CASE Goto(c, "forget")
  <2>1. Moves(c, "forget", call[c].op, call[c].agent, call[c].name, call[c].victim)
    BY <1>1, <1>2, <1>4, GotoMoves, StepNames
  <2>2. Shape(version, call'[c]) /\ Holds(c) /\ Promises(c)
    BY <1>1, <1>2, <1>4, <2>1 DEF Moves, Shape, Named, EvictionSteps, Holds,
       Counted, HoldsName, Promises, HoldsSlot
  <2> QED  BY <1>2, <1>3, <2>1, <2>2, MovesOn
<1> QED  BY <1>2, <1>4

\* An agent leaves the residency list.
LEMMA ForgetResidencyInv ==
    ASSUME AgentsInv, NEW c \in Callers, ForgetResidency(c), calls' = calls
    PROVE  AgentsInv'
<1>1. Types /\ Shape(version, call[c]) /\ version \in {"V1", "V2"}
  BY AtStep
<1>2. /\ call[c].pc = "forget"
      /\ UNCHANGED <<version, tree, paths, total, leaked, runtime, starts, closing,
                     unloads, pending>>
      /\ residents' = Without(call[c].agent)
      /\ Goto(c, "release")
  BY DEF ForgetResidency, registry, manager
<1>3. /\ runtime' \in Runtimes /\ starts' \in [Agents -> 0..MaxStarts]
      /\ closing' \in SUBSET Agents /\ IsList(residents')
  BY <1>1, <1>2, WithoutList DEF Types, Runtimes
<1>4. CASE Goto(c, "release")
  <2>1. Moves(c, "release", call[c].op, call[c].agent, call[c].name, call[c].victim)
    BY <1>1, <1>2, <1>4, GotoMoves, StepNames
  <2>2. Shape(version, call'[c]) /\ Holds(c) /\ Promises(c)
    BY <1>1, <1>2, <1>4, <2>1 DEF Moves, Shape, Named, EvictionSteps, Holds,
       Counted, HoldsName, Promises, HoldsSlot
  <2> QED  BY <1>2, <1>3, <2>1, <2>2, MovesOn
<1> QED  BY <1>2, <1>4

\* A set of natural numbers that is not empty has a least element.
LEMMA LeastOf ==
    ASSUME NEW T, T \subseteq Nat, T # {}
    PROVE  \E i \in T : \A j \in T : i <= j
<1>1. PICK R : R = OpToRel(<, Nat)
  OBVIOUS
<1>2. IsWellFoundedOn(R, Nat)
  BY <1>1, NatLessThanWellFounded
<1>3. \A i, j \in Nat : i < j => <<i, j>> \in R
  BY <1>1 DEF OpToRel
<1>4. PICK x \in T : \A y \in T : ~ (<<y, x>> \in R)
  BY <1>2, WFMin
<1>5. x \in Nat /\ \A y \in T : y \in Nat /\ ~(y < x)
  BY <1>3, <1>4
<1>6. \A y \in T : x <= y
  BY <1>5
<1> QED  BY <1>6

\* The candidates are counted.
LEMMA CountResidentsInv ==
    ASSUME AgentsInv, NEW c \in Callers, CountResidents(c), calls' = calls
    PROVE  AgentsInv'
<1>1. Types /\ Shape(version, call[c]) /\ version \in {"V1", "V2"}
  BY AtStep
<1>2. /\ call[c].pc = "count"
      /\ call' = [call EXCEPT ![c].pc = "scan", ![c].left = Len(residents)]
      /\ UNCHANGED <<version, tree, paths, total, leaked, runtime, starts, closing,
                     unloads, residents, pending>>
  BY DEF CountResidents, registry, manager, residency
<1>3. /\ runtime' \in Runtimes /\ starts' \in [Agents -> 0..MaxStarts]
      /\ closing' \in SUBSET Agents /\ IsList(residents')
  BY <1>1, <1>2 DEF Types, Runtimes
<1>4. Len(residents) \in Nat
  BY <1>1 DEF Types, IsList
<1>5. Moves(c, "scan", call[c].op, call[c].agent, call[c].name, call[c].victim)
  BY <1>1, <1>2, <1>4, LeftMoves, StepNames
<1>6. Shape(version, call'[c]) /\ Holds(c) /\ Promises(c)
  BY <1>1, <1>2, <1>5 DEF Moves, Shape, Named, EvictionSteps, Holds,
       Counted, HoldsName, Promises, HoldsSlot
<1> QED  BY <1>2, <1>3, <1>5, <1>6, MovesOn

\* What taking the i-th resident for a candidate does.
Pops(c, i) ==
    /\ residents' = SubSeq(residents, i + 1, Len(residents)) \o SubSeq(residents, 1, i - 1)
    /\ residents[i] \in Agents
    /\ Moves(c, "check", call[c].op, call[c].agent, call[c].name, residents[i])

\* One resident is taken.
LEMMA PopsOne ==
    ASSUME AgentsInv, NEW c \in Callers, PopLruCandidate(c)
    PROVE  \E i \in DOMAIN residents : Pops(c, i)
<1>1. Types /\ Shape(version, call[c]) /\ call[c] \in CallTypes
  BY AtStep
<1>2. call[c].pc = "scan" /\ call[c].left > 0 /\ Candidates(c) # {}
  BY DEF PopLruCandidate
<1>3. PICK i : i = CHOOSE k \in Candidates(c) : \A j \in Candidates(c) : k <= j
  OBVIOUS
<1>4. /\ residents' = SubSeq(residents, i + 1, Len(residents)) \o SubSeq(residents, 1, i - 1)
      /\ call' = [call EXCEPT ![c].pc = "check", ![c].victim = residents[i],
                              ![c].left = call[c].left - 1]
  <2>1. call' = [call EXCEPT ![c].pc = "check", ![c].victim = residents[i],
                             ![c].left = @ - 1]
    BY <1>3 DEF PopLruCandidate
  <2>2. [call EXCEPT ![c].pc = "check", ![c].victim = residents[i], ![c].left = @ - 1]
        = [call EXCEPT ![c].pc = "check", ![c].victim = residents[i],
                       ![c].left = call[c].left - 1]
    BY <1>1 DEF Types, CallTypes
  <2> QED  BY <1>3, <2>1, <2>2 DEF PopLruCandidate
<1>5. i \in Candidates(c)
  <2>1. Candidates(c) \subseteq Nat
    BY <1>1 DEF Types, IsList, Candidates
  <2>2. \E k \in Candidates(c) : \A j \in Candidates(c) : k <= j
    BY <1>2, <2>1, LeastOf
  <2> QED  BY <1>3, <2>2
<1>6. i \in DOMAIN residents /\ residents[i] \in Agents
  BY <1>1, <1>5 DEF Candidates, Types, IsList
<1>7. call[c].left - 1 \in Nat
  BY <1>1, <1>2 DEF CallTypes
<1>8. PICK n \in Nat : n = call[c].left - 1
  BY <1>7
<1>9. Moves(c, "check", call[c].op, call[c].agent, call[c].name, residents[i])
  BY <1>1, <1>4, <1>6, <1>8, VictimMoves, StepNames
<1> QED  BY <1>4, <1>6, <1>9 DEF Pops

\* The others stay, and the candidate is off the list.
LEMMA PopsList ==
    ASSUME IsList(residents), NEW c, NEW i \in DOMAIN residents, Pops(c, i)
    PROVE  /\ IsList(residents') /\ ~In(residents[i], residents')
           /\ \A b : b # residents[i] /\ In(b, residents) => In(b, residents')
           /\ \A b : In(b, residents') => In(b, residents)
<1>1. PICK s, t : s = residents /\ t = residents'
  OBVIOUS
<1>2. /\ IsList(s) /\ i \in DOMAIN s
      /\ \/ t = SubSeq(s, 1, i - 1) \o SubSeq(s, i + 1, Len(s))
         \/ t = SubSeq(s, i + 1, Len(s)) \o SubSeq(s, 1, i - 1)
  BY <1>1 DEF Pops
<1>3. /\ IsList(t) /\ ~In(s[i], t) /\ \A b : b # s[i] /\ In(b, s) => In(b, t)
      /\ \A b : In(b, t) => In(b, s)
  BY ONLY <1>2, CutList
<1> QED  BY <1>1, <1>3

\* The least recently used candidate is taken from the list.
LEMMA PopLruCandidateInv ==
    ASSUME AgentsInv, NEW c \in Callers, PopLruCandidate(c), calls' = calls
    PROVE  AgentsInv'
<1>1. Types /\ Shape(version, call[c]) /\ version \in {"V1", "V2"} /\ IsList(residents)
  BY AtStep DEF Types
<1>2. /\ call[c].pc = "scan"
      /\ UNCHANGED <<version, tree, paths, total, leaked, runtime, starts, closing,
                     unloads, pending>>
  BY DEF PopLruCandidate, registry, manager
<1>3. PICK i \in DOMAIN residents : Pops(c, i)
  BY PopsOne
<1>4. IsList(residents')
  BY <1>1, <1>3, PopsList
<1>5. /\ runtime' \in Runtimes /\ starts' \in [Agents -> 0..MaxStarts]
      /\ closing' \in SUBSET Agents
  BY <1>1, <1>2 DEF Types, Runtimes
<1>6. /\ Moves(c, "check", call[c].op, call[c].agent, call[c].name, residents[i])
      /\ residents[i] \in Agents
  BY <1>3 DEF Pops
<1>7. Shape(version, call'[c]) /\ Holds(c) /\ Promises(c)
  BY <1>1, <1>2, <1>6 DEF Moves, Shape, Named, EvictionSteps, Holds,
       Counted, HoldsName, Promises, HoldsSlot
<1> QED  BY <1>2, <1>4, <1>5, <1>6, <1>7, MovesOn

\* A runtime is started.
LEMMA StartRuntimeTypes ==
    ASSUME Types, NEW a \in Agents, StartRuntime(a), starts[a] < MaxStarts
    PROVE  /\ runtime' \in Runtimes /\ starts' \in [Agents -> 0..MaxStarts]
           /\ closing' \in SUBSET Agents /\ unloads' = unloads
<1>1. starts[a] + 1 \in 0..MaxStarts
  BY AgentsAssumption DEF Types
<1> QED  BY <1>1 DEF Types, StartRuntime, Runtimes

\* A new agent's thread starts.
LEMMA StartThreadInv ==
    ASSUME AgentsInv, NEW c \in Callers, StartThread(c), calls' = calls
    PROVE  AgentsInv'
<1>1. Types /\ Shape(version, call[c]) /\ version \in {"V1", "V2"}
  BY AtStep
<1>2. PICK a \in Agents :
          /\ starts[a] = 0 /\ a \notin Stored /\ 0 < MaxStarts /\ StartRuntime(a)
          /\ call' = [call EXCEPT ![c].pc = "register", ![c].agent = a]
  BY DEF StartThread
<1>3. /\ call[c].pc = "start"
      /\ UNCHANGED <<version, tree, paths, total, leaked, residents, pending>>
  BY DEF StartThread, registry, residency
<1>4. /\ runtime' \in Runtimes /\ starts' \in [Agents -> 0..MaxStarts]
      /\ closing' \in SUBSET Agents /\ unloads' = unloads /\ IsList(residents')
  BY <1>1, <1>2, <1>3, StartRuntimeTypes DEF Types
<1>5. Moves(c, "register", call[c].op, a, call[c].name, call[c].victim)
  BY <1>1, <1>2, AgentMoves, StepNames
<1>6. Shape(version, call'[c]) /\ Holds(c) /\ Promises(c)
  BY <1>1, <1>3, <1>5 DEF Moves, Shape, Named, EvictionSteps, Holds,
       Counted, HoldsName, Promises, HoldsSlot
<1> QED  BY <1>3, <1>4, <1>5, <1>6, MovesOn

\* A reloaded agent's thread starts.
LEMMA InsertThreadInv ==
    ASSUME AgentsInv, NEW c \in Callers, InsertThread(c), calls' = calls
    PROVE  AgentsInv'
<1>1. Types /\ Shape(version, call[c]) /\ version \in {"V1", "V2"}
  BY AtStep
<1>2. /\ call[c].pc = "insert" /\ starts[call[c].agent] < MaxStarts
      /\ StartRuntime(call[c].agent) /\ Goto(c, Loaded(c))
      /\ UNCHANGED <<version, tree, paths, total, leaked, residents, pending>>
  BY DEF InsertThread, registry, residency
<1>3. call[c].agent \in Agents
  BY <1>1, <1>2 DEF Shape
<1>4. /\ runtime' \in Runtimes /\ starts' \in [Agents -> 0..MaxStarts]
      /\ closing' \in SUBSET Agents /\ unloads' = unloads /\ IsList(residents')
  BY <1>1, <1>2, <1>3, StartRuntimeTypes DEF Types
<1>5. PICK l \in Steps : l = IF version = "V2" THEN "place" ELSE "register"
  BY StepNames
<1>6. Moves(c, l, call[c].op, call[c].agent, call[c].name, call[c].victim)
  BY <1>1, <1>2, <1>5, GotoMoves DEF Loaded
<1>7. Shape(version, call'[c]) /\ Holds(c) /\ Promises(c)
  BY <1>1, <1>2, <1>5, <1>6 DEF Moves, Shape, Named, EvictionSteps, Holds,
       Counted, HoldsName, Promises, HoldsSlot
<1> QED  BY <1>2, <1>4, <1>6, <1>7, MovesOn

\* A call begins: it holds nothing yet.
LEMMA BeginInv ==
    ASSUME AgentsInv, NEW c \in Callers, NEW o \in Operations, NEW a \in Agents \cup {NoAgent},
           NEW p \in Paths \cup {NoPath}, NEW l \in Steps, Begin(c, o, a, p, l),
           \/ version = "V2" /\ o = "Spawn" /\ p \in Paths /\ l = "room"
           \/ version = "V1" /\ o = "Spawn" /\ p = NoPath /\ l = "number"
           \/ version = "V2" /\ o = "Send" /\ a \in Agents /\ p = NoPath /\ l = "lookup"
           \/ version = "V1" /\ o = "Send" /\ a \in Agents /\ l = "deliver"
           \/ version = "V2" /\ o = "Open" /\ a \in Agents /\ p = NoPath /\ l = "known"
           \/ version = "V1" /\ o = "Resume" /\ a \in Agents /\ p = NoPath /\ l = "number"
           \/ version = "V1" /\ o = "Close" /\ a \in Agents /\ l = "shutdown"
    PROVE  AgentsInv'
<1>1. Types /\ Shape(version, call[c]) /\ version \in {"V1", "V2"}
  BY AtStep
<1>2. /\ call[c].pc = "idle" /\ calls < MaxCalls /\ calls' = calls + 1
      /\ call' = [call EXCEPT ![c].pc = l, ![c].op = o, ![c].agent = a, ![c].name = p]
      /\ UNCHANGED <<version, tree, paths, total, leaked, runtime, starts, closing,
                     unloads, residents, pending>>
  BY DEF Begin, registry, manager, residency
<1>3. Moves(c, l, o, a, p, call[c].victim)
  BY <1>1, <1>2, BeginMoves
<1>4. Shape(version, call'[c]) /\ Holds(c) /\ Promises(c)
  BY <1>1, <1>2, <1>3 DEF Moves, Shape, Named, EvictionSteps, Holds,
       Counted, HoldsName, Promises, HoldsSlot
<1>5. calls' \in 0..MaxCalls
  BY <1>1, <1>2, AgentsAssumption DEF Types
<1>6. /\ call' \in [Callers -> CallTypes]
      /\ \A d \in Callers : d # c => call'[d] = call[d]
  BY <1>3 DEF Moves
<1>7. Types'
  BY <1>1, <1>2, <1>5, <1>6 DEF Types
<1> QED  BY <1>2, <1>4, <1>6, <1>7, CallOnly

\* The calls that tools and clients make.
LEMMA BeginCallInv ==
    ASSUME AgentsInv, NEW c \in Callers, BeginCall(c)
    PROVE  AgentsInv'
<1>1. version \in {"V1", "V2"} /\ NoAgent \in Agents \cup {NoAgent} /\ NoPath \in Paths \cup {NoPath}
  BY AtStep
<1>2. CASE SpawnAgent(c)
  BY <1>1, <1>2, BeginInv, StepNames DEF SpawnAgent
<1>3. CASE \E a \in Agents : SendMessage(c, a)
  BY <1>1, <1>3, BeginInv, StepNames DEF SendMessage
<1>4. CASE \E a \in Agents : OpenChild(c, a)
  BY <1>1, <1>4, BeginInv, StepNames DEF OpenChild
<1>5. CASE \E a \in Agents : ResumeAgent(c, a)
  BY <1>1, <1>5, BeginInv, StepNames DEF ResumeAgent
<1>6. CASE \E a \in Agents : CloseAgent(c, a)
  BY <1>1, <1>6, BeginInv, StepNames DEF CloseAgent
<1> QED  BY <1>2, <1>3, <1>4, <1>5, <1>6 DEF BeginCall

\* The agents work, and the app server unloads them.
LEMMA AgentStepInv ==
    ASSUME AgentsInv, NEW a \in Agents, Settle(a) \/ UnloadBegins(a) \/ UnloadEnds(a)
    PROVE  AgentsInv'
<1>1. Types
  BY DEF AgentsInv
<1>2. UNCHANGED <<version, tree, paths, total, leaked, starts, residents, pending, call, calls>>
  BY DEF Settle, UnloadBegins, UnloadEnds, registry, residency
<1>3. runtime' \in [Agents -> {"absent", "busy", "idle", "dead"}]
  BY <1>1 DEF Types, Settle, UnloadBegins, UnloadEnds
<1>4. closing' \in SUBSET Agents /\ unloads' \in 0..MaxUnloads
  BY <1>1, AgentsAssumption DEF Types, Settle, UnloadBegins, UnloadEnds
<1>5. Types'
  BY <1>1, <1>2, <1>3, <1>4 DEF Types
<1> QED  BY <1>2, <1>5, NoCallMoves
(***************************************************************************)
(* The steps of calls in the registry.                                     *)
(***************************************************************************)

\* The registered agents, after a step that registers or releases one of them.
LEMMA RegisteredStep ==
    ASSUME NEW a \in Agents, \A b \in Agents : b # a => paths'[b] = paths[b]
    PROVE  /\ Cardinality(Registered) \in Nat /\ Cardinality(Registered') \in Nat
           /\ (paths[a] = NoPath <=> paths'[a] = NoPath) =>
                 Cardinality(Registered') = Cardinality(Registered)
           /\ paths[a] = NoPath /\ paths'[a] # NoPath =>
                 Cardinality(Registered') = Cardinality(Registered) + 1
           /\ paths[a] # NoPath /\ paths'[a] = NoPath =>
                 Cardinality(Registered') = Cardinality(Registered) - 1
<1>1. \A b \in Agents : (b \in Registered <=> paths[b] # NoPath)
                        /\ (b \in Registered' <=> paths'[b] # NoPath)
  BY DEF Registered
<1>2. Registered \subseteq Agents /\ Registered' \subseteq Agents
  BY DEF Registered
<1>3. IsFiniteSet(Agents)
  BY AgentsAssumption
<1> HIDE DEF Registered
<1>4. PICK S, T : S = Registered /\ T = Registered'
  OBVIOUS
<1>5. \A b \in Agents : b # a => (b \in S <=> b \in T)
  BY <1>1, <1>4
<1>6. /\ Cardinality(S) \in Nat /\ Cardinality(T) \in Nat
      /\ (a \in S <=> a \in T) => Cardinality(T) = Cardinality(S)
      /\ a \in T /\ a \notin S => Cardinality(T) = Cardinality(S) + 1
      /\ a \in S /\ a \notin T =>
            Cardinality(T) = Cardinality(S) - 1 /\ Cardinality(S) > 0
  BY <1>2, <1>3, <1>4, <1>5, OneChanges
<1> QED  BY <1>1, <1>4, <1>6

\* What every step of the registry keeps.
LEMMA RegistryFrame ==
    ASSUME AgentsInv, NEW c \in Callers, NEW l, NEW o, NEW a, NEW p, NEW v,
           Moves(c, l, o, a, p, v),
           UNCHANGED <<version, runtime, starts, closing, unloads, residents, pending, calls>>,
           tree' \in [Keys -> Agents \cup {NoAgent, Reserved}],
           paths' \in [Agents -> Keys \cup {NoPath}],
           total' \in Nat, leaked' \in Nat,
           Shape(version, call'[c]), HoldsSlot(c)' <=> HoldsSlot(c)
    PROVE  Types' /\ CallShape' /\ PendingExact'
<1>1. /\ call' \in [Callers -> CallTypes]
      /\ \A d \in Callers : d # c => call'[d] = call[d]
  BY DEF Moves
<1>2. Types'
  BY <1>1 DEF AgentsInv, Types
<1>3. CallShape'
  BY <1>1 DEF AgentsInv, CallShape
<1>4. Promises(c)
  BY DEF Promises
<1>5. PendingExact'
  BY <1>1, <1>4, PendingStep
<1> QED  BY <1>2, <1>3, <1>5

\* The accounts balance after a step that takes, returns or leaks counts.
LEMMA AccountStep ==
    ASSUME AgentsInv, NEW r \in Int, NEW n \in Int, NEW k \in Int,
           Cardinality(Registered) \in Nat, Cardinality(CountedCalls) \in Nat,
           Cardinality(Registered') = Cardinality(Registered) + r,
           Cardinality(CountedCalls') = Cardinality(CountedCalls) + n,
           leaked' = leaked + k, total' = total + r + n + k
    PROVE  SlotAccounting'
<1>1. /\ total = Cardinality(Registered) + Cardinality(CountedCalls) + leaked
      /\ total \in Nat /\ leaked \in Nat
  BY DEF AgentsInv, SlotAccounting, CountedCalls, Types
<1>2. total' = Cardinality(Registered') + Cardinality(CountedCalls') + leaked'
  BY <1>1
<1> QED  BY <1>2 DEF SlotAccounting, CountedCalls

\* Names stay owned if neither the registry nor what the calls hold changes.
LEMMA NamesStay ==
    ASSUME NamesOwned, UNCHANGED <<tree, paths>>, NEW c \in Callers,
           \A d \in Callers : d # c => call'[d] = call[d],
           HoldsName(c)' <=> HoldsName(c), HoldsName(c) => call'[c].name = call[c].name
    PROVE  NamesOwned'
<1>1. \A d \in Callers : HoldsName(d)' <=> HoldsName(d)
  BY DEF HoldsName
<1>2. \A d \in Callers : HoldsName(d) => call'[d].name = call[d].name
  OBVIOUS
<1> QED  BY <1>1, <1>2 DEF NamesOwned

\* A spawn slot is counted, or V1's limit is reached.
LEMMA ReserveSpawnSlotInv ==
    ASSUME AgentsInv, NEW c \in Callers, ReserveSpawnSlot(c), calls' = calls
    PROVE  AgentsInv'
<1>1. Types /\ Shape(version, call[c]) /\ version \in {"V1", "V2"}
  BY AtStep
<1>2. /\ call[c].pc = "number"
      /\ UNCHANGED <<version, tree, paths, leaked, runtime, starts, closing, unloads,
                     residents, pending>>
  BY DEF ReserveSpawnSlot, manager, residency
<1>3. CASE version = "V1" /\ total >= MaxThreads
  <2>1. Return(c) /\ total' = total
    BY <1>3 DEF ReserveSpawnSlot
  <2>2. /\ runtime' \in Runtimes /\ starts' \in [Agents -> 0..MaxStarts]
        /\ closing' \in SUBSET Agents /\ IsList(residents')
    BY <1>1, <1>2 DEF Types, Runtimes
  <2>3. Moves(c, "idle", "none", NoAgent, NoPath, NoAgent)
    BY <1>1, <2>1, ReturnMoves
  <2>4. Shape(version, call'[c]) /\ Holds(c) /\ Promises(c)
    BY <1>1, <1>2, <1>3, <2>3 DEF Moves, Shape, Named, EvictionSteps, Holds,
       Counted, HoldsName, Promises, HoldsSlot
  <2> QED  BY <1>2, <2>1, <2>2, <2>3, <2>4, MovesOn
<1>4. CASE ~(version = "V1" /\ total >= MaxThreads)
  <2>1. PICK l \in Steps : l = IF call[c].op = "Resume" THEN "resume"
                               ELSE IF version = "V2" THEN "name" ELSE "start"
    BY StepNames
  <2>2. total' = total + 1 /\ Goto(c, l)
    <3>1. call[c].op = "Resume" => version = "V1"
      BY <1>1, <1>2 DEF Shape
    <3>2. l = CASE call[c].op = "Resume" -> "resume"
                [] version = "V2" -> "name"
                [] OTHER -> "start"
      BY <1>1, <2>1, <3>1
    <3> QED  BY <1>4, <3>2 DEF ReserveSpawnSlot
  <2>3. Moves(c, l, call[c].op, call[c].agent, call[c].name, call[c].victim)
    BY <1>1, <2>2, GotoMoves
  <2>5. /\ Shape(version, call'[c]) /\ (HoldsSlot(c)' <=> HoldsSlot(c))
        /\ Counted(c)' /\ ~Counted(c) /\ ~HoldsName(c)' /\ ~HoldsName(c)
    BY <1>1, <1>2, <2>1, <2>3 DEF Moves, Shape, Named, EvictionSteps,
       Counted, HoldsName, HoldsSlot
  <2>6. Types' /\ CallShape' /\ PendingExact'
    BY <1>1, <1>2, <2>2, <2>3, <2>5, RegistryFrame DEF Types
  <2>7. \A d \in Callers : d # c => call'[d] = call[d]
    BY <2>3 DEF Moves
  <2>8. SlotAccounting'
    <3>1. Registered' = Registered
      BY <1>2 DEF Registered
    <3>2. Registered \subseteq Agents /\ IsFiniteSet(Agents)
      BY AgentsAssumption DEF Registered
    <3>3. Cardinality(Registered) \in Nat
      BY <3>2, FS_Subset, FS_CardinalityType
    <3>4. Cardinality(CountedCalls) \in Nat /\ Cardinality(CountedCalls') = Cardinality(CountedCalls) + 1
      BY <2>5, <2>7, CountedStep
    <3>5. leaked' = leaked + 0 /\ total' = total + 0 + 1 + 0
          /\ Cardinality(Registered') = Cardinality(Registered) + 0
      BY <1>1, <1>2, <2>2, <3>1, <3>3 DEF Types
    <3> QED  BY <3>3, <3>4, <3>5, AccountStep
  <2>9. OwnKeys' /\ Limited'
    BY <1>1, <1>2, <1>4, <2>2, AgentsAssumption DEF AgentsInv, OwnKeys, Limited, Types
  <2>10. NamesOwned'
    BY <1>2, <2>5, <2>7, NamesStay DEF AgentsInv
  <2> QED  BY <2>6, <2>8, <2>9, <2>10 DEF AgentsInv
<1> QED  BY <1>3, <1>4

\* A path is reserved, or is taken.
LEMMA ReserveAgentPathInv ==
    ASSUME AgentsInv, NEW c \in Callers, ReserveAgentPath(c), calls' = calls
    PROVE  AgentsInv'
<1>1. Types /\ Shape(version, call[c]) /\ version \in {"V1", "V2"}
  BY AtStep
<1>2. /\ call[c].pc = "name"
      /\ UNCHANGED <<version, paths, total, leaked, runtime, starts, closing, unloads,
                     residents, pending>>
  BY DEF ReserveAgentPath, manager, residency
<1>3. version = "V2" /\ call[c].op = "Spawn" /\ call[c].name \in Paths
  BY <1>1, <1>2 DEF Shape
<1>4. CASE tree[call[c].name] # NoAgent
  <2>1. /\ tree' = tree
        /\ call' = [call EXCEPT ![c].pc = "uncount", ![c].name = NoPath]
    BY <1>4 DEF ReserveAgentPath
  <2>2. /\ runtime' \in Runtimes /\ starts' \in [Agents -> 0..MaxStarts]
        /\ closing' \in SUBSET Agents /\ IsList(residents')
    BY <1>1, <1>2 DEF Types, Runtimes
  <2>3. Moves(c, "uncount", call[c].op, call[c].agent, NoPath, call[c].victim)
    BY <1>1, <2>1, NameMoves, StepNames
  <2>4. Shape(version, call'[c]) /\ Holds(c) /\ Promises(c)
    BY <1>1, <1>2, <1>3, <2>3 DEF Moves, Shape, Named, EvictionSteps, Holds,
       Counted, HoldsName, Promises, HoldsSlot
  <2> QED  BY <1>2, <2>1, <2>2, <2>3, <2>4, MovesOn
<1>5. CASE tree[call[c].name] = NoAgent
  <2>1. PICK p \in Paths : p = call[c].name
    BY <1>3
  <2>2. tree' = [tree EXCEPT ![p] = Reserved] /\ Goto(c, "start") /\ tree[p] = NoAgent
    BY <1>5, <2>1 DEF ReserveAgentPath
  <2>3. Moves(c, "start", call[c].op, call[c].agent, call[c].name, call[c].victim)
    BY <1>1, <2>2, GotoMoves, StepNames
  <2>4. /\ Shape(version, call'[c]) /\ (HoldsSlot(c)' <=> HoldsSlot(c))
        /\ Counted(c)' /\ Counted(c)
    BY <1>1, <1>2, <1>3, <2>3 DEF Moves, Shape, Named, EvictionSteps, Counted, HoldsSlot
  <2>5. HoldsName(c)' /\ ~HoldsName(c) /\ call'[c].name = p
    BY <1>2, <2>1, <2>3, AgentsAssumption DEF Moves, HoldsName, Keys
  <2>6. tree' \in [Keys -> Agents \cup {NoAgent, Reserved}]
    BY <1>1, <2>2 DEF Types
  <2>7. Types' /\ CallShape' /\ PendingExact'
    BY <1>1, <1>2, <2>3, <2>4, <2>6, RegistryFrame DEF Types
  <2>8. \A d \in Callers : d # c => call'[d] = call[d]
    BY <2>3 DEF Moves
  <2>9. SlotAccounting'
    <3>1. Registered' = Registered
      BY <1>2 DEF Registered
    <3>2. Cardinality(CountedCalls') = Cardinality(CountedCalls)
      BY <2>4, <2>8, CountedStep
    <3> QED  BY <1>2, <3>1, <3>2 DEF AgentsInv, SlotAccounting, CountedCalls
  <2>10. OwnKeys' /\ Limited'
    BY <1>2, <1>3 DEF AgentsInv, OwnKeys, Limited
  <2>11. NamesOwned'
    <3>1. NamesOwned /\ p \in Keys
      BY <2>1 DEF AgentsInv, Keys
    <3>2. \A k \in Keys : tree'[k] = IF k = p THEN Reserved ELSE tree[k]
      BY <1>1, <2>2, <3>1 DEF Types
    <3>3. \A d \in Callers : d # c => (HoldsName(d)' <=> HoldsName(d)) /\ call'[d].name = call[d].name
      BY <2>8 DEF HoldsName
    <3>4. Reserved \notin Agents /\ NoAgent \notin Agents /\ NoAgent # Reserved
      BY AgentsAssumption
    <3>5. \A d \in Callers : HoldsName(d) => call[d].name # p
      BY <2>2, <3>1, <3>4 DEF NamesOwned
    <3>6. \A k \in Keys, b \in Agents : tree'[k] = b <=> paths'[b] = k
      BY <1>2, <2>2, <3>1, <3>2, <3>4 DEF NamesOwned
    <3>7. ASSUME NEW k \in Keys
          PROVE  tree'[k] = Reserved <=> \E d \in Callers : HoldsName(d)' /\ call'[d].name = k
      <4>1. CASE k = p
        BY <2>5, <3>2, <4>1
      <4>2. CASE k # p
        BY <2>5, <3>1, <3>2, <3>3, <4>2 DEF NamesOwned
      <4> QED  BY <4>1, <4>2
    <3>8. \A d, e \in Callers : HoldsName(d)' /\ HoldsName(e)' /\ call'[d].name = call'[e].name => d = e
      BY <2>5, <3>1, <3>3, <3>5 DEF NamesOwned
    <3> QED  BY <3>6, <3>7, <3>8 DEF NamesOwned
  <2> QED  BY <2>7, <2>9, <2>10, <2>11 DEF AgentsInv
<1> QED  BY <1>4, <1>5

\* A dropped reservation gives its path back.
LEMMA ReleaseReservedPathInv ==
    ASSUME AgentsInv, NEW c \in Callers, ReleaseReservedPath(c), calls' = calls
    PROVE  AgentsInv'
<1>1. Types /\ Shape(version, call[c]) /\ version \in {"V1", "V2"}
  BY AtStep
<1>2. /\ call[c].pc = "unname"
      /\ call' = [call EXCEPT ![c].pc = "uncount", ![c].name = NoPath]
      /\ UNCHANGED <<version, paths, total, leaked, runtime, starts, closing, unloads,
                     residents, pending>>
  BY DEF ReleaseReservedPath, manager, residency
<1>3. version = "V2" /\ call[c].op = "Spawn" /\ call[c].name \in Paths
  BY <1>1, <1>2 DEF Shape
<1>4. PICK p \in Paths : p = call[c].name
  BY <1>3
<1>5. HoldsName(c) /\ p \in Keys
  BY <1>2, <1>4, AgentsAssumption DEF HoldsName, Keys
<1>6. tree[p] = Reserved
  BY <1>4, <1>5 DEF AgentsInv, NamesOwned
<1>7. tree' = [tree EXCEPT ![p] = NoAgent]
  BY <1>4, <1>6 DEF ReleaseReservedPath
<1>8. Moves(c, "uncount", call[c].op, call[c].agent, NoPath, call[c].victim)
  BY <1>1, <1>2, NameMoves, StepNames
<1>9. /\ Shape(version, call'[c]) /\ (HoldsSlot(c)' <=> HoldsSlot(c))
      /\ Counted(c)' /\ Counted(c) /\ ~HoldsName(c)'
  BY <1>1, <1>2, <1>3, <1>8 DEF Moves, Shape, Named, EvictionSteps, Counted, HoldsSlot, HoldsName
<1>10. tree' \in [Keys -> Agents \cup {NoAgent, Reserved}]
  BY <1>1, <1>7 DEF Types
<1>11. Types' /\ CallShape' /\ PendingExact'
  BY <1>1, <1>2, <1>8, <1>9, <1>10, RegistryFrame DEF Types
<1>12. \A d \in Callers : d # c => call'[d] = call[d]
  BY <1>8 DEF Moves
<1>13. SlotAccounting'
  <2>1. Registered' = Registered
    BY <1>2 DEF Registered
  <2>2. Cardinality(CountedCalls') = Cardinality(CountedCalls)
    BY <1>9, <1>12, CountedStep
  <2> QED  BY <1>2, <2>1, <2>2 DEF AgentsInv, SlotAccounting, CountedCalls
<1>14. OwnKeys' /\ Limited'
  BY <1>2, <1>3 DEF AgentsInv, OwnKeys, Limited
<1>15. NamesOwned'
  <2>1. NamesOwned
    BY DEF AgentsInv
  <2>2. \A k \in Keys : tree'[k] = IF k = p THEN NoAgent ELSE tree[k]
    BY <1>1, <1>5, <1>7 DEF Types
  <2>3. \A d \in Callers : d # c => (HoldsName(d)' <=> HoldsName(d)) /\ call'[d].name = call[d].name
    BY <1>12 DEF HoldsName
  <2>4. Reserved \notin Agents /\ NoAgent \notin Agents /\ NoAgent # Reserved
    BY AgentsAssumption
  <2>5. \A d \in Callers : d # c /\ HoldsName(d) => call[d].name # p
    BY <1>4, <1>5, <2>1 DEF NamesOwned
  <2>6. \A k \in Keys, b \in Agents : tree'[k] = b <=> paths'[b] = k
    BY <1>2, <1>6, <2>1, <2>2, <2>4 DEF NamesOwned
  <2>7. \A k \in Keys : tree'[k] = Reserved <=> \E d \in Callers : HoldsName(d)' /\ call'[d].name = k
    <3> SUFFICES ASSUME NEW k \in Keys
                 PROVE  tree'[k] = Reserved <=> \E d \in Callers : HoldsName(d)' /\ call'[d].name = k
      OBVIOUS
    <3>1. CASE k = p
      BY <1>9, <2>2, <2>3, <2>4, <2>5, <3>1
    <3>2. CASE k # p
      BY <1>4, <1>9, <2>1, <2>2, <2>3, <3>2 DEF NamesOwned
    <3> QED  BY <3>1, <3>2
  <2>8. \A d, e \in Callers : HoldsName(d)' /\ HoldsName(e)' /\ call'[d].name = call'[e].name => d = e
    BY <1>9, <2>1, <2>3 DEF NamesOwned
  <2> QED  BY <2>6, <2>7, <2>8 DEF NamesOwned
<1> QED  BY <1>11, <1>13, <1>14, <1>15 DEF AgentsInv

\* A count is returned.
LEMMA ReturnCountInv ==
    ASSUME AgentsInv, NEW c \in Callers, ReturnCount(c), calls' = calls
    PROVE  AgentsInv'
<1>1. Types /\ Shape(version, call[c]) /\ version \in {"V1", "V2"}
  BY AtStep
<1>2. /\ call[c].pc = "uncount" /\ total' = total - 1
      /\ UNCHANGED <<version, tree, paths, leaked, runtime, starts, closing, unloads,
                     residents, pending>>
      /\ \/ version = "V2" /\ call[c].op = "Spawn" /\ Goto(c, "unslot")
         \/ ~(version = "V2" /\ call[c].op = "Spawn") /\ Return(c)
  BY DEF ReturnCount, manager, residency
<1>3. PICK l, o, a, p, v :
          /\ Moves(c, l, o, a, p, v)
          /\ \/ version = "V2" /\ call[c].op = "Spawn" /\ l = "unslot" /\ o = "Spawn"
             \/ ~(version = "V2" /\ call[c].op = "Spawn") /\ l = "idle" /\ o = "none"
  <2>1. CASE version = "V2" /\ call[c].op = "Spawn" /\ Goto(c, "unslot")
    BY <1>1, <2>1, GotoMoves, StepNames
  <2>2. CASE ~(version = "V2" /\ call[c].op = "Spawn") /\ Return(c)
    BY <1>1, <2>2, ReturnMoves
  <2> QED  BY <1>2, <2>1, <2>2
<1>4. /\ Shape(version, call'[c]) /\ (HoldsSlot(c)' <=> HoldsSlot(c))
      /\ ~Counted(c)' /\ Counted(c) /\ ~HoldsName(c)' /\ ~HoldsName(c)
  BY <1>1, <1>2, <1>3 DEF Moves, Shape, Named, EvictionSteps, Counted, HoldsSlot, HoldsName
<1>5. \A d \in Callers : d # c => call'[d] = call[d]
  BY <1>3 DEF Moves
<1>6. Registered' = Registered
  BY <1>2 DEF Registered
<1>7. Registered \subseteq Agents /\ IsFiniteSet(Agents)
  BY AgentsAssumption DEF Registered
<1>8. Cardinality(Registered) \in Nat
  BY <1>7, FS_Subset, FS_CardinalityType
<1>9. /\ Cardinality(CountedCalls) \in Nat /\ Cardinality(CountedCalls) > 0
      /\ Cardinality(CountedCalls') = Cardinality(CountedCalls) - 1
  BY <1>4, <1>5, CountedStep
<1>10. /\ total = Cardinality(Registered) + Cardinality(CountedCalls) + leaked
       /\ total \in Nat /\ leaked \in Nat
  BY <1>1 DEF AgentsInv, SlotAccounting, CountedCalls, Types
<1>11. total' \in Nat
  BY <1>2, <1>8, <1>9, <1>10
<1>12. Types' /\ CallShape' /\ PendingExact'
  BY <1>1, <1>2, <1>3, <1>4, <1>11, RegistryFrame DEF Types
<1>13. SlotAccounting'
  <2>1. total' = Cardinality(Registered') + Cardinality(CountedCalls') + leaked'
    BY <1>2, <1>6, <1>8, <1>9, <1>10
  <2> QED  BY <2>1 DEF SlotAccounting, CountedCalls
<1>14. OwnKeys' /\ Limited'
  BY <1>1, <1>2, AgentsAssumption DEF AgentsInv, OwnKeys, Limited, Types
<1>15. NamesOwned'
  BY <1>2, <1>4, <1>5, NamesStay DEF AgentsInv
<1> QED  BY <1>12, <1>13, <1>14, <1>15 DEF AgentsInv
\* Only V2 calls hold names, and they are paths.
LEMMA HeldNames ==
    ASSUME AgentsInv, NEW d \in Callers, HoldsName(d)
    PROVE  version = "V2" /\ call[d].name \in Paths
<1>1. Shape(version, call[d]) /\ version \in {"V1", "V2"} /\ call[d] \in CallTypes
  BY AtStep
<1> QED  BY <1>1 DEF HoldsName, Shape, Named, CallTypes

\* An agent is registered under its key, and displaces none.
LEMMA RegisterInv ==
    ASSUME AgentsInv, NEW c \in Callers, Register(c), calls' = calls
    PROVE  AgentsInv'
<1>1. Types /\ Shape(version, call[c]) /\ version \in {"V1", "V2"}
  BY AtStep
<1>2. /\ call[c].pc = "register"
      /\ UNCHANGED <<version, total, runtime, starts, closing, unloads, residents, pending>>
  BY DEF Register, manager, residency
<1>3. PICK a \in Agents : a = call[c].agent
  BY <1>1, <1>2 DEF Shape
<1>4. PICK k, old : k = (IF call[c].name = NoPath THEN a ELSE call[c].name) /\ old = paths[a]
  OBVIOUS
<1>5. /\ NamesOwned /\ OwnKeys /\ Reserved \notin Agents /\ NoAgent \notin Agents
      /\ NoAgent # Reserved /\ NoPath \notin Keys /\ Paths \cap Agents = {}
  BY AgentsAssumption DEF AgentsInv
<1>6. old \in Keys \cup {NoPath} /\ (old # NoPath => tree[old] = a)
  BY <1>1, <1>4, <1>5 DEF Types, NamesOwned
<1>7. /\ version = "V2" => call[c].name = k /\ k \in Paths /\ HoldsName(c) /\ tree[k] = Reserved
      /\ version = "V1" => call[c].name = NoPath /\ k = a /\ ~HoldsName(c)
  <2>1. version = "V2" => call[c].name \in Paths /\ call[c].name # NoPath
    BY <1>1, <1>2, <1>5 DEF Shape, Named, Keys
  <2>2. version = "V1" => call[c].name = NoPath
    BY <1>1, <1>2 DEF Shape, Named
  <2>3. version = "V2" => HoldsName(c) /\ k = call[c].name /\ k \in Keys
    BY <1>2, <1>4, <2>1 DEF HoldsName, Keys
  <2>4. version = "V2" => tree[k] = Reserved
    BY <1>5, <2>3 DEF NamesOwned
  <2> QED  BY <1>4, <2>1, <2>2, <2>3, <2>4 DEF HoldsName
<1>8. k \in Keys
  BY <1>1, <1>7 DEF Keys
<1>9. \A b \in Agents : b # a => tree[k] # b
  BY <1>1, <1>5, <1>7, <1>8 DEF NamesOwned, OwnKeys, Keys
<1>10. {b \in Agents \ {a} : tree[k] = b} = {}
  BY <1>9
<1>11. Cardinality({b \in Agents \ {a} : tree[k] = b}) = 0
  BY <1>10, FS_EmptySet
<1>12. /\ tree' = [q \in Keys |-> IF q = k THEN a ELSE IF q = old THEN NoAgent ELSE tree[q]]
       /\ paths' = [b \in Agents |-> IF b = a THEN k
                        ELSE IF b \in {x \in Agents \ {a} : tree[k] = x} THEN NoPath ELSE paths[b]]
       /\ leaked' = leaked + (IF old # NoPath THEN 1 ELSE 0)
                      + Cardinality({b \in Agents \ {a} : tree[k] = b})
       /\ CASE version = "V2" -> Goto(c, "place")
            [] version = "V1" /\ call[c].op = "Spawn" -> Goto(c, "deliver")
            [] OTHER -> Return(c)
  BY <1>3, <1>4 DEF Register
<1>13. /\ paths' = [b \in Agents |-> IF b = a THEN k ELSE paths[b]]
       /\ leaked' = leaked + (IF old # NoPath THEN 1 ELSE 0)
  BY <1>1, <1>10, <1>11, <1>12 DEF Types
<1>14. \/ version = "V2" /\ Goto(c, "place")
       \/ version = "V1" /\ call[c].op = "Spawn" /\ Goto(c, "deliver")
       \/ version = "V1" /\ Return(c)
  BY <1>1, <1>12
<1>15. PICK l, o, e, p, v :
         /\ Moves(c, l, o, e, p, v)
         /\ \/ version = "V2" /\ l = "place" /\ o = call[c].op /\ e = call[c].agent
            \/ version = "V1" /\ l = "deliver" /\ o = "Spawn" /\ e = call[c].agent
            \/ version = "V1" /\ l = "idle" /\ o = "none"
  <2>1. CASE version = "V2" /\ Goto(c, "place")
    BY <1>1, <2>1, GotoMoves, StepNames
  <2>2. CASE version = "V1" /\ call[c].op = "Spawn" /\ Goto(c, "deliver")
    BY <1>1, <2>2, GotoMoves, StepNames
  <2>3. CASE version = "V1" /\ Return(c)
    BY <1>1, <2>3, ReturnMoves
  <2> QED  BY <1>14, <2>1, <2>2, <2>3
<1>16. /\ Shape(version, call'[c]) /\ (HoldsSlot(c)' <=> HoldsSlot(c))
        /\ ~Counted(c)' /\ Counted(c) /\ ~HoldsName(c)'
  BY <1>1, <1>2, <1>15 DEF Moves, Shape, Named, EvictionSteps, Counted, HoldsSlot, HoldsName
<1>17. \A d \in Callers : d # c => call'[d] = call[d]
  BY <1>15 DEF Moves
<1>18. /\ tree' \in [Keys -> Agents \cup {NoAgent, Reserved}]
        /\ paths' \in [Agents -> Keys \cup {NoPath}] /\ leaked' \in Nat
  BY <1>1, <1>8, <1>12, <1>13 DEF Types
<1>19. Types' /\ CallShape' /\ PendingExact'
  BY <1>1, <1>2, <1>15, <1>16, <1>18, RegistryFrame DEF Types
<1>20. SlotAccounting'
  <2>1. paths'[a] = k /\ k # NoPath /\ \A b \in Agents : b # a => paths'[b] = paths[b]
    BY <1>5, <1>8, <1>13
  <2>2. /\ Cardinality(Registered) \in Nat
        /\ Cardinality(Registered') = Cardinality(Registered) + (IF old # NoPath THEN 0 ELSE 1)
    BY <1>4, <2>1, RegisteredStep
  <2>3. /\ Cardinality(CountedCalls) \in Nat
        /\ Cardinality(CountedCalls') = Cardinality(CountedCalls) + (0 - 1)
    BY <1>16, <1>17, CountedStep
  <2>4. PICK r \in Int, m \in Int : /\ r = (IF old # NoPath THEN 0 ELSE 1)
                                    /\ m = (IF old # NoPath THEN 1 ELSE 0)
    OBVIOUS
  <2>5. total' = total + r + (0 - 1) + m /\ 0 - 1 \in Int
    BY <1>1, <1>2, <2>4 DEF Types
  <2> QED  BY <1>13, <2>2, <2>3, <2>4, <2>5, AccountStep
<1>21. OwnKeys' /\ Limited'
  BY <1>2, <1>5, <1>7, <1>13 DEF AgentsInv, OwnKeys, Limited
<1>22. NamesOwned'
  <2>1. \A d \in Callers : d # c => (HoldsName(d)' <=> HoldsName(d)) /\ call'[d].name = call[d].name
    BY <1>17 DEF HoldsName
  <2>2. \A d \in Callers : HoldsName(d) => version = "V2" /\ call[d].name \in Paths
    BY HeldNames
  <2>3. \A d \in Callers : d # c /\ HoldsName(d) => call[d].name # k
    BY <1>1, <1>5, <1>7, <2>2 DEF NamesOwned
  <2>4. HoldsName(c) => call[c].name = k
    BY <1>1, <1>7
  <2>5. \A q \in Keys : tree'[q] = IF q = k THEN a ELSE IF q = old THEN NoAgent ELSE tree[q]
    BY <1>12
  <2>6. \A b \in Agents : paths'[b] = IF b = a THEN k ELSE paths[b]
    BY <1>13
  <2>7. ASSUME NEW q \in Keys, NEW b \in Agents
        PROVE  tree'[q] = b <=> paths'[b] = q
    <3>1. (tree[q] = b <=> paths[b] = q) /\ q # NoPath
      BY <1>5 DEF NamesOwned
    <3>2. CASE b = a
      BY <1>4, <1>5, <2>5, <2>6, <3>1, <3>2
    <3>3. CASE b # a
      BY <1>4, <1>5, <1>6, <1>9, <2>5, <2>6, <3>1, <3>3
    <3> QED  BY <3>2, <3>3
  <2>8. ASSUME NEW q \in Keys
        PROVE  tree'[q] = Reserved <=> \E d \in Callers : HoldsName(d)' /\ call'[d].name = q
    <3>1. tree[q] = Reserved <=> \E d \in Callers : HoldsName(d) /\ call[d].name = q
      BY <1>5 DEF NamesOwned
    <3>2. q # NoPath
      BY <1>5
    <3>3. CASE q = k
      BY <1>5, <1>16, <2>1, <2>3, <2>5, <3>3
    <3>4. CASE q # k
      <4>1. tree'[q] = Reserved <=> tree[q] = Reserved
        BY <1>5, <1>6, <2>5, <3>2, <3>4
      <4> QED  BY <1>16, <2>1, <2>4, <3>1, <3>4, <4>1
    <3> QED  BY <3>3, <3>4
  <2>9. \A d, f \in Callers : HoldsName(d)' /\ HoldsName(f)' /\ call'[d].name = call'[f].name => d = f
    BY <1>5, <1>16, <2>1 DEF NamesOwned
  <2> QED  BY <2>7, <2>8, <2>9 DEF NamesOwned
<1> QED  BY <1>19, <1>20, <1>21, <1>22 DEF AgentsInv

\* An agent is released: its count is returned if it still was registered.
LEMMA ReleaseSpawnedThreadInv ==
    ASSUME AgentsInv, NEW c \in Callers, ReleaseSpawnedThread(c), calls' = calls
    PROVE  AgentsInv'
<1>1. Types /\ Shape(version, call[c]) /\ version \in {"V1", "V2"}
  BY AtStep
<1>2. /\ call[c].pc = "release"
      /\ UNCHANGED <<version, total, leaked, runtime, starts, closing, unloads, residents, pending>>
  BY DEF ReleaseSpawnedThread, manager, residency
<1>3. PICK a \in Agents : a = call[c].agent
  BY <1>1, <1>2 DEF Shape
<1>4. PICK old : old = paths[a]
  OBVIOUS
<1>5. /\ NamesOwned /\ OwnKeys /\ Reserved \notin Agents /\ NoAgent \notin Agents
      /\ NoAgent # Reserved /\ NoPath \notin Keys
  BY AgentsAssumption DEF AgentsInv
<1>6. old \in Keys \cup {NoPath} /\ (old # NoPath => tree[old] = a)
  BY <1>1, <1>4, <1>5 DEF Types, NamesOwned
<1>7. /\ paths' = [paths EXCEPT ![a] = NoPath]
      /\ tree' = [k \in Keys |-> IF k = old THEN NoAgent ELSE tree[k]]
      /\ IF old # NoPath /\ tree[old] # NoAgent THEN Goto(c, "uncount") ELSE Return(c)
  BY <1>3, <1>4 DEF ReleaseSpawnedThread
<1>8. \/ old # NoPath /\ Goto(c, "uncount")
      \/ old = NoPath /\ Return(c)
  BY <1>5, <1>6, <1>7
<1>9. PICK l, o, e, p, v :
        /\ Moves(c, l, o, e, p, v)
        /\ \/ old # NoPath /\ l = "uncount" /\ o = call[c].op
           \/ old = NoPath /\ l = "idle" /\ o = "none"
  <2>1. CASE old # NoPath /\ Goto(c, "uncount")
    BY <1>1, <2>1, GotoMoves, StepNames
  <2>2. CASE old = NoPath /\ Return(c)
    BY <1>1, <2>2, ReturnMoves
  <2> QED  BY <1>8, <2>1, <2>2
<1>10. /\ Shape(version, call'[c]) /\ (HoldsSlot(c)' <=> HoldsSlot(c))
       /\ (Counted(c)' <=> old # NoPath) /\ ~Counted(c) /\ ~HoldsName(c) /\ ~HoldsName(c)'
  BY <1>1, <1>2, <1>9 DEF Moves, Shape, Named, EvictionSteps, Counted, HoldsSlot, HoldsName
<1>11. \A d \in Callers : d # c => call'[d] = call[d]
  BY <1>9 DEF Moves
<1>12. /\ tree' \in [Keys -> Agents \cup {NoAgent, Reserved}]
       /\ paths' \in [Agents -> Keys \cup {NoPath}]
  BY <1>1, <1>7 DEF Types
<1>13. Types' /\ CallShape' /\ PendingExact'
  BY <1>1, <1>2, <1>9, <1>10, <1>12, RegistryFrame DEF Types
<1>14. /\ \A b \in Agents : paths'[b] = IF b = a THEN NoPath ELSE paths[b]
       /\ \A q \in Keys : tree'[q] = IF q = old THEN NoAgent ELSE tree[q]
  BY <1>1, <1>7 DEF Types
<1>15. SlotAccounting'
  <2>1. paths'[a] = NoPath /\ \A b \in Agents : b # a => paths'[b] = paths[b]
    BY <1>14
  <2>2. /\ Cardinality(Registered) \in Nat
        /\ Cardinality(Registered') = Cardinality(Registered) + (IF old # NoPath THEN 0 - 1 ELSE 0)
    BY <1>4, <2>1, RegisteredStep
  <2>3. /\ Cardinality(CountedCalls) \in Nat
        /\ Cardinality(CountedCalls') = Cardinality(CountedCalls) + (IF old # NoPath THEN 1 ELSE 0)
    BY <1>10, <1>11, CountedStep
  <2>4. PICK r \in Int, m \in Int : /\ r = (IF old # NoPath THEN 0 - 1 ELSE 0)
                                    /\ m = (IF old # NoPath THEN 1 ELSE 0)
    OBVIOUS
  <2>5. total' = total + r + m + 0 /\ leaked' = leaked + 0 /\ 0 \in Int
    BY <1>1, <1>2, <2>4 DEF Types
  <2> QED  BY <2>2, <2>3, <2>4, <2>5, AccountStep
<1>16. OwnKeys' /\ Limited'
  BY <1>2, <1>5, <1>14 DEF AgentsInv, OwnKeys, Limited
<1>17. NamesOwned'
  <2>1. \A d \in Callers : (HoldsName(d)' <=> HoldsName(d))
                           /\ (HoldsName(d) => call'[d].name = call[d].name)
    BY <1>10, <1>11 DEF HoldsName
  <2>2. ASSUME NEW q \in Keys, NEW b \in Agents
        PROVE  tree'[q] = b <=> paths'[b] = q
    <3>1. (tree[q] = b <=> paths[b] = q) /\ q # NoPath
      BY <1>5 DEF NamesOwned
    <3>2. CASE b = a
      BY <1>4, <1>5, <1>14, <3>1, <3>2
    <3>3. CASE b # a
      BY <1>4, <1>5, <1>6, <1>14, <3>1, <3>3
    <3> QED  BY <3>2, <3>3
  <2>3. \A q \in Keys : tree'[q] = Reserved <=> tree[q] = Reserved
    BY <1>5, <1>6, <1>14
  <2>4. \A q \in Keys : tree'[q] = Reserved <=> \E d \in Callers : HoldsName(d)' /\ call'[d].name = q
    BY <1>5, <2>1, <2>3 DEF NamesOwned
  <2>5. \A d, f \in Callers : HoldsName(d)' /\ HoldsName(f)' /\ call'[d].name = call'[f].name => d = f
    BY <1>5, <2>1 DEF NamesOwned
  <2> QED  BY <2>2, <2>4, <2>5 DEF NamesOwned
<1> QED  BY <1>13, <1>15, <1>16, <1>17 DEF AgentsInv

(***************************************************************************)
(* The inductive invariant holds.                                          *)
(***************************************************************************)

\* It holds when the session begins, with the agents of an earlier process.
LEMMA InitInv ==
    ASSUME Init
    PROVE  AgentsInv
<1>1. PICK S \in SUBSET Stored : RestoreMetadata(S)
  BY DEF Init
<1>2. /\ version \in Versions /\ leaked = 0 /\ closing = {} /\ unloads = 0 /\ residents = <<>>
      /\ pending = 0 /\ calls = 0 /\ runtime = [a \in Agents |-> "absent"]
      /\ starts = [a \in Agents |-> 0] /\ call = [c \in Callers |-> NoCall]
  BY DEF Init
<1>3. /\ S \subseteq Agents /\ \A a \in S : StoredPath[a] \in Paths
      /\ version = "V1" => S = {}
  BY <1>1, AgentsAssumption DEF Stored
<1>4. /\ \A a, b \in S : StoredPath[a] = StoredPath[b] => a = b
      /\ tree = [k \in Keys |-> IF \E a \in S : StoredPath[a] = k
                                THEN CHOOSE a \in S : StoredPath[a] = k ELSE NoAgent]
      /\ paths = [a \in Agents |-> IF a \in S THEN StoredPath[a] ELSE NoPath]
      /\ total = Cardinality(S)
  BY <1>1 DEF RestoreMetadata
<1>5. IsFiniteSet(S) /\ Cardinality(S) \in Nat
  BY <1>3, AgentsAssumption, FS_Subset, FS_CardinalityType
<1>6. \A c \in Callers : call[c].pc = "idle" /\ call[c].op = "none" /\ call[c] = NoCall
  BY <1>2 DEF NoCall
<1>7. \A k \in Keys : /\ (\E a \in S : StoredPath[a] = k) =>
                            tree[k] \in S /\ StoredPath[tree[k]] = k
                      /\ ~(\E a \in S : StoredPath[a] = k) => tree[k] = NoAgent
  BY <1>4
<1>8. Types
  <2>1. NoCall \in CallTypes
    BY StepNames DEF NoCall, CallTypes
  <2>2. call \in [Callers -> CallTypes]
    BY <1>2, <2>1
  <2>3. tree \in [Keys -> Agents \cup {NoAgent, Reserved}]
    <3>1. \A k \in Keys : tree[k] \in Agents \cup {NoAgent, Reserved}
      BY <1>3, <1>7
    <3>2. tree = [k \in Keys |-> tree[k]]
      BY <1>4
    <3> QED  BY <3>1, <3>2
  <2>4. paths \in [Agents -> Keys \cup {NoPath}]
    BY <1>3, <1>4 DEF Keys
  <2>5. IsList(residents)
    BY <1>2 DEF IsList
  <2>6. 0 \in 0..MaxStarts /\ 0 \in 0..MaxUnloads /\ 0 \in 0..MaxCalls
    BY AgentsAssumption
  <2> QED  BY <1>2, <1>4, <1>5, <2>2, <2>3, <2>4, <2>5, <2>6 DEF Types
<1>9. CallShape
  BY <1>6 DEF CallShape, Shape, EvictionSteps
<1>10. OwnKeys /\ Limited
  <2>1. version = "V1" => total = 0
    BY <1>3, <1>4, FS_EmptySet
  <2> QED  BY <1>3, <1>4, <2>1, AgentsAssumption DEF OwnKeys, Limited
<1>11. NamesOwned
  <2>1. \A c \in Callers : ~HoldsName(c)
    BY <1>6 DEF HoldsName
  <2>2. NoAgent \notin Agents /\ Reserved \notin Agents /\ NoAgent # Reserved /\ NoPath \notin Keys
    BY AgentsAssumption
  <2>3. \A a \in Agents : paths[a] = IF a \in S THEN StoredPath[a] ELSE NoPath
    BY <1>4
  <2>4. ASSUME NEW k \in Keys, NEW a \in Agents
        PROVE  tree[k] = a <=> paths[a] = k
    <3>1. CASE \E b \in S : StoredPath[b] = k
      BY <1>3, <1>4, <1>7, <2>2, <2>3, <3>1
    <3>2. CASE ~\E b \in S : StoredPath[b] = k
      BY <1>3, <1>7, <2>2, <2>3, <3>2
    <3> QED  BY <3>1, <3>2
  <2>5. \A k \in Keys : tree[k] # Reserved
    BY <1>3, <1>7, <2>2
  <2> QED  BY <2>1, <2>4, <2>5 DEF NamesOwned
<1>12. SlotAccounting
  <2>1. Registered = S
    BY <1>3, <1>4, AgentsAssumption DEF Registered, Keys
  <2>2. {c \in Callers : Counted(c)} = {}
    BY <1>6 DEF Counted
  <2>3. Cardinality({c \in Callers : Counted(c)}) = 0
    BY <2>2, FS_EmptySet
  <2> QED  BY <1>2, <1>4, <1>5, <2>1, <2>3 DEF SlotAccounting
<1>13. PendingExact
  <2>1. {c \in Callers : HoldsSlot(c)} = {}
    BY <1>6 DEF HoldsSlot
  <2> QED  BY <1>2, <2>1, FS_EmptySet DEF PendingExact
<1> QED  BY <1>8, <1>9, <1>10, <1>11, <1>12, <1>13 DEF AgentsInv

\* Every step of the session keeps it.
LEMMA NextInv ==
    ASSUME AgentsInv, [Next]_vars
    PROVE  AgentsInv'
<1>1. ASSUME NEW c \in Callers, EvictionStep(c), calls' = calls
      PROVE  AgentsInv'
  BY <1>1, TryReserveInv, CountResidentsInv, PopLruCandidateInv, LimitReachedInv,
     CheckCandidateInv, TouchCandidateInv, ShutdownCandidateInv, RemoveCandidateInv
     DEF EvictionStep
<1>2. ASSUME NEW c \in Callers, RegistryStep(c), calls' = calls
      PROVE  AgentsInv'
  BY <1>2, ReserveSpawnSlotInv, ReserveAgentPathInv, RegisterInv, ReleaseReservedPathInv,
     ReleaseSpawnedThreadInv, ReturnCountInv DEF RegistryStep
<1>3. ASSUME NEW c \in Callers, ManagerStep(c), calls' = calls
      PROVE  AgentsInv'
  BY <1>3, StartThreadInv, StartFailsInv, LookupAgentInv, AgentKnownInv, TouchLoadedInv,
     ResumeThreadInv, InsertThreadInv, InsertFailsInv, RecheckLoadedInv, DropSlotInv,
     CommitSlotInv, DeliverInv, ShutdownAgentInv, RemoveThreadInv, ForgetResidencyInv
     DEF ManagerStep
<1>4. ASSUME NEW c \in Callers, CallStep(c)
      PROVE  AgentsInv'
  BY <1>1, <1>2, <1>3, <1>4 DEF CallStep
<1>5. ASSUME NEW c \in Callers, BeginCall(c)
      PROVE  AgentsInv'
  BY <1>5, BeginCallInv
<1>6. ASSUME NEW a \in Agents, Settle(a) \/ UnloadBegins(a) \/ UnloadEnds(a)
      PROVE  AgentsInv'
  BY <1>6, AgentStepInv
<1>7. CASE UNCHANGED vars
  <2>1. UNCHANGED <<version, tree, paths, total, leaked, runtime, starts, closing, unloads,
                    residents, pending, call, calls>>
    BY <1>7 DEF vars, registry, manager, residency
  <2>2. Types'
    BY <2>1 DEF AgentsInv, Types
  <2> QED  BY <2>1, <2>2, NoCallMoves
<1> QED  BY <1>4, <1>5, <1>6, <1>7 DEF Next
\* Whatever calls, evictions, unloads and failures interleave, the calls are
\* where they should be, and the registry's names and counts and the residency
\* list's promises belong to agents and calls.
THEOREM AgentsInvariance == Spec => []AgentsInv
<1>1. Init => AgentsInv
  BY InitInv
<1>2. AgentsInv /\ [Next]_vars => AgentsInv'
  BY NextInv
<1> QED  BY <1>1, <1>2, PTL DEF Spec

\* The state stays well typed, and no agent is twice in the residency list:
\* touch takes it from its old place, and an eviction takes it out before it
\* looks at it.
THEOREM AgentsTypeCorrect == Spec => []TypeOK
<1>1. AgentsInv => TypeOK
  BY DEF AgentsInv, Types, TypeOK, IsList, CallTypes
<1> QED  BY <1>1, AgentsInvariance, PTL

\* Every count of total_count belongs to a registered agent or to one call in
\* flight, for any number of calls that spawn, resume and close; only a second
\* registration of the same agent loses one (register_spawned_thread).
THEOREM SlotsAccounted == Spec => []SlotAccounting
<1>1. AgentsInv => SlotAccounting
  BY DEF AgentsInv
<1> QED  BY <1>1, AgentsInvariance, PTL

\* Registered V1 agents and calls about to register one never exceed the
\* configured maximum: try_increment_spawned's check and increment are one
\* step, and a count is returned only by the call that holds it.
THEOREM SpawnLimit == Spec => []AgentLimit
<1>1. ASSUME AgentsInv PROVE AgentLimit
  <2>1. /\ total = Cardinality(Registered) + Cardinality(CountedCalls) + leaked
        /\ version = "V1" => total <= MaxThreads
        /\ leaked \in Nat /\ MaxThreads \in Nat
    BY <1>1, AgentsAssumption DEF AgentsInv, SlotAccounting, CountedCalls, Limited, Types
  <2>2. Registered \subseteq Agents /\ IsFiniteSet(Agents)
        /\ CountedCalls \subseteq Callers /\ IsFiniteSet(Callers)
    BY AgentsAssumption DEF Registered, CountedCalls
  <2>3. Cardinality(Registered) \in Nat /\ Cardinality(CountedCalls) \in Nat
    BY <2>2, FS_Subset, FS_CardinalityType
  <2>4. version = "V1" => Cardinality(Registered) + Cardinality(CountedCalls) <= MaxThreads
    BY <2>1, <2>3
  <2> QED  BY <2>4 DEF AgentLimit, CountedCalls
<1> QED  BY <1>1, AgentsInvariance, PTL

\* agent_tree and thread_paths stay inverse to each other, and a reserved path
\* belongs to exactly one call: no race of spawns and releases leaves a path
\* reserved for ever or registers an agent under another's name.
THEOREM NamesAreOwned == Spec => []NamesOwned
<1>1. AgentsInv => NamesOwned
  BY DEF AgentsInv
<1> QED  BY <1>1, AgentsInvariance, PTL

\* Every promised residency slot belongs to a call in flight: no way out of a
\* spawn, a send or an open keeps one.
THEOREM SlotsReturned == Spec => []PendingExact
<1>1. AgentsInv => PendingExact
  BY DEF AgentsInv
<1> QED  BY <1>1, AgentsInvariance, PTL
(***************************************************************************)
(* Every loaded agent can be unloaded.                                     *)
(***************************************************************************)

\* x is a call that has agent a in hand.
Hand(x, a) ==
    \/ x.victim = a /\ x.pc \in {"check", "touch", "unload", "evict"}
    \/ x.agent = a /\ x.pc \in {"place", "release"}

Only(c) == \A d \in Callers : d # c => call'[d] = call[d]

\* What a step of call c leaves of the agents that are loaded and registered.
Covers(c) ==
    \A a \in Agents :
        a \in Registered' /\ Live(a)' =>
            \/ Hand(call'[c], a) \/ In(a, residents')
            \/ a \in Registered /\ Live(a) /\ ~Hand(call[c], a) /\ ~In(a, residents)

\* That is enough.
LEMMA CoversEvictable ==
    ASSUME Evictable, NEW c \in Callers, Only(c), version' = version,
           version = "V2" => Covers(c)
    PROVE  Evictable'
<1>1. /\ \A a : InHand(a) <=> \E d \in Callers : Hand(call[d], a)
      /\ \A a : InHand(a)' <=> \E d \in Callers : Hand(call'[d], a)
  BY DEF InHand, Hand
<1>2. /\ \A a : Resident(a) <=> In(a, residents)
      /\ \A a : Resident(a)' <=> In(a, residents')
  BY DEF Resident, In
<1>3. ASSUME version = "V2", NEW a \in Agents, a \in Registered', Live(a)'
      PROVE  InHand(a)' \/ Resident(a)'
  <2>1. CASE Hand(call'[c], a) \/ In(a, residents')
    BY <1>1, <1>2, <2>1
  <2>2. CASE a \in Registered /\ Live(a) /\ ~Hand(call[c], a) /\ ~In(a, residents)
    <3>1. InHand(a) \/ Resident(a)
      BY <1>3, <2>2 DEF Evictable
    <3>2. PICK d \in Callers : Hand(call[d], a)
      BY <1>1, <1>2, <2>2, <3>1
    <3>3. call'[d] = call[d]
      BY <2>2, <3>2 DEF Only
    <3> QED  BY <1>1, <3>2, <3>3
  <2> QED  BY <1>3, <2>1, <2>2 DEF Covers
<1>4. Registered' \subseteq Agents
  BY DEF Registered
<1> QED  BY <1>3, <1>4 DEF Evictable

\* Registered agents stay begun if the starts only grow.
LEMMA BegunStep ==
    ASSUME Begun, NEW c \in Callers, Only(c), version' = version,
           starts \in [Agents -> Nat], starts' \in [Agents -> Nat], Types,
           \A a \in Agents : starts'[a] >= starts[a],
           version = "V2" => /\ call'[c].pc = "register" => starts'[call'[c].agent] > 0
                             /\ \A a \in Registered' : a \in Registered \/ starts'[a] > 0,
           CallShape
    PROVE  Begun'
<1>1. Stored' = Stored /\ Registered \subseteq Agents /\ Registered' \subseteq Agents
  BY DEF Stored, Registered
<1>2. ASSUME version = "V2", NEW a \in Registered'
      PROVE  starts'[a] > 0 \/ a \in Stored'
  <2>1. CASE a \in Registered
    BY <1>1, <1>2, <2>1 DEF Begun
  <2>2. CASE a \notin Registered
    BY <1>2, <2>2
  <2> QED  BY <2>1, <2>2
<1>3. ASSUME version = "V2", NEW d \in Callers, call'[d].pc = "register"
      PROVE  starts'[call'[d].agent] > 0
  <2>1. CASE d = c
    BY <1>3, <2>1
  <2>2. CASE d # c
    <3>1. call'[d] = call[d]
      BY <2>2 DEF Only
    <3>2. call[d].agent \in Agents /\ starts[call[d].agent] > 0
      BY <1>3, <3>1 DEF CallShape, Shape, Begun
    <3> QED  BY <3>1, <3>2
  <2> QED  BY <2>1, <2>2
<1> QED  BY <1>2, <1>3 DEF Begun

\* A step that has no agent in hand, registers none and starts no runtime.
LEMMA PlainStep ==
    ASSUME AgentsInv, Begun, Evictable, NEW c \in Callers, Only(c),
           UNCHANGED <<version, paths, starts, residents>>,
           call[c].pc \notin {"check", "touch", "unload", "evict", "place", "release"},
           version = "V2" => call'[c].pc # "register",
           \A a \in Agents : Live(a)' => Live(a)
    PROVE  Begun' /\ Evictable'
<1>1. Registered' = Registered
  BY DEF Registered
<1>2. starts \in [Agents -> Nat]
  BY AgentsAssumption DEF AgentsInv, Types
<1>3. Begun'
  BY <1>1, <1>2, BegunStep DEF AgentsInv
<1>4. \A a \in Agents : ~Hand(call[c], a)
  BY DEF Hand
<1>5. Covers(c)
  BY <1>1, <1>4 DEF Covers
<1>6. Evictable'
  BY <1>5, CoversEvictable
<1> QED  BY <1>3, <1>6

\* The steps of that kind change their call's step only, or its name or count.
LEMMA PlainMoves ==
    ASSUME AgentsInv, Begun, Evictable, NEW c \in Callers,
           NEW l, NEW o, NEW a, NEW p, NEW v, Moves(c, l, o, a, p, v),
           UNCHANGED <<version, paths, starts, residents>>,
           call[c].pc \notin {"check", "touch", "unload", "evict", "place", "release"},
           version = "V2" => l # "register",
           \A b \in Agents : Live(b)' => Live(b)
    PROVE  Begun' /\ Evictable'
BY PlainStep DEF Moves, Only
\* They go on, give up their path, or return.
LEMMA PlainGoto ==
    ASSUME AgentsInv, Begun, Evictable, NEW c \in Callers, NEW l \in Steps,
           \/ Goto(c, l) \/ Return(c)
           \/ call' = [call EXCEPT ![c].pc = l, ![c].name = NoPath],
           UNCHANGED <<version, paths, starts, residents>>,
           call[c].pc \notin {"check", "touch", "unload", "evict", "place", "release"},
           version = "V2" => l # "register",
           \A b \in Agents : Live(b)' => Live(b)
    PROVE  Begun' /\ Evictable'
<1>1. Types
  BY DEF AgentsInv
<1>2. CASE Goto(c, l)
  BY <1>1, <1>2, GotoMoves, PlainMoves
<1>3. CASE Return(c)
  BY <1>1, <1>3, ReturnMoves, PlainMoves
<1>4. CASE call' = [call EXCEPT ![c].pc = l, ![c].name = NoPath]
  BY <1>1, <1>4, NameMoves, PlainMoves
<1> QED  BY <1>2, <1>3, <1>4

\* The plain steps of an eviction.
LEMMA PlainEviction ==
    ASSUME AgentsInv, Begun, Evictable, NEW c \in Callers,
           TryReservePendingSlot(c) \/ CountResidents(c) \/ LimitReached(c)
    PROVE  Begun' /\ Evictable'
<1>1. CASE TryReservePendingSlot(c)
  <2>1. /\ call[c].pc = "room" /\ UNCHANGED <<version, paths, starts, residents, runtime>>
        /\ Goto(c, "count") \/ Goto(c, "number") \/ Goto(c, "resume")
    BY <1>1 DEF TryReservePendingSlot, registry, manager
  <2>2. \A b \in Agents : Live(b)' => Live(b)
    BY <2>1 DEF Live
  <2> QED  BY <2>1, <2>2, PlainGoto, StepNames
<1>2. CASE CountResidents(c)
  <2>1. /\ call[c].pc = "count" /\ UNCHANGED <<version, paths, starts, residents, runtime>>
        /\ call' = [call EXCEPT ![c].pc = "scan", ![c].left = Len(residents)]
    BY <1>2 DEF CountResidents, registry, manager, residency
  <2>2. Types /\ Len(residents) \in Nat
    BY DEF AgentsInv, Types, IsList
  <2>3. \A b \in Agents : Live(b)' => Live(b)
    BY <2>1 DEF Live
  <2>4. Moves(c, "scan", call[c].op, call[c].agent, call[c].name, call[c].victim)
    BY <2>1, <2>2, LeftMoves, StepNames
  <2> QED  BY <2>1, <2>3, <2>4, PlainMoves
<1>3. CASE LimitReached(c)
  <2>1. /\ call[c].pc = "scan" /\ UNCHANGED <<version, paths, starts, residents, runtime>>
        /\ Return(c)
    BY <1>3 DEF LimitReached, registry, manager, residency
  <2>2. \A b \in Agents : Live(b)' => Live(b)
    BY <2>1 DEF Live
  <2>3. "idle" \in Steps
    BY StepNames
  <2> QED  BY <2>1, <2>2, <2>3, PlainGoto
<1> QED  BY <1>1, <1>2, <1>3

\* The plain steps in the registry.
LEMMA PlainRegistry ==
    ASSUME AgentsInv, Begun, Evictable, NEW c \in Callers,
           \/ ReserveSpawnSlot(c) \/ ReserveAgentPath(c) \/ ReleaseReservedPath(c)
           \/ ReturnCount(c)
    PROVE  Begun' /\ Evictable'
<1>1. /\ UNCHANGED <<version, paths, starts, residents, runtime>>
      /\ call[c].pc \in {"number", "name", "unname", "uncount"}
  BY DEF ReserveSpawnSlot, ReserveAgentPath, ReleaseReservedPath, ReturnCount, manager, residency
<1>2. PICK l \in {"resume", "name", "start", "uncount", "unslot", "idle"} :
          \/ Goto(c, l) \/ Return(c)
          \/ call' = [call EXCEPT ![c].pc = l, ![c].name = NoPath]
  <2>1. CASE ReserveSpawnSlot(c)
    <3>1. CASE version = "V1" /\ total >= MaxThreads
      BY <2>1, <3>1 DEF ReserveSpawnSlot
    <3>2. CASE ~(version = "V1" /\ total >= MaxThreads)
      <4>1. Goto(c, CASE call[c].op = "Resume" -> "resume"
                      [] version = "V2" -> "name"
                      [] OTHER -> "start")
        BY <2>1, <3>2 DEF ReserveSpawnSlot
      <4>2. call[c].op = "Resume" => version = "V1"
        BY <2>1, AtStep DEF Shape, ReserveSpawnSlot
      <4>3. PICK k : k = CASE call[c].op = "Resume" -> "resume"
                           [] version = "V2" -> "name"
                           [] OTHER -> "start"
        OBVIOUS
      <4>4. k \in {"resume", "name", "start"}
        BY <4>2, <4>3
      <4> QED  BY <4>1, <4>3, <4>4
    <3> QED  BY <3>1, <3>2
  <2>2. CASE ReserveAgentPath(c)
    BY <2>2 DEF ReserveAgentPath
  <2>3. CASE ReleaseReservedPath(c)
    BY <2>3 DEF ReleaseReservedPath
  <2>4. CASE ReturnCount(c)
    BY <2>4 DEF ReturnCount
  <2> QED  BY <2>1, <2>2, <2>3, <2>4
<1>3. \A b \in Agents : Live(b)' => Live(b)
  BY <1>1 DEF Live
<1>4. l \in Steps /\ l # "register"
  BY <1>2, StepNames
<1> QED  BY <1>1, <1>2, <1>3, <1>4, PlainGoto

\* The plain steps that look an agent up or fail.
LEMMA PlainLookup ==
    ASSUME AgentsInv, Begun, Evictable, NEW c \in Callers,
           \/ StartFails(c) \/ LookupAgent(c) \/ AgentKnown(c) \/ InsertFails(c)
           \/ RecheckLoaded(c) \/ DropSlot(c)
    PROVE  Begun' /\ Evictable'
<1>1. /\ UNCHANGED <<version, paths, starts, residents, runtime>>
      /\ call[c].pc \in {"start", "lookup", "known", "insert", "recheck", "swap", "unslot"}
  BY DEF StartFails, LookupAgent, AgentKnown, InsertFails, RecheckLoaded, DropSlot,
         registry, manager, residency
<1>2. PICK l \in {"unname", "uncount", "retouch", "known", "room", "lookup", "recheck",
                  "swap", "unslot", "idle"} : Goto(c, l) \/ Return(c)
  BY DEF StartFails, LookupAgent, AgentKnown, InsertFails, RecheckLoaded, DropSlot
<1>3. \A b \in Agents : Live(b)' => Live(b)
  BY <1>1 DEF Live
<1>4. l \in Steps /\ l # "register"
  BY <1>2, StepNames
<1> QED  BY <1>1, <1>2, <1>3, <1>4, PlainGoto

\* The plain steps that find, use, shut down or remove a runtime.
LEMMA PlainRuntime ==
    ASSUME AgentsInv, Begun, Evictable, NEW c \in Callers,
           ResumeThread(c) \/ Deliver(c) \/ ShutdownAgent(c) \/ RemoveThread(c)
    PROVE  Begun' /\ Evictable'
<1>1. Types /\ version \in {"V1", "V2"} /\ runtime \in Runtimes
  BY AtStep DEF Types, Runtimes
<1>2. /\ UNCHANGED <<version, paths, starts, residents>>
      /\ call[c].pc \in {"resume", "deliver", "shutdown", "remove"}
  BY DEF ResumeThread, Deliver, ShutdownAgent, RemoveThread, registry, residency
<1>3. \A b \in Agents : Live(b)' => Live(b)
  BY <1>1 DEF ResumeThread, Deliver, ShutdownAgent, RemoveThread, Live, Runtimes
<1>4. CASE call' = [call EXCEPT ![c].pc = "remove", ![c].op = "Bury", ![c].name = NoPath]
  <2>1. Moves(c, "remove", "Bury", call[c].agent, NoPath, call[c].victim)
    BY <1>1, <1>4, BuryMoves, StepNames
  <2> QED  BY <1>2, <1>3, <2>1, PlainMoves
<1>5. CASE \E l \in {"insert", "remove", "forget", "idle", Loaded(c)} : Goto(c, l) \/ Return(c)
  <2>1. PICK l \in {"insert", "remove", "forget", "idle", Loaded(c)} : Goto(c, l) \/ Return(c)
    BY <1>5
  <2>2. l \in Steps /\ (version = "V2" => l # "register")
    BY <2>1, StepNames DEF Loaded
  <2> QED  BY <1>2, <1>3, <2>1, <2>2, PlainGoto
<1> QED  BY <1>4, <1>5 DEF ResumeThread, Deliver, ShutdownAgent, RemoveThread

\* A call begins with nothing in hand.
LEMMA PlainBegin ==
    ASSUME AgentsInv, Begun, Evictable, NEW c \in Callers, BeginCall(c)
    PROVE  Begun' /\ Evictable'
<1>1. PICK o \in Operations, a \in Agents \cup {NoAgent}, p \in Paths \cup {NoPath},
           l \in {"room", "number", "lookup", "deliver", "known", "shutdown"} :
          Begin(c, o, a, p, l)
  <2>1. CASE SpawnAgent(c)
    BY <2>1, StepNames DEF SpawnAgent
  <2>2. CASE \E a \in Agents : SendMessage(c, a) \/ OpenChild(c, a)
    BY <2>2, StepNames DEF SendMessage, OpenChild
  <2>3. CASE \E a \in Agents : ResumeAgent(c, a) \/ CloseAgent(c, a)
    BY <2>3, StepNames DEF ResumeAgent, CloseAgent
  <2> QED  BY <2>1, <2>2, <2>3 DEF BeginCall
<1>2. /\ call[c].pc = "idle" /\ UNCHANGED <<version, paths, starts, residents, runtime>>
      /\ call' = [call EXCEPT ![c].pc = l, ![c].op = o, ![c].agent = a, ![c].name = p]
  BY <1>1 DEF Begin, registry, manager, residency
<1>3. Types /\ l \in Steps /\ l # "register"
  BY <1>1, StepNames DEF AgentsInv
<1>4. Moves(c, l, o, a, p, call[c].victim)
  BY <1>1, <1>2, <1>3, BeginMoves
<1>5. \A b \in Agents : Live(b)' => Live(b)
  BY <1>2 DEF Live
<1> QED  BY <1>2, <1>3, <1>4, <1>5, PlainMoves
\* A step that starts no runtime and registers no agent, and keeps in hand or
\* in the list what it had there, or leaves it without a runtime or a name.
LEMMA KeepsInHand ==
    ASSUME AgentsInv, Begun, Evictable, NEW c \in Callers,
           NEW l, NEW o, NEW a, NEW p, NEW v, Moves(c, l, o, a, p, v),
           UNCHANGED <<version, starts>>, Registered' \subseteq Registered,
           version = "V2" => l # "register",
           \A b \in Agents : Live(b)' => Live(b),
           \A b \in Agents : b \in Registered' /\ Live(b)' =>
               \/ Hand(call'[c], b) \/ In(b, residents')
               \/ ~Hand(call[c], b) /\ ~In(b, residents)
    PROVE  Begun' /\ Evictable'
<1>1. Only(c) /\ call'[c].pc = l
  BY DEF Moves, Only
<1>2. starts \in [Agents -> Nat]
  BY AgentsAssumption DEF AgentsInv, Types
<1>3. Begun'
  BY <1>1, <1>2, BegunStep DEF AgentsInv
<1>4. Covers(c)
  BY DEF Covers
<1>5. Evictable'
  BY <1>1, <1>4, CoversEvictable
<1> QED  BY <1>3, <1>5

\* The candidate of an eviction stays in hand until it is put back or removed.
LEMMA CandidateKept ==
    ASSUME AgentsInv, Begun, Evictable, NEW c \in Callers,
           \/ CheckCandidate(c) \/ TouchCandidate(c) \/ ShutdownCandidate(c)
           \/ RemoveCandidate(c)
    PROVE  Begun' /\ Evictable'
<1>1. Types /\ Shape(version, call[c]) /\ runtime \in Runtimes /\ IsList(residents)
  BY AtStep DEF Types, Runtimes
<1>2. /\ UNCHANGED <<version, paths, starts>>
      /\ call[c].pc \in {"check", "touch", "unload", "evict"}
  BY DEF CheckCandidate, TouchCandidate, ShutdownCandidate, RemoveCandidate,
         registry, manager, residency
<1>3. PICK v \in Agents : v = call[c].victim
  BY <1>1, <1>2 DEF Shape
<1>4. Registered' \subseteq Registered
  BY <1>2 DEF Registered
<1>5. \A b \in Agents : Live(b)' => Live(b)
  BY <1>1, <1>2 DEF CheckCandidate, TouchCandidate, ShutdownCandidate, RemoveCandidate,
     registry, manager, residency, Live, Runtimes
<1>6. \A b : Hand(call[c], b) <=> b = v
  BY <1>2, <1>3 DEF Hand
<1>7. CASE CheckCandidate(c)
  <2>1. /\ residents' = residents /\ runtime' = runtime
        /\ \/ runtime[v] = "absent" /\ Goto(c, "scan")
           \/ Goto(c, "touch")
           \/ call' = [call EXCEPT ![c].pc = "unload", ![c].held = starts[v]]
    BY <1>3, <1>7 DEF CheckCandidate, manager, residency
  <2>2. starts[v] \in Nat
    BY <1>1 DEF Types
  <2>3. PICK l \in {"scan", "touch", "unload"} :
          /\ Moves(c, l, call[c].op, call[c].agent, call[c].name, call[c].victim)
          /\ l = "scan" => runtime[v] = "absent"
    <3>1. CASE runtime[v] = "absent" /\ Goto(c, "scan")
      BY <1>1, <3>1, GotoMoves, StepNames
    <3>2. CASE Goto(c, "touch")
      BY <1>1, <3>2, GotoMoves, StepNames
    <3>3. CASE call' = [call EXCEPT ![c].pc = "unload", ![c].held = starts[v]]
      BY <1>1, <2>2, <3>3, HeldMoves, StepNames
    <3> QED  BY <2>1, <3>1, <3>2, <3>3
  <2>4. l = "scan" \/ Hand(call'[c], v)
    BY <1>3, <2>3 DEF Moves, Hand
  <2>5. l = "scan" => ~Live(v)'
    BY <2>1, <2>3 DEF Live
  <2>6. \A b \in Agents : b \in Registered' /\ Live(b)' =>
               \/ Hand(call'[c], b) \/ In(b, residents')
               \/ ~Hand(call[c], b) /\ ~In(b, residents)
    BY <1>6, <2>1, <2>4, <2>5
  <2>7. version = "V2" => l # "register"
    BY <2>3
  <2> QED  BY <1>2, <1>4, <1>5, <2>3, <2>6, <2>7, KeepsInHand
<1>8. CASE TouchCandidate(c)
  <2>1. residents' = Touch(v) /\ Goto(c, "scan")
    BY <1>3, <1>8 DEF TouchCandidate
  <2>2. In(v, residents') /\ \A b : In(b, residents) => In(b, residents')
    BY <1>1, <2>1, TouchList
  <2>3. Moves(c, "scan", call[c].op, call[c].agent, call[c].name, call[c].victim)
    BY <1>1, <2>1, GotoMoves, StepNames
  <2>4. \A b \in Agents : b \in Registered' /\ Live(b)' =>
               \/ Hand(call'[c], b) \/ In(b, residents')
               \/ ~Hand(call[c], b) /\ ~In(b, residents)
    BY <1>6, <2>2
  <2> QED  BY <1>2, <1>4, <1>5, <2>3, <2>4, KeepsInHand
<1>9. CASE ShutdownCandidate(c)
  <2>1. residents' = residents /\ Goto(c, "evict")
    BY <1>9 DEF ShutdownCandidate, residency
  <2>2. Moves(c, "evict", call[c].op, call[c].agent, call[c].name, call[c].victim)
    BY <1>1, <2>1, GotoMoves, StepNames
  <2>3. Hand(call'[c], v)
    BY <1>3, <2>2 DEF Moves, Hand
  <2>4. \A b \in Agents : b \in Registered' /\ Live(b)' =>
               \/ Hand(call'[c], b) \/ In(b, residents')
               \/ ~Hand(call[c], b) /\ ~In(b, residents)
    BY <1>6, <2>1, <2>3
  <2> QED  BY <1>2, <1>4, <1>5, <2>2, <2>4, KeepsInHand
<1>10. CASE RemoveCandidate(c)
  <2>1. /\ residents' = residents /\ runtime' = [runtime EXCEPT ![v] = "absent"]
        /\ call' = [call EXCEPT ![c].pc = "room", ![c].victim = NoAgent,
                                ![c].held = 0, ![c].left = 0]
    BY <1>3, <1>10 DEF RemoveCandidate, residency
  <2>2. Moves(c, "room", call[c].op, call[c].agent, call[c].name, NoAgent)
    BY <1>1, <2>1, ClearMoves, StepNames
  <2>3. ~Live(v)'
    BY <1>1, <2>1 DEF Live, Runtimes
  <2>4. \A b \in Agents : b \in Registered' /\ Live(b)' =>
               \/ Hand(call'[c], b) \/ In(b, residents')
               \/ ~Hand(call[c], b) /\ ~In(b, residents)
    BY <1>6, <2>1, <2>3
  <2> QED  BY <1>2, <1>4, <1>5, <2>2, <2>4, KeepsInHand
<1> QED  BY <1>7, <1>8, <1>9, <1>10

\* The candidate that leaves the list is in hand.
LEMMA CandidateTaken ==
    ASSUME AgentsInv, Begun, Evictable, NEW c \in Callers, PopLruCandidate(c)
    PROVE  Begun' /\ Evictable'
<1>1. IsList(residents)
  BY DEF AgentsInv, Types
<1>2. call[c].pc = "scan" /\ UNCHANGED <<version, paths, runtime, starts>>
  BY DEF PopLruCandidate, registry, manager
<1>3. PICK i \in DOMAIN residents : Pops(c, i)
  BY PopsOne
<1>4. \A b : b # residents[i] /\ In(b, residents) => In(b, residents')
  BY <1>1, <1>3, PopsList
<1>5. Moves(c, "check", call[c].op, call[c].agent, call[c].name, residents[i])
  BY <1>3 DEF Pops
<1>6. Hand(call'[c], residents[i])
  BY <1>5 DEF Moves, Hand
<1>7. \A b : ~Hand(call[c], b)
  BY <1>2 DEF Hand
<1>8. \A b \in Agents : b \in Registered' /\ Live(b)' =>
               \/ Hand(call'[c], b) \/ In(b, residents')
               \/ ~Hand(call[c], b) /\ ~In(b, residents)
  BY <1>4, <1>6, <1>7
<1>9. Registered' \subseteq Registered /\ \A b \in Agents : Live(b)' => Live(b)
  BY <1>2 DEF Registered, Live
<1> QED  BY <1>2, <1>5, <1>8, <1>9, KeepsInHand

\* An agent touched or committed is in the list; one forgotten is in hand
\* until its name is released.
LEMMA ListedOrForgotten ==
    ASSUME AgentsInv, Begun, Evictable, NEW c \in Callers,
           TouchLoaded(c) \/ CommitSlot(c) \/ ForgetResidency(c)
    PROVE  Begun' /\ Evictable'
<1>1. Types /\ Shape(version, call[c]) /\ IsList(residents)
  BY AtStep DEF Types
<1>2. /\ UNCHANGED <<version, paths, starts, runtime>>
      /\ call[c].pc \in {"retouch", "place", "forget"}
  BY DEF TouchLoaded, CommitSlot, ForgetResidency, registry, manager
<1>3. PICK a \in Agents : a = call[c].agent
  BY <1>1, <1>2 DEF Shape
<1>4. Registered' \subseteq Registered /\ \A b \in Agents : Live(b)' => Live(b)
  BY <1>2 DEF Registered, Live
<1>5. \A b : Hand(call[c], b) => b = a /\ call[c].pc = "place"
  BY <1>2, <1>3 DEF Hand
<1>6. CASE TouchLoaded(c) \/ CommitSlot(c)
  <2>1. /\ residents' = residents \/ residents' = Touch(a)
        /\ call[c].pc = "place" /\ Live(a) => residents' = Touch(a)
        /\ Goto(c, "deliver") \/ Return(c)
    BY <1>3, <1>6 DEF TouchLoaded, CommitSlot, Usable
  <2>2. /\ \A b : In(b, residents) => In(b, residents')
        /\ call[c].pc = "place" /\ Live(a) => In(a, residents')
    BY <1>1, <2>1, TouchList
  <2>3. \A b \in Agents : b \in Registered' /\ Live(b)' =>
               \/ Hand(call'[c], b) \/ In(b, residents')
               \/ ~Hand(call[c], b) /\ ~In(b, residents)
    BY <1>4, <1>5, <2>2
  <2>4. PICK l, o, e, p, v : l \in {"deliver", "idle"} /\ Moves(c, l, o, e, p, v)
    BY <1>1, <2>1, GotoMoves, ReturnMoves, StepNames
  <2>5. version = "V2" => l # "register"
    BY <2>4
  <2> QED  BY <1>2, <1>4, <2>3, <2>4, <2>5, KeepsInHand
<1>7. CASE ForgetResidency(c)
  <2>1. residents' = Without(a) /\ Goto(c, "release") /\ call[c].pc = "forget"
    BY <1>3, <1>7 DEF ForgetResidency
  <2>2. \A b : b # a /\ In(b, residents) => In(b, residents')
    BY <1>1, <2>1, WithoutList
  <2>3. Moves(c, "release", call[c].op, call[c].agent, call[c].name, call[c].victim)
    BY <1>1, <2>1, GotoMoves, StepNames
  <2>4. Hand(call'[c], a)
    BY <1>3, <2>3 DEF Moves, Hand
  <2>5. \A b \in Agents : b \in Registered' /\ Live(b)' =>
               \/ Hand(call'[c], b) \/ In(b, residents')
               \/ ~Hand(call[c], b) /\ ~In(b, residents)
    BY <1>5, <2>1, <2>2, <2>4
  <2> QED  BY <1>2, <1>4, <2>3, <2>5, KeepsInHand
<1> QED  BY <1>6, <1>7

\* A released agent has no name any more.
LEMMA Released ==
    ASSUME AgentsInv, Begun, Evictable, NEW c \in Callers, ReleaseSpawnedThread(c)
    PROVE  Begun' /\ Evictable'
<1>1. Types /\ Shape(version, call[c])
  BY AtStep
<1>2. /\ call[c].pc = "release" /\ UNCHANGED <<version, starts, runtime, residents>>
      /\ paths' = [paths EXCEPT ![call[c].agent] = NoPath]
      /\ Goto(c, "uncount") \/ Return(c)
  BY DEF ReleaseSpawnedThread, manager, residency
<1>3. PICK a \in Agents : a = call[c].agent
  BY <1>1, <1>2 DEF Shape
<1>4. Registered' \subseteq Registered /\ a \notin Registered'
  BY <1>1, <1>2, <1>3 DEF Registered, Types
<1>5. \A b : Hand(call[c], b) => b = a
  BY <1>2, <1>3 DEF Hand
<1>6. \A b \in Agents : Live(b)' => Live(b)
  BY <1>2 DEF Live
<1>7. \A b \in Agents : b \in Registered' /\ Live(b)' =>
               \/ Hand(call'[c], b) \/ In(b, residents')
               \/ ~Hand(call[c], b) /\ ~In(b, residents)
  BY <1>2, <1>4, <1>5
<1>8. PICK l, o, e, p, v : l \in {"uncount", "idle"} /\ Moves(c, l, o, e, p, v)
  BY <1>1, <1>2, GotoMoves, ReturnMoves, StepNames
<1>9. version = "V2" => l # "register"
  BY <1>8
<1> QED  BY <1>2, <1>4, <1>6, <1>7, <1>8, <1>9, KeepsInHand

\* A registered agent is about to be placed, and has a runtime.
LEMMA Registers ==
    ASSUME AgentsInv, Begun, Evictable, NEW c \in Callers, Register(c)
    PROVE  Begun' /\ Evictable'
<1>1. Types /\ CallShape /\ Shape(version, call[c]) /\ version \in {"V1", "V2"}
  BY AtStep DEF AgentsInv
<1>2. /\ call[c].pc = "register" /\ UNCHANGED <<version, starts, runtime, residents>>
      /\ version = "V2" => Goto(c, "place")
      /\ version = "V1" => Goto(c, "deliver") \/ Return(c)
  BY <1>1 DEF Register, manager, residency
<1>3. PICK a \in Agents : a = call[c].agent
  BY <1>1, <1>2 DEF Shape
<1>4. \A b \in Agents : b # a => paths'[b] = NoPath \/ paths'[b] = paths[b]
  BY <1>3 DEF Register
<1>5. \A b \in Registered' : b = a \/ b \in Registered
  BY <1>4 DEF Registered
<1>6. PICK l, o, e, p, v : l \in {"place", "deliver", "idle"} /\
          Moves(c, l, o, e, p, v) /\ (version = "V2" => l = "place" /\ e = a)
  <2>1. CASE version = "V2"
    BY <1>1, <1>2, <1>3, <2>1, GotoMoves, StepNames
  <2>2. CASE version = "V1"
    BY <1>1, <1>2, <2>2, GotoMoves, ReturnMoves, StepNames
  <2> QED  BY <1>1, <2>1, <2>2
<1>7. Only(c) /\ call'[c].pc # "register" /\ (version = "V2" => Hand(call'[c], a))
  BY <1>6 DEF Moves, Only, Hand
<1>8. starts \in [Agents -> Nat]
  BY <1>1, AgentsAssumption DEF Types
<1>9. version = "V2" => starts[a] > 0
  BY <1>2, <1>3 DEF Begun
<1>10. Begun'
  BY <1>1, <1>2, <1>5, <1>7, <1>8, <1>9, BegunStep
<1>11. \A b : ~Hand(call[c], b)
  BY <1>2 DEF Hand
<1>12. version = "V2" => Covers(c)
  BY <1>2, <1>5, <1>7, <1>11 DEF Covers, Live
<1>13. Evictable'
  BY <1>2, <1>7, <1>12, CoversEvictable
<1> QED  BY <1>10, <1>13

\* A runtime that starts is of an agent that is not registered yet, or is
\* about to be placed.
LEMMA Starts ==
    ASSUME AgentsInv, Begun, Evictable, NEW c \in Callers, StartThread(c) \/ InsertThread(c)
    PROVE  Begun' /\ Evictable'
<1>1. /\ Types /\ CallShape /\ Shape(version, call[c]) /\ version \in {"V1", "V2"}
      /\ runtime \in Runtimes
  BY AtStep DEF AgentsInv, Types, Runtimes
<1>2. /\ call[c].pc \in {"start", "insert"} /\ UNCHANGED <<version, paths, residents>>
  BY DEF StartThread, InsertThread, registry, residency
<1>3. PICK a \in Agents :
          /\ StartRuntime(a) /\ starts[a] < MaxStarts
          /\ \/ /\ starts[a] = 0 /\ a \notin Stored
                /\ call' = [call EXCEPT ![c].pc = "register", ![c].agent = a]
             \/ call[c].agent = a /\ Goto(c, Loaded(c))
  <2>1. CASE StartThread(c)
    BY <2>1, <1>1, AgentsAssumption DEF StartThread, Types
  <2>2. CASE InsertThread(c)
    BY <1>1, <2>2 DEF InsertThread, Shape
  <2> QED  BY <2>1, <2>2
<1>4. Registered' = Registered /\ Registered \subseteq Agents
  BY <1>2 DEF Registered
<1>5. /\ \A b \in Agents : b # a => (Live(b)' <=> Live(b))
      /\ \A b \in Agents : b # a => starts'[b] = starts[b]
      /\ starts'[a] = starts[a] + 1
  BY <1>1, <1>3 DEF StartRuntime, Types, Live, Runtimes
<1>6. starts \in [Agents -> Nat] /\ starts' \in [Agents -> Nat]
  BY <1>1, <1>3, StartRuntimeTypes, AgentsAssumption DEF Types
<1>7. PICK l, o, v : Moves(c, l, o, a, call[c].name, v)
         /\ \/ l = "register" /\ starts[a] = 0 /\ a \notin Stored
            \/ l = Loaded(c)
  <2>1. CASE call' = [call EXCEPT ![c].pc = "register", ![c].agent = a]
                /\ starts[a] = 0 /\ a \notin Stored
    BY <1>1, <2>1, AgentMoves, StepNames
  <2>2. CASE call[c].agent = a /\ Goto(c, Loaded(c))
    <3>1. Loaded(c) \in Steps
      BY StepNames DEF Loaded
    <3> QED  BY <1>1, <2>2, <3>1, GotoMoves
  <2> QED  BY <1>3, <2>1, <2>2
<1>8. Only(c) /\ call'[c].pc = l /\ call'[c].agent = a
  BY <1>7 DEF Moves, Only
<1>9. /\ \A b \in Agents : starts'[b] >= starts[b]
      /\ starts'[a] > 0
  BY <1>5, <1>6
<1>10. Begun'
  BY <1>1, <1>2, <1>4, <1>6, <1>8, <1>9, BegunStep
<1>11. version = "V2" => a \notin Registered \/ Hand(call'[c], a)
  BY <1>7, <1>8 DEF Begun, Loaded, Hand
<1>12. \A b : ~Hand(call[c], b)
  BY <1>2 DEF Hand
<1>13. version = "V2" => Covers(c)
  BY <1>2, <1>4, <1>5, <1>11, <1>12 DEF Covers
<1>14. Evictable'
  BY <1>2, <1>8, <1>13, CoversEvictable
<1> QED  BY <1>10, <1>14

\* The agents work and are unloaded by the app server: no runtime starts.
LEMMA AgentStepCovered ==
    ASSUME AgentsInv, Begun, Evictable, UNCHANGED <<version, paths, starts, residents, call>>,
           \A b \in Agents : Live(b)' => Live(b)
    PROVE  Begun' /\ Evictable'
<1>1. Registered' = Registered /\ Registered \subseteq Agents /\ Stored' = Stored
  BY DEF Registered, Stored
<1>2. Begun'
  BY <1>1 DEF Begun
<1>3. \A b : (InHand(b)' <=> InHand(b)) /\ (Resident(b)' <=> Resident(b))
  BY DEF InHand, Resident
<1>4. Evictable'
  BY <1>1, <1>3 DEF Evictable
<1> QED  BY <1>2, <1>4

\* Every loaded agent that can be messaged can also be unloaded, however
\* evictions, reloads, spawns, closes and unloads interleave: an eviction that
\* takes an agent from the residency list puts it back or removes its runtime,
\* a reload puts it there, and an agent is forgotten only with its name
\* (residency.rs, spawn.rs).
THEOREM LoadedAreEvictable == Spec => []Evictable
<1>1. Init => Begun /\ Evictable
  <2>1. ASSUME Init PROVE \A a \in Agents : ~Live(a)
    BY <2>1 DEF Init, Live
  <2>2. ASSUME Init PROVE \A c \in Callers : call[c].pc = "idle"
    BY <2>2 DEF Init, NoCall
  <2>3. ASSUME Init PROVE \A a \in Registered : a \in Stored
    BY <2>3 DEF Init, RestoreMetadata, Registered
  <2>4. Registered \subseteq Agents
    BY DEF Registered
  <2> QED  BY <2>1, <2>2, <2>3, <2>4 DEF Begun, Evictable
<1>2. ASSUME AgentsInv, Begun, Evictable, [Next]_vars
      PROVE  Begun' /\ Evictable'
  <2>1. ASSUME NEW c \in Callers, EvictionStep(c)
        PROVE  Begun' /\ Evictable'
    BY <1>2, <2>1, PlainEviction, CandidateTaken, CandidateKept DEF EvictionStep
  <2>2. ASSUME NEW c \in Callers, RegistryStep(c)
        PROVE  Begun' /\ Evictable'
    BY <1>2, <2>2, PlainRegistry, Registers, Released DEF RegistryStep
  <2>3. ASSUME NEW c \in Callers, ManagerStep(c)
        PROVE  Begun' /\ Evictable'
    BY <1>2, <2>3, PlainLookup, PlainRuntime, Starts, ListedOrForgotten DEF ManagerStep
  <2>4. ASSUME NEW a \in Agents, Settle(a) \/ UnloadBegins(a) \/ UnloadEnds(a)
        PROVE  Begun' /\ Evictable'
    <3>1. UNCHANGED <<version, paths, starts, residents, call>>
      BY <2>4 DEF Settle, UnloadBegins, UnloadEnds, registry, residency
    <3>2. \A b \in Agents : Live(b)' => Live(b)
      BY <1>2, <2>4 DEF Settle, UnloadBegins, UnloadEnds, Live, AgentsInv, Types
    <3> QED  BY <1>2, <3>1, <3>2, AgentStepCovered
  <2>5. CASE UNCHANGED vars
    <3>1. UNCHANGED <<version, paths, starts, residents, call, runtime>>
      BY <2>5 DEF vars, registry, manager, residency
    <3>2. \A b \in Agents : Live(b)' => Live(b)
      BY <3>1 DEF Live
    <3> QED  BY <1>2, <3>1, <3>2, AgentStepCovered
  <2>6. ASSUME NEW c \in Callers, BeginCall(c)
        PROVE  Begun' /\ Evictable'
    BY <1>2, <2>6, PlainBegin
  <2>7. ASSUME NEW c \in Callers, CallStep(c)
        PROVE  Begun' /\ Evictable'
    BY <2>1, <2>2, <2>3, <2>7 DEF CallStep
  <2> QED  BY <1>2, <2>4, <2>5, <2>6, <2>7 DEF Next
<1> QED  BY <1>1, <1>2, AgentsInvariance, PTL DEF Spec
=============================================================================
