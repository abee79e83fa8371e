------------------------ MODULE AgentResidencyProofs ------------------------
(***************************************************************************)
(* The capacity of the residency list (core/src/agent/control/residency.rs):*)
(* AgentControl's ResidencyBound, for any agents, calls and capacity.      *)
(***************************************************************************)
EXTENDS AgentControlProofs

(***************************************************************************)
(* The inductive invariant.  A call may put an agent on the list that is   *)
(* not there now: the candidate it took off, or a loaded agent it looked   *)
(* up.  Such agents, and the residents, are extra if they are loaded, unless*)
(* a call with a residency slot carries them, which counts for itself.     *)
(***************************************************************************)

\* x is a call that may put a back on the list without a slot.
Aims(x, a) ==
    \/ x.victim = a /\ x.pc \in {"check", "touch", "unload", "evict"}
    \/ x.agent = a /\ x.pc \in {"lookup", "retouch", "forget", "release"}

\* x is a call that has a slot for a and will use it, or look for a again.
Brings(x, a) ==
    x.agent = a /\ x.pc \in {"resume", "insert", "recheck", "register", "place", "swap"}

\* x is a call that has a slot for a.
Carries(x, a) == Brings(x, a) \/ (x.agent = a /\ x.pc = "unslot")

Kept(a) == In(a, residents) \/ \E c \in Callers : Aims(call[c], a)

Extra == {a \in Agents : Live(a) /\ Kept(a) /\ ~\E c \in Callers : Carries(call[c], a)}

\* The promised slots and the extra agents.
Room ==
    version = "V2" =>
        pending + Cardinality(Extra) < MaxThreads + Cardinality(Callers)

(***************************************************************************)
(* Counting.                                                               *)
(***************************************************************************)

\* A set that a function reaches from a finite set is not larger.
LEMMA ReachedSmaller ==
    ASSUME NEW S, IsFiniteSet(S), NEW T, NEW f, \A t \in T : \E s \in S : f[s] = t
    PROVE  IsFiniteSet(T) /\ Cardinality(T) <= Cardinality(S)
           /\ Cardinality(T) \in Nat /\ Cardinality(S) \in Nat
<1>1. PICK U : U = {s \in S : f[s] \in T}
  OBVIOUS
<1>2. PICK g : g = [s \in U |-> f[s]]
  OBVIOUS
<1>3. U \subseteq S /\ IsFiniteSet(U) /\ Cardinality(U) <= Cardinality(S)
  BY <1>1, FS_Subset
<1>4. g \in Surjection(U, T)
  BY <1>1, <1>2 DEF Surjection
<1>5. IsFiniteSet(T) /\ Cardinality(T) <= Cardinality(U)
  BY <1>3, <1>4, FS_Surjection
<1>6. Cardinality(T) \in Nat /\ Cardinality(S) \in Nat /\ Cardinality(U) \in Nat
  BY <1>3, <1>5, FS_CardinalityType
<1> QED  BY <1>3, <1>5, <1>6

\* Two sets that together cover a third.
LEMMA CoveredByTwo ==
    ASSUME NEW S, IsFiniteSet(S), NEW T, IsFiniteSet(T), NEW R, R \subseteq S \cup T
    PROVE  /\ IsFiniteSet(R) /\ Cardinality(R) <= Cardinality(S) + Cardinality(T)
           /\ Cardinality(R) \in Nat /\ Cardinality(S) \in Nat /\ Cardinality(T) \in Nat
<1>1. /\ IsFiniteSet(S \cup T) /\ IsFiniteSet(S \cap T)
      /\ Cardinality(S \cup T) = Cardinality(S) + Cardinality(T) - Cardinality(S \cap T)
  BY FS_Union, FS_Intersection
<1>2. IsFiniteSet(R) /\ Cardinality(R) <= Cardinality(S \cup T)
  BY <1>1, FS_Subset
<1>3. /\ Cardinality(S) \in Nat /\ Cardinality(T) \in Nat /\ Cardinality(R) \in Nat
      /\ Cardinality(S \cap T) \in Nat /\ Cardinality(S \cup T) \in Nat
  BY <1>1, <1>2, FS_CardinalityType
<1> QED  BY <1>1, <1>2, <1>3

\* A residency list holds as many agents as it is long.
LEMMA ListSize ==
    ASSUME NEW s, IsList(s), NEW R, \A a : a \in R <=> In(a, s)
    PROVE  IsFiniteSet(R) /\ Cardinality(R) = Len(s) /\ Len(s) \in Nat
<1>1. s \in Seq(Agents) /\ Len(s) \in Nat /\ DOMAIN s = 1..Len(s)
  BY DEF IsList
<1>2. \A i, j \in 1..Len(s) : s[i] = s[j] => i = j
  BY <1>1 DEF IsList
<1>3. PICK D : D = 1..Len(s)
  OBVIOUS
<1>4. IsFiniteSet(D) /\ Cardinality(D) = Len(s)
  BY <1>1, <1>3, FS_Interval
<1>5. \A a \in R : \E i \in D : s[i] = a
  BY <1>1, <1>3 DEF In
<1>6. IsFiniteSet(R) /\ Cardinality(R) <= Cardinality(D)
  BY <1>4, <1>5, ReachedSmaller
<1>7. PICK f : f = [a \in R |-> CHOOSE i \in D : s[i] = a]
  OBVIOUS
<1>8. \A i \in D : \E a \in R : f[a] = i
  <2> SUFFICES ASSUME NEW i \in D
               PROVE  \E a \in R : f[a] = i
    OBVIOUS
  <2>1. s[i] \in R
    BY <1>1, <1>3 DEF In
  <2>2. f[s[i]] \in D /\ s[f[s[i]]] = s[i]
    BY <1>7, <2>1
  <2>3. f[s[i]] = i
    BY <1>2, <1>3, <2>2
  <2> QED  BY <2>1, <2>3
<1>9. Cardinality(D) <= Cardinality(R) /\ Cardinality(R) \in Nat
  BY <1>6, <1>8, ReachedSmaller
<1> QED  BY <1>1, <1>4, <1>6, <1>9

(***************************************************************************)
(* The bound follows.                                                      *)
(***************************************************************************)

\* A call that carries an agent has a slot.
LEMMA CarriesSlot ==
    ASSUME AgentsInv, version = "V2", NEW c \in Callers, NEW a, Carries(call[c], a)
    PROVE  HoldsSlot(c)
<1>1. Shape(version, call[c])
  BY AtStep
<1> QED  BY <1>1 DEF Carries, Brings, Shape, HoldsSlot

\* Room is enough for ResidencyBound: what is resident is extra, or is carried
\* by a call whose slot the bound does not count.
LEMMA RoomBounds ==
    ASSUME AgentsInv, Room
    PROVE  ResidencyBound
<1> SUFFICES ASSUME version = "V2"
             PROVE  Cardinality(LiveResidents)
                      + Cardinality({c \in Callers :
                                       HoldsSlot(c) /\ call[c].agent \notin LiveResidents})
                        < MaxThreads + Cardinality(Callers)
  BY DEF ResidencyBound
<1>1. /\ IsList(residents) /\ IsFiniteSet(Agents) /\ IsFiniteSet(Callers) /\ MaxThreads \in Nat
      /\ pending = Cardinality(SlotCalls)
  BY AgentsAssumption DEF AgentsInv, Types, PendingExact, SlotCalls
<1>2. PICK R, H, N, Q : /\ R = LiveResidents
                        /\ H = {c \in Callers : HoldsSlot(c) /\ call[c].agent \in R}
                        /\ N = {c \in Callers : HoldsSlot(c) /\ call[c].agent \notin R}
                        /\ Q = {a \in R : \E c \in Callers : Carries(call[c], a)}
  OBVIOUS
<1>3. R \subseteq Agents /\ \A a \in R : Live(a) /\ In(a, residents)
  BY <1>2 DEF LiveResidents, Resident, In
<1>5. IsFiniteSet(H) /\ IsFiniteSet(N) /\ IsFiniteSet(SlotCalls)
  <2>1. H \subseteq Callers /\ N \subseteq Callers /\ SlotCalls \subseteq Callers
    BY <1>2 DEF SlotCalls
  <2> QED  BY <1>1, <2>1, FS_Subset
<1>6. Cardinality(SlotCalls) = Cardinality(H) + Cardinality(N)
      /\ Cardinality(H) \in Nat /\ Cardinality(N) \in Nat
  <2>1. H \cup N = SlotCalls /\ H \cap N = {}
    BY <1>2 DEF SlotCalls
  <2>2. /\ Cardinality(H \cup N) = Cardinality(H) + Cardinality(N) - Cardinality(H \cap N)
        /\ Cardinality(H) \in Nat /\ Cardinality(N) \in Nat /\ Cardinality(H \cap N) = 0
    BY <1>5, <2>1, FS_Union, FS_CardinalityType, FS_EmptySet
  <2>3. Cardinality(SlotCalls) = Cardinality(H) + Cardinality(N) - Cardinality(H \cap N)
    BY <2>1, <2>2, Zenon
  <2> QED  BY <2>2, <2>3
<1>7. IsFiniteSet(Q) /\ Cardinality(Q) <= Cardinality(H)
  <2>1. PICK f : f = [c \in Callers |-> call[c].agent]
    OBVIOUS
  <2>2. ASSUME NEW a \in Q PROVE \E c \in H : f[c] = a
    <3>1. PICK c \in Callers : Carries(call[c], a)
      BY <1>2, <2>2
    <3>2. call[c].agent = a /\ HoldsSlot(c)
      BY <3>1, CarriesSlot DEF Carries, Brings
    <3> QED  BY <1>2, <2>1, <2>2, <3>2
  <2> QED  BY <1>5, <2>2, ReachedSmaller
<1>8. IsFiniteSet(Extra)
  <2>1. Extra \subseteq Agents
    BY DEF Extra
  <2> QED  BY <1>1, <2>1, FS_Subset
<1>9. R \subseteq Extra \cup Q
  BY <1>2, <1>3 DEF Extra, Kept
<1>10. /\ Cardinality(R) <= Cardinality(Extra) + Cardinality(Q)
       /\ Cardinality(R) \in Nat /\ Cardinality(Extra) \in Nat /\ Cardinality(Q) \in Nat
  BY <1>7, <1>8, <1>9, CoveredByTwo
<1>11. Cardinality(Callers) \in Nat
  BY <1>1, FS_CardinalityType
<1>12. pending + Cardinality(Extra) < MaxThreads + Cardinality(Callers)
  BY DEF Room
<1>13. Cardinality(R) + Cardinality(N) < MaxThreads + Cardinality(Callers)
  BY <1>1, <1>6, <1>7, <1>10, <1>11, <1>12
<1> QED  BY <1>2, <1>13

(***************************************************************************)
(* A step of one call.                                                     *)
(***************************************************************************)

\* What a step of call c does to the agents that it and the list deal with:
\* none is new to them unless it is z, or a call brings it.
Steady(c, z) ==
    /\ \A b \in Agents : Live(b)' => Live(b) \/ Brings(call'[c], b)
    /\ \A b \in Agents : Live(b)' /\ (Aims(call'[c], b) \/ In(b, residents')) =>
          \/ Aims(call[c], b) \/ In(b, residents)
          \/ b = z \/ Brings(call'[c], b)
          \/ b \in Registered /\ Live(b)
    /\ \A b \in Agents : Carries(call[c], b) => Carries(call'[c], b) \/ b = z

\* Only z can become extra.
LEMMA ExtraStep ==
    ASSUME Evictable, version = "V2", NEW c \in Callers, Only(c), NEW z, Steady(c, z)
    PROVE  Extra' \subseteq Extra \cup {z}
<1> SUFFICES ASSUME NEW a \in Extra', a # z
             PROVE  a \in Extra
  OBVIOUS
<1>1. a \in Agents /\ Live(a)' /\ Kept(a)' /\ \A d \in Callers : ~Carries(call'[d], a)
  BY DEF Extra
<1>2. \A d \in Callers : ~Carries(call[d], a)
  <2> SUFFICES ASSUME NEW d \in Callers, Carries(call[d], a)
               PROVE  FALSE
    OBVIOUS
  <2>1. CASE d = c
    BY <1>1, <2>1 DEF Steady
  <2>2. CASE d # c
    BY <1>1, <2>2 DEF Only
  <2> QED  BY <2>1, <2>2
<1>3. Live(a)
  BY <1>1 DEF Steady, Carries
<1>4. a \in Registered => Kept(a)
  <2> SUFFICES ASSUME a \in Registered
               PROVE  Kept(a)
    OBVIOUS
  <2>1. InHand(a) \/ Resident(a)
    BY <1>3 DEF Evictable
  <2> QED  BY <1>2, <2>1 DEF InHand, Resident, In, Kept, Aims, Carries, Brings
<1>5. CASE Aims(call'[c], a) \/ In(a, residents')
  <2>1. \/ Aims(call[c], a) \/ In(a, residents) \/ Brings(call'[c], a)
        \/ a \in Registered /\ Live(a)
    BY <1>1, <1>5 DEF Steady
  <2>2. Kept(a)
    BY <1>1, <1>4, <2>1 DEF Kept, Carries
  <2> QED  BY <1>1, <1>2, <1>3, <2>2 DEF Extra
<1>6. CASE ~(Aims(call'[c], a) \/ In(a, residents'))
  <2>1. PICK d \in Callers : Aims(call'[d], a)
    BY <1>1, <1>6 DEF Kept
  <2>2. d # c /\ call'[d] = call[d]
    BY <1>6, <2>1 DEF Only
  <2>3. Kept(a)
    BY <2>1, <2>2 DEF Kept
  <2> QED  BY <1>1, <1>2, <1>3, <2>3 DEF Extra
<1> QED  BY <1>5, <1>6

\* A step that lets nothing become extra, or one agent for a slot it gives up.
LEMMA SteadyStep ==
    ASSUME AgentsInv, AgentsInv', Evictable, Room, version = "V2", version' = version,
           NEW c \in Callers, Only(c), NEW z, Steady(c, z),
           (pending' = pending /\ z \notin Agents) \/ pending' = pending - 1
    PROVE  Room'
<1>2. Extra' \subseteq Extra \cup {z} /\ Extra \subseteq Agents /\ Extra' \subseteq Agents
  BY ExtraStep DEF Extra
<1>3. /\ IsFiniteSet(Agents) /\ IsFiniteSet(Callers) /\ pending \in Nat /\ pending' \in Nat
      /\ MaxThreads \in Nat
  BY AgentsAssumption DEF AgentsInv, Types
<1>4. IsFiniteSet(Extra) /\ IsFiniteSet(Extra') /\ IsFiniteSet({z}) /\ Cardinality({z}) = 1
  BY <1>2, <1>3, FS_Subset, FS_Singleton
<1>5. /\ Cardinality(Extra) \in Nat /\ Cardinality(Extra') \in Nat /\ Cardinality(Callers) \in Nat
  BY <1>3, <1>4, FS_CardinalityType
<1>6. pending + Cardinality(Extra) < MaxThreads + Cardinality(Callers)
  BY DEF Room
<1>7. CASE pending' = pending /\ z \notin Agents
  <2>1. Extra' \subseteq Extra
    BY <1>2, <1>7
  <2>2. Cardinality(Extra') <= Cardinality(Extra)
    BY <1>4, <2>1, FS_Subset
  <2>3. pending' + Cardinality(Extra') < MaxThreads + Cardinality(Callers)
    BY <1>3, <1>5, <1>6, <1>7, <2>2
  <2> QED  BY <2>3 DEF Room
<1>8. CASE pending' = pending - 1
  <2>1. Cardinality(Extra') <= Cardinality(Extra) + 1
    BY <1>2, <1>4, CoveredByTwo
  <2>2. pending' + Cardinality(Extra') < MaxThreads + Cardinality(Callers)
    BY <1>3, <1>5, <1>6, <1>8, <2>1
  <2> QED  BY <2>2 DEF Room
<1> QED  BY <1>7, <1>8

\* Only the map tells what is loaded.
LEMMA SameLive ==
    ASSUME runtime' = runtime
    PROVE  \A b : Live(b)' <=> Live(b)
BY DEF Live

\* The steps at which a call aims at an agent, or carries one.
Aiming   == {"check", "touch", "unload", "evict", "lookup", "retouch", "forget", "release"}
Carrying == {"resume", "insert", "recheck", "register", "place", "swap", "unslot"}

\* A step of a call that has no slot before it, and aims at no agent after.
LEMMA QuietStep ==
    ASSUME AgentsInv, AgentsInv', Evictable, Room, version = "V2", NEW c \in Callers,
           NEW l, NEW o, NEW a, NEW p, NEW v, Moves(c, l, o, a, p, v),
           UNCHANGED <<version, paths, residents, pending>>,
           \A b \in Agents : Live(b)' => Live(b),
           call[c].pc \notin Carrying, l \notin Aiming
    PROVE  Room'
<1>1. Only(c) /\ call'[c].pc = l
  BY DEF Moves, Only
<1>2. \A b : ~Aims(call'[c], b) /\ ~Carries(call[c], b)
  BY <1>1 DEF Aims, Brings, Carries, Aiming, Carrying
<1>3. Steady(c, NoAgent)
  BY <1>2 DEF Steady
<1>4. NoAgent \notin Agents
  BY AgentsAssumption
<1> QED  BY <1>1, <1>3, <1>4, SteadyStep

\* It goes on, gives up its path, or returns.
LEMMA QuietGoto ==
    ASSUME AgentsInv, AgentsInv', Evictable, Room, version = "V2", NEW c \in Callers,
           NEW l \in Steps,
           \/ Goto(c, l) \/ Return(c)
           \/ call' = [call EXCEPT ![c].pc = l, ![c].name = NoPath],
           UNCHANGED <<version, paths, residents, pending>>,
           \A b \in Agents : Live(b)' => Live(b),
           call[c].pc \notin Carrying, l \notin Aiming
    PROVE  Room'
<1>1. Types
  BY DEF AgentsInv
<1>2. "idle" \notin Aiming
  BY DEF Aiming
<1>3. CASE Goto(c, l)
  BY <1>1, <1>3, GotoMoves, QuietStep
<1>4. CASE Return(c)
  BY <1>1, <1>2, <1>4, ReturnMoves, QuietStep
<1>5. CASE call' = [call EXCEPT ![c].pc = l, ![c].name = NoPath]
  BY <1>1, <1>5, NameMoves, QuietStep
<1> QED  BY <1>3, <1>4, <1>5

\* The quiet steps of spawns.
LEMMA SpawnRoom ==
    ASSUME AgentsInv, AgentsInv', Evictable, Room, version = "V2", NEW c \in Callers,
           \/ ReserveSpawnSlot(c) \/ ReserveAgentPath(c) \/ ReleaseReservedPath(c)
           \/ ReturnCount(c) \/ StartFails(c) \/ LimitReached(c)
    PROVE  Room'
<1>1. /\ UNCHANGED <<version, paths, residents, pending, runtime>>
      /\ call[c].pc \in {"number", "name", "unname", "uncount", "start", "scan"}
  BY DEF ReserveSpawnSlot, ReserveAgentPath, ReleaseReservedPath, ReturnCount, StartFails,
         LimitReached, registry, manager, residency
<1>2. call[c].pc \notin Carrying
  BY <1>1 DEF Aiming, Carrying
<1>3. PICK l \in {"resume", "name", "start", "uncount", "unslot", "unname", "idle"} :
          \/ Goto(c, l) \/ Return(c)
          \/ call' = [call EXCEPT ![c].pc = l, ![c].name = NoPath]
  <2>1. CASE ReserveSpawnSlot(c)
    <3>1. call[c].op # "Resume"
      BY <2>1, AtStep DEF Shape, ReserveSpawnSlot
    <3>2. PICK k : k = CASE call[c].op = "Resume" -> "resume"
                         [] version = "V2" -> "name"
                         [] OTHER -> "start"
      OBVIOUS
    <3>3. k = "name"
      BY <3>1, <3>2
    <3>4. Goto(c, k)
      BY <2>1, <3>2 DEF ReserveSpawnSlot
    <3> QED  BY <3>3, <3>4
  <2>2. CASE ReserveAgentPath(c)
    BY <2>2 DEF ReserveAgentPath
  <2>3. CASE ReleaseReservedPath(c)
    BY <2>3 DEF ReleaseReservedPath
  <2>4. CASE ReturnCount(c)
    BY <2>4 DEF ReturnCount
  <2>5. CASE StartFails(c)
    BY <2>5 DEF StartFails
  <2>6. CASE LimitReached(c)
    BY <2>6 DEF LimitReached
  <2> QED  BY <2>1, <2>2, <2>3, <2>4, <2>5, <2>6
<1>4. l \in Steps /\ l \notin Aiming
  BY <1>3, StepNames DEF Aiming
<1> QED  BY <1>1, <1>2, <1>3, <1>4, SameLive, QuietGoto

\* The candidates are counted.
LEMMA CountRoom ==
    ASSUME AgentsInv, AgentsInv', Evictable, Room, version = "V2", NEW c \in Callers,
           CountResidents(c)
    PROVE  Room'
<1>1. /\ call[c].pc = "count" /\ UNCHANGED <<version, paths, residents, pending, runtime>>
      /\ call' = [call EXCEPT ![c].pc = "scan", ![c].left = Len(residents)]
  BY DEF CountResidents, registry, manager, residency
<1>2. Types /\ Len(residents) \in Nat
  BY DEF AgentsInv, Types, IsList
<1>3. Moves(c, "scan", call[c].op, call[c].agent, call[c].name, call[c].victim)
  BY <1>1, <1>2, LeftMoves, StepNames
<1>4. call[c].pc \notin Carrying /\ "scan" \notin Aiming
  BY <1>1 DEF Aiming, Carrying
<1> QED  BY <1>1, <1>3, <1>4, SameLive, QuietStep

\* An agent gets its input, is gone, or is found dead; or is shut down.
LEMMA DeliverRoom ==
    ASSUME AgentsInv, AgentsInv', Evictable, Room, version = "V2", NEW c \in Callers,
           Deliver(c) \/ ShutdownAgent(c)
    PROVE  Room'
<1>1. Types /\ runtime \in Runtimes
  BY DEF AgentsInv, Types, Runtimes
<1>2. /\ UNCHANGED <<version, paths, residents, pending>>
      /\ call[c].pc \in {"deliver", "shutdown"}
  BY DEF Deliver, ShutdownAgent, registry, residency
<1>3. \A b \in Agents : Live(b)' => Live(b)
  BY <1>1 DEF Deliver, ShutdownAgent, Live, Runtimes
<1>4. call[c].pc \notin Carrying /\ "remove" \notin Aiming /\ "idle" \notin Aiming
  BY <1>2 DEF Aiming, Carrying
<1>5. CASE call' = [call EXCEPT ![c].pc = "remove", ![c].op = "Bury", ![c].name = NoPath]
  <2>1. Moves(c, "remove", "Bury", call[c].agent, NoPath, call[c].victim)
    BY <1>1, <1>5, BuryMoves, StepNames
  <2> QED  BY <1>2, <1>3, <1>4, <2>1, QuietStep
<1>6. CASE Goto(c, "remove") \/ Return(c)
  <2>1. "remove" \in Steps
    BY StepNames
  <2> QED  BY <1>2, <1>3, <1>4, <1>6, <2>1, QuietGoto
<1> QED  BY <1>5, <1>6 DEF Deliver, ShutdownAgent

\* A runtime is removed: nothing is left for the call to aim at.
LEMMA RemoveRoom ==
    ASSUME AgentsInv, AgentsInv', Evictable, Room, version = "V2", NEW c \in Callers,
           RemoveThread(c)
    PROVE  Room'
<1>1. Types /\ Shape(version, call[c]) /\ runtime \in Runtimes
  BY AtStep DEF Types, Runtimes
<1>2. /\ UNCHANGED <<version, paths, residents, pending>> /\ call[c].pc = "remove"
      /\ runtime' = [runtime EXCEPT ![call[c].agent] = "absent"] /\ Goto(c, "forget")
  BY DEF RemoveThread, registry, residency
<1>3. Moves(c, "forget", call[c].op, call[c].agent, call[c].name, call[c].victim)
  BY <1>1, <1>2, GotoMoves, StepNames
<1>4. Only(c) /\ call'[c].pc = "forget" /\ call'[c].agent = call[c].agent
  BY <1>3 DEF Moves, Only
<1>5. PICK a \in Agents : a = call[c].agent
  BY <1>1, <1>2 DEF Shape
<1>6. \A b \in Agents : Live(b)' => b # a /\ Live(b)
  BY <1>1, <1>2, <1>5 DEF Runtimes, Live
<1>7. /\ \A b : Aims(call'[c], b) => b = a
      /\ \A b : ~Aims(call[c], b)
      /\ \A b : ~Brings(call[c], b) /\ ~Carries(call[c], b)
  BY <1>2, <1>4, <1>5, <1>6 DEF Aims, Brings, Carries
<1>8. Steady(c, NoAgent)
  BY <1>2, <1>6, <1>7 DEF Steady
<1>9. NoAgent \notin Agents
  BY AgentsAssumption
<1> QED  BY <1>2, <1>4, <1>8, <1>9, SteadyStep

\* A step of a call that keeps its agent and its candidate and changes neither
\* names nor the list, and loads nothing: how its step may change.
LEMMA TurnStep ==
    ASSUME AgentsInv, AgentsInv', Evictable, Room, version = "V2", NEW c \in Callers,
           NEW l, NEW o, NEW p, Moves(c, l, o, call[c].agent, p, call[c].victim),
           UNCHANGED <<version, paths, residents>>,
           \A b \in Agents : Live(b)' => Live(b),
           l \in {"check", "touch", "unload", "evict"} =>
               call[c].pc \in {"check", "touch", "unload", "evict"},
           l \in {"lookup", "retouch", "forget", "release"} =>
               \/ call[c].pc \in {"lookup", "retouch", "forget", "release"}
               \/ call[c].agent \in Registered
               \/ pending' = pending - 1,
           call[c].pc \in Carrying => l \in Carrying \/ pending' = pending - 1,
           pending' = pending \/ pending' = pending - 1
    PROVE  Room'
<1>1. Only(c) /\ call'[c].pc = l /\ call'[c].agent = call[c].agent /\ call'[c].victim = call[c].victim
  BY DEF Moves, Only
<1>2. NoAgent \notin Agents
  BY AgentsAssumption
<1>3. CASE pending' = pending - 1
  <2>1. Steady(c, call[c].agent)
    BY <1>1, <1>2 DEF Steady, Aims, Carries, Brings
  <2> QED  BY <1>1, <1>3, <2>1, SteadyStep
<1>4. CASE pending' = pending
  <2>1. pending' # pending - 1
    BY <1>4 DEF AgentsInv, Types
  <2>2. Steady(c, NoAgent)
    BY <1>1, <1>2, <2>1 DEF Steady, Aims, Carries, Brings, Carrying
  <2> QED  BY <1>1, <1>2, <1>4, <2>2, SteadyStep
<1> QED  BY <1>3, <1>4

\* An agent is looked up in the map and in the registry.
LEMMA LookupRoom ==
    ASSUME AgentsInv, AgentsInv', Evictable, Room, version = "V2", NEW c \in Callers,
           LookupAgent(c) \/ AgentKnown(c)
    PROVE  Room'
<1>1. Types /\ UNCHANGED <<version, paths, residents, runtime, pending>>
  BY DEF AgentsInv, LookupAgent, AgentKnown, registry, manager, residency
<1>2. CASE LookupAgent(c)
  <2>1. /\ call[c].pc = "lookup"
        /\ Goto(c, "retouch") \/ Goto(c, "known") \/ Goto(c, "room") \/ Return(c)
    BY <1>2 DEF LookupAgent
  <2>2. CASE Goto(c, "retouch")
    <3>1. Moves(c, "retouch", call[c].op, call[c].agent, call[c].name, call[c].victim)
      BY <1>1, <2>2, GotoMoves, StepNames
    <3> QED  BY <1>1, <2>1, <3>1, SameLive, TurnStep DEF Carrying
  <2>3. CASE Goto(c, "known") \/ Goto(c, "room") \/ Return(c)
    <3>1. PICK l \in {"known", "room"} : Goto(c, l) \/ Return(c)
      BY <2>3
    <3>2. l \in Steps /\ l \notin Aiming /\ call[c].pc \notin Carrying
      BY <2>1, <3>1, StepNames DEF Aiming, Carrying
    <3> QED  BY <1>1, <3>1, <3>2, SameLive, QuietGoto
  <2> QED  BY <2>1, <2>2, <2>3
<1>3. CASE AgentKnown(c)
  <2>1. /\ call[c].pc = "known"
        /\ \/ call[c].agent \in Registered /\ Goto(c, "lookup")
           \/ Goto(c, "room") \/ Return(c)
    BY <1>3 DEF AgentKnown
  <2>2. CASE call[c].agent \in Registered /\ Goto(c, "lookup")
    <3>1. Moves(c, "lookup", call[c].op, call[c].agent, call[c].name, call[c].victim)
      BY <1>1, <2>2, GotoMoves, StepNames
    <3> QED  BY <1>1, <2>1, <2>2, <3>1, SameLive, TurnStep DEF Carrying
  <2>3. CASE Goto(c, "room") \/ Return(c)
    <3>1. "room" \in Steps /\ "room" \notin Aiming /\ call[c].pc \notin Carrying
      BY <2>1, StepNames DEF Aiming, Carrying
    <3> QED  BY <1>1, <2>3, <3>1, SameLive, QuietGoto
  <2> QED  BY <2>1, <2>2, <2>3
<1> QED  BY <1>2, <1>3

\* A reload that fails looks again, and keeps its slot until it knows.
LEMMA ReloadFailsRoom ==
    ASSUME AgentsInv, AgentsInv', Evictable, Room, version = "V2", NEW c \in Callers,
           InsertFails(c) \/ RecheckLoaded(c)
    PROVE  Room'
<1>1. Types /\ UNCHANGED <<version, paths, residents, runtime, pending>>
  BY DEF AgentsInv, InsertFails, RecheckLoaded, registry, manager, residency
<1>2. /\ call[c].pc \in {"insert", "recheck"}
      /\ Goto(c, "recheck") \/ Goto(c, "swap") \/ Goto(c, "unslot")
  BY DEF InsertFails, RecheckLoaded
<1>3. PICK l \in {"recheck", "swap", "unslot"} :
          Moves(c, l, call[c].op, call[c].agent, call[c].name, call[c].victim)
  BY <1>1, <1>2, GotoMoves, StepNames
<1> QED  BY <1>1, <1>2, <1>3, SameLive, TurnStep DEF Carrying

\* A candidate that is not loaded is dropped; another stays in hand.
LEMMA CandidateRoom ==
    ASSUME AgentsInv, AgentsInv', Evictable, Room, version = "V2", NEW c \in Callers,
           CheckCandidate(c) \/ ShutdownCandidate(c)
    PROVE  Room'
<1>1. Types /\ Shape(version, call[c]) /\ runtime \in Runtimes
  BY AtStep DEF Types, Runtimes
<1>2. /\ UNCHANGED <<version, paths, residents, pending>> /\ call[c].pc \in {"check", "unload"}
      /\ \/ Goto(c, "scan") \/ Goto(c, "touch") \/ Goto(c, "evict")
         \/ call' = [call EXCEPT ![c].pc = "unload", ![c].held = starts[call[c].victim]]
  BY DEF CheckCandidate, ShutdownCandidate, registry, manager, residency
<1>3. \A b \in Agents : Live(b)' => Live(b)
  BY <1>1 DEF CheckCandidate, ShutdownCandidate, manager, Live, Runtimes
<1>4. starts[call[c].victim] \in Nat
  BY <1>1, <1>2 DEF Types, Shape
<1>5. PICK l \in {"scan", "touch", "unload", "evict"} :
          Moves(c, l, call[c].op, call[c].agent, call[c].name, call[c].victim)
  <2>1. CASE Goto(c, "scan") \/ Goto(c, "touch") \/ Goto(c, "evict")
    BY <1>1, <2>1, GotoMoves, StepNames
  <2>2. CASE call' = [call EXCEPT ![c].pc = "unload", ![c].held = starts[call[c].victim]]
    BY <1>1, <1>4, <2>2, HeldMoves, StepNames
  <2> QED  BY <1>2, <2>1, <2>2
<1> QED  BY <1>2, <1>3, <1>5, TurnStep DEF Carrying

\* A candidate is removed from the map.
LEMMA EvictRoom ==
    ASSUME AgentsInv, AgentsInv', Evictable, Room, version = "V2", NEW c \in Callers,
           RemoveCandidate(c)
    PROVE  Room'
<1>1. Types /\ Shape(version, call[c]) /\ runtime \in Runtimes /\ NoAgent \notin Agents
  BY AtStep, AgentsAssumption DEF Types, Runtimes
<1>2. /\ UNCHANGED <<version, paths, residents, pending>> /\ call[c].pc = "evict"
      /\ runtime' = [runtime EXCEPT ![call[c].victim] = "absent"]
      /\ call' = [call EXCEPT ![c].pc = "room", ![c].victim = NoAgent,
                              ![c].held = 0, ![c].left = 0]
  BY DEF RemoveCandidate, registry, residency
<1>3. Moves(c, "room", call[c].op, call[c].agent, call[c].name, NoAgent)
  BY <1>1, <1>2, ClearMoves, StepNames
<1>4. Only(c) /\ call'[c].pc = "room"
  BY <1>3 DEF Moves, Only
<1>5. PICK v \in Agents : v = call[c].victim
  BY <1>1, <1>2 DEF Shape
<1>6. \A b \in Agents : Live(b)' => Live(b)
  BY <1>1, <1>2, <1>5 DEF Runtimes, Live
<1>7. /\ \A b : ~Aims(call'[c], b)
      /\ \A b : Aims(call[c], b) => b = v
      /\ \A b : ~Brings(call[c], b) /\ ~Carries(call[c], b)
  BY <1>2, <1>4, <1>5 DEF Aims, Brings, Carries
<1>8. Steady(c, NoAgent)
  BY <1>2, <1>6, <1>7 DEF Steady
<1> QED  BY <1>1, <1>2, <1>4, <1>8, SteadyStep

\* A candidate is put back, a loaded agent touched: both were kept before.
LEMMA TouchRoom ==
    ASSUME AgentsInv, AgentsInv', Evictable, Room, version = "V2", NEW c \in Callers,
           TouchCandidate(c) \/ TouchLoaded(c)
    PROVE  Room'
<1>1. Types /\ Shape(version, call[c]) /\ IsList(residents) /\ NoAgent \notin Agents
  BY AtStep, AgentsAssumption DEF Types
<1>2. UNCHANGED <<version, paths, runtime, pending>>
  BY DEF TouchCandidate, TouchLoaded, registry, manager
<1>3. PICK a \in Agents : /\ a = IF call[c].pc = "touch" THEN call[c].victim ELSE call[c].agent
                          /\ call[c].pc \in {"touch", "retouch"}
  BY <1>1 DEF Shape, TouchCandidate, TouchLoaded
<1>4. /\ \/ residents' = Touch(a) /\ Aims(call[c], a)
         \/ residents' = residents
      /\ Goto(c, "scan") \/ Goto(c, "deliver") \/ Return(c)
  BY <1>3 DEF TouchCandidate, TouchLoaded, Aims
<1>5. PICK l, o, e, p, v : l \in {"scan", "deliver", "idle"} /\ Moves(c, l, o, e, p, v)
  BY <1>1, <1>4, GotoMoves, ReturnMoves, StepNames
<1>6. Only(c) /\ call'[c].pc \in {"scan", "deliver", "idle"}
  BY <1>5 DEF Moves, Only
<1>7. /\ \A b : ~Aims(call'[c], b)
      /\ \A b : Aims(call[c], b) => b = a
      /\ \A b : ~Brings(call[c], b) /\ ~Carries(call[c], b)
  BY <1>3, <1>6 DEF Aims, Brings, Carries
<1>8. \A b : In(b, residents') => In(b, residents) \/ Aims(call[c], b)
  BY <1>1, <1>4, TouchList
<1>9. Steady(c, NoAgent)
  BY <1>2, <1>7, <1>8, SameLive DEF Steady
<1> QED  BY <1>1, <1>2, <1>6, <1>9, SteadyStep

\* The candidate that leaves the list is in hand.
LEMMA PopRoom ==
    ASSUME AgentsInv, AgentsInv', Evictable, Room, version = "V2", NEW c \in Callers,
           PopLruCandidate(c)
    PROVE  Room'
<1>1. IsList(residents) /\ NoAgent \notin Agents
  BY AgentsAssumption DEF AgentsInv, Types
<1>2. /\ call[c].pc = "scan"
      /\ UNCHANGED <<version, paths, runtime, pending>>
  BY DEF PopLruCandidate, registry, manager
<1>3. PICK i \in DOMAIN residents : Pops(c, i)
  BY PopsOne
<1>4. Moves(c, "check", call[c].op, call[c].agent, call[c].name, residents[i])
  BY <1>3 DEF Pops
<1>5. /\ \A b : b # residents[i] /\ In(b, residents) => In(b, residents')
      /\ \A b : In(b, residents') => In(b, residents)
  BY <1>1, <1>3, PopsList
<1>6. Only(c) /\ call'[c].pc = "check" /\ call'[c].victim = residents[i]
  BY <1>4 DEF Moves, Only
<1>7. /\ \A b : ~Aims(call[c], b)
      /\ \A b : Aims(call'[c], b) <=> b = residents[i]
      /\ \A b : ~Brings(call[c], b) /\ ~Carries(call[c], b)
  BY <1>2, <1>6 DEF Aims, Brings, Carries
<1>8. In(residents[i], residents)
  BY <1>3 DEF In
<1>9. Steady(c, NoAgent)
  BY <1>2, <1>5, <1>7, <1>8, SameLive DEF Steady
<1> QED  BY <1>1, <1>2, <1>6, <1>9, SteadyStep

\* A runtime is found, or a dead one is taken out of the map.
LEMMA ResumeRoom ==
    ASSUME AgentsInv, AgentsInv', Evictable, Room, version = "V2", NEW c \in Callers,
           ResumeThread(c)
    PROVE  Room'
<1>1. Types /\ Shape(version, call[c]) /\ runtime \in Runtimes /\ NoAgent \notin Agents
  BY AtStep, AgentsAssumption DEF Types, Runtimes
<1>2. /\ UNCHANGED <<version, paths, residents, pending>> /\ call[c].pc = "resume"
      /\ runtime' = runtime \/ runtime' = [runtime EXCEPT ![call[c].agent] = "absent"]
      /\ Goto(c, "place") \/ Goto(c, "insert")
  BY DEF ResumeThread, Loaded, registry, residency
<1>3. PICK l \in {"place", "insert"} :
          Moves(c, l, call[c].op, call[c].agent, call[c].name, call[c].victim)
  BY <1>1, <1>2, GotoMoves, StepNames
<1>4. Only(c) /\ call'[c].pc \in {"place", "insert"} /\ call'[c].agent = call[c].agent
  BY <1>3 DEF Moves, Only
<1>5. \A b \in Agents : Live(b)' => Live(b)
  BY <1>1, <1>2 DEF Runtimes, Live
<1>6. /\ \A b : ~Aims(call[c], b) /\ ~Aims(call'[c], b)
      /\ \A b : Brings(call[c], b) <=> Brings(call'[c], b)
      /\ \A b : Carries(call[c], b) <=> Carries(call'[c], b)
  BY <1>2, <1>4 DEF Aims, Brings, Carries
<1>7. Steady(c, NoAgent)
  BY <1>2, <1>5, <1>6 DEF Steady
<1> QED  BY <1>1, <1>2, <1>4, <1>7, SteadyStep

\* A runtime starts: its call brings its agent.
LEMMA StartRoom ==
    ASSUME AgentsInv, AgentsInv', Evictable, Room, version = "V2", NEW c \in Callers,
           StartThread(c) \/ InsertThread(c)
    PROVE  Room'
<1>1. Types /\ Shape(version, call[c]) /\ runtime \in Runtimes /\ NoAgent \notin Agents
  BY AtStep, AgentsAssumption DEF Types, Runtimes
<1>2. /\ UNCHANGED <<version, paths, residents, pending>> /\ call[c].pc \in {"start", "insert"}
  BY DEF StartThread, InsertThread, registry, residency
<1>3. PICK a \in Agents, l \in {"register", "place"} :
          /\ Moves(c, l, call[c].op, a, call[c].name, call[c].victim)
          /\ StartRuntime(a) /\ (call[c].pc = "insert" => call[c].agent = a)
  <2>1. CASE StartThread(c)
    BY <1>1, <2>1, AgentMoves, StepNames DEF StartThread
  <2>2. CASE InsertThread(c)
    <3>1. Goto(c, "place") /\ StartRuntime(call[c].agent) /\ call[c].agent \in Agents
      BY <1>1, <2>2 DEF InsertThread, Loaded, Shape
    <3> QED  BY <1>1, <3>1, GotoMoves, StepNames
  <2> QED  BY <2>1, <2>2
<1>4. Only(c) /\ call'[c].pc \in {"register", "place"} /\ call'[c].agent = a
  BY <1>3 DEF Moves, Only
<1>5. \A b \in Agents : Live(b)' => b = a \/ Live(b)
  BY <1>1, <1>3 DEF Runtimes, StartRuntime, Live
<1>6. /\ \A b : ~Aims(call[c], b) /\ ~Aims(call'[c], b)
      /\ \A b : Brings(call'[c], b) <=> b = a
      /\ \A b : Carries(call[c], b) \/ Brings(call[c], b) => b = a
  BY <1>2, <1>3, <1>4 DEF Aims, Brings, Carries
<1>7. Steady(c, NoAgent)
  BY <1>2, <1>5, <1>6 DEF Steady, Carries
<1> QED  BY <1>1, <1>2, <1>4, <1>7, SteadyStep

\* A slot is given up: its agent counts for itself from now on, if it is kept.
LEMMA DropRoom ==
    ASSUME AgentsInv, AgentsInv', Evictable, Room, version = "V2", NEW c \in Callers,
           DropSlot(c)
    PROVE  Room'
<1>1. /\ Types /\ UNCHANGED <<version, paths, residents, runtime>> /\ pending' = pending - 1
      /\ \/ call[c].pc = "swap" /\ Goto(c, "retouch")
         \/ call[c].pc = "unslot" /\ Return(c)
  BY DEF AgentsInv, DropSlot, registry, manager
<1>2. CASE call[c].pc = "swap" /\ Goto(c, "retouch")
  <2>1. Moves(c, "retouch", call[c].op, call[c].agent, call[c].name, call[c].victim)
    BY <1>1, <1>2, GotoMoves, StepNames
  <2> QED  BY <1>1, <1>2, <2>1, SameLive, TurnStep DEF Carrying
<1>3. CASE call[c].pc = "unslot" /\ Return(c)
  <2>1. Moves(c, "idle", "none", NoAgent, NoPath, NoAgent)
    BY <1>1, <1>3, ReturnMoves
  <2>2. Only(c) /\ call'[c].pc = "idle"
    BY <2>1 DEF Moves, Only
  <2>3. /\ \A b : ~Aims(call[c], b) /\ ~Aims(call'[c], b)
        /\ \A b : ~Brings(call[c], b) /\ (Carries(call[c], b) => b = call[c].agent)
    BY <1>3, <2>2 DEF Aims, Brings, Carries
  <2>4. Steady(c, call[c].agent)
    BY <1>1, <2>3, SameLive DEF Steady
  <2> QED  BY <1>1, <2>2, <2>4, SteadyStep
<1> QED  BY <1>1, <1>2, <1>3

\* A slot is used or given up: its agent counts for itself if it is resident now.
LEMMA CommitRoom ==
    ASSUME AgentsInv, AgentsInv', Evictable, Room, version = "V2", NEW c \in Callers,
           CommitSlot(c)
    PROVE  Room'
<1>1. Types /\ Shape(version, call[c]) /\ IsList(residents)
  BY AtStep DEF Types
<1>2. /\ UNCHANGED <<version, paths, runtime>> /\ pending' = pending - 1
      /\ call[c].pc = "place" /\ residents' \in {residents, Touch(call[c].agent)}
      /\ Goto(c, "deliver") \/ Return(c)
  BY DEF CommitSlot, registry, manager
<1>3. PICK a \in Agents : a = call[c].agent
  BY <1>1, <1>2 DEF Shape
<1>4. PICK l, o, e, p, v : l \in {"deliver", "idle"} /\ Moves(c, l, o, e, p, v)
  BY <1>1, <1>2, GotoMoves, ReturnMoves, StepNames
<1>5. Only(c) /\ call'[c].pc \in {"deliver", "idle"}
  BY <1>4 DEF Moves, Only
<1>6. /\ \A b : ~Aims(call[c], b) /\ ~Aims(call'[c], b)
      /\ \A b : Brings(call[c], b) \/ Carries(call[c], b) => b = a
  BY <1>2, <1>3, <1>5 DEF Aims, Brings, Carries
<1>7. \A b : In(b, residents') => b = a \/ In(b, residents)
  BY <1>1, <1>2, <1>3, TouchList
<1>8. Steady(c, a)
  BY <1>2, <1>6, <1>7, SameLive DEF Steady
<1> QED  BY <1>2, <1>5, <1>8, SteadyStep

\* A removed agent leaves the list, then loses its name.
LEMMA ForgetRoom ==
    ASSUME AgentsInv, AgentsInv', Evictable, Room, version = "V2", NEW c \in Callers,
           ForgetResidency(c) \/ ReleaseSpawnedThread(c)
    PROVE  Room'
<1>1. Types /\ Shape(version, call[c]) /\ IsList(residents) /\ NoAgent \notin Agents
  BY AtStep, AgentsAssumption DEF Types
<1>2. /\ UNCHANGED <<version, runtime, pending>>
      /\ call[c].pc \in {"forget", "release"}
  BY DEF ForgetResidency, ReleaseSpawnedThread, manager, residency
<1>3. PICK a \in Agents : a = call[c].agent
  BY <1>1, <1>2 DEF Shape
<1>4. /\ \A b : Aims(call[c], b) <=> b = a
      /\ \A b : ~Brings(call[c], b) /\ ~Carries(call[c], b)
  BY <1>2, <1>3 DEF Aims, Brings, Carries
<1>5. CASE ForgetResidency(c)
  <2>1. residents' = Without(a) /\ Goto(c, "release")
    BY <1>3, <1>5 DEF ForgetResidency
  <2>2. \A b : In(b, residents') => In(b, residents)
    BY <1>1, <2>1, WithoutList
  <2>3. Moves(c, "release", call[c].op, call[c].agent, call[c].name, call[c].victim)
    BY <1>1, <2>1, GotoMoves, StepNames
  <2>4. Only(c) /\ call'[c].pc = "release" /\ call'[c].agent = a
    BY <1>3, <2>3 DEF Moves, Only
  <2>5. \A b : Aims(call'[c], b) <=> b = a
    BY <2>4 DEF Aims
  <2>6. Steady(c, NoAgent)
    BY <1>2, <1>4, <2>2, <2>5, SameLive DEF Steady
  <2> QED  BY <1>1, <1>2, <2>4, <2>6, SteadyStep
<1>6. CASE ReleaseSpawnedThread(c)
  <2>1. /\ residents' = residents
        /\ Goto(c, "uncount") \/ Return(c)
    BY <1>3, <1>6 DEF ReleaseSpawnedThread, residency
  <2>2. PICK l, o, e, p, v : l \in {"uncount", "idle"} /\ Moves(c, l, o, e, p, v)
    BY <1>1, <2>1, GotoMoves, ReturnMoves, StepNames
  <2>3. Only(c) /\ call'[c].pc \in {"uncount", "idle"}
    BY <2>2 DEF Moves, Only
  <2>4. \A b : ~Aims(call'[c], b)
    BY <2>3 DEF Aims
  <2>5. Steady(c, NoAgent)
    BY <1>2, <1>4, <2>1, <2>4, SameLive DEF Steady
  <2> QED  BY <1>1, <1>2, <2>3, <2>5, SteadyStep
<1> QED  BY <1>5, <1>6

\* A spawned agent is registered: its call brings it.
LEMMA RegisterRoom ==
    ASSUME AgentsInv, AgentsInv', Evictable, Room, version = "V2", NEW c \in Callers,
           Register(c)
    PROVE  Room'
<1>1. Types /\ Shape(version, call[c]) /\ NoAgent \notin Agents
  BY AtStep, AgentsAssumption
<1>2. /\ call[c].pc = "register" /\ UNCHANGED <<version, runtime, residents, pending>>
      /\ Goto(c, "place")
  BY DEF Register, manager, residency
<1>3. PICK a \in Agents : a = call[c].agent
  BY <1>1, <1>2 DEF Shape
<1>4. Moves(c, "place", call[c].op, call[c].agent, call[c].name, call[c].victim)
  BY <1>1, <1>2, GotoMoves, StepNames
<1>5. Only(c) /\ call'[c].pc = "place" /\ call'[c].agent = a
  BY <1>3, <1>4 DEF Moves, Only
<1>6. /\ \A b : ~Aims(call[c], b) /\ ~Aims(call'[c], b)
      /\ \A b : Brings(call'[c], b) <=> b = a
      /\ \A b : Brings(call[c], b) \/ Carries(call[c], b) => b = a
      /\ Carries(call'[c], a)
  BY <1>2, <1>3, <1>5 DEF Aims, Brings, Carries
<1>7. Steady(c, NoAgent)
  BY <1>2, <1>6, SameLive DEF Steady
<1> QED  BY <1>1, <1>2, <1>5, <1>7, SteadyStep

\* A call begins: a message aims at an agent that is registered.
LEMMA BeginRoom ==
    ASSUME AgentsInv, AgentsInv', Evictable, Room, version = "V2", NEW c \in Callers,
           BeginCall(c)
    PROVE  Room'
<1>1. PICK o \in Operations, a \in Agents \cup {NoAgent}, p \in Paths \cup {NoPath},
           l \in {"room", "lookup", "known"} :
          Begin(c, o, a, p, l) /\ (l = "lookup" => a \in Registered)
  <2>1. CASE SpawnAgent(c)
    BY <2>1, StepNames DEF SpawnAgent
  <2>2. CASE \E a \in Agents : SendMessage(c, a) \/ OpenChild(c, a)
    BY <2>2, StepNames DEF SendMessage, OpenChild
  <2>3. CASE \E a \in Agents : ResumeAgent(c, a) \/ CloseAgent(c, a)
    BY <2>3 DEF ResumeAgent, CloseAgent
  <2> QED  BY <2>1, <2>2, <2>3 DEF BeginCall
<1>2. /\ call[c].pc = "idle" /\ UNCHANGED <<version, paths, residents, pending, runtime>>
      /\ call' = [call EXCEPT ![c].pc = l, ![c].op = o, ![c].agent = a, ![c].name = p]
  BY <1>1 DEF Begin, registry, manager, residency
<1>3. Types /\ l \in Steps /\ NoAgent \notin Agents
  BY <1>1, StepNames, AgentsAssumption DEF AgentsInv
<1>4. Moves(c, l, o, a, p, call[c].victim)
  BY <1>1, <1>2, <1>3, BeginMoves
<1>5. Only(c) /\ call'[c].pc = l /\ call'[c].agent = a
  BY <1>4 DEF Moves, Only
<1>6. /\ \A b : ~Aims(call[c], b)
      /\ \A b : Aims(call'[c], b) => b \in Registered
      /\ \A b : ~Brings(call[c], b) /\ ~Carries(call[c], b)
  BY <1>1, <1>2, <1>5 DEF Aims, Brings, Carries
<1>7. Steady(c, NoAgent)
  BY <1>2, <1>6, SameLive DEF Steady
<1> QED  BY <1>2, <1>3, <1>5, <1>7, SteadyStep

\* The agent a call aims at, if it aims at one.
Target(x) == IF x.pc \in {"check", "touch", "unload", "evict"} THEN x.victim ELSE x.agent

\* A slot is promised only while residents and promised slots are fewer than
\* the capacity; every other call aims at one agent at most.
LEMMA ReserveRoom ==
    ASSUME AgentsInv, AgentsInv', Evictable, Room, version = "V2", NEW c \in Callers,
           TryReservePendingSlot(c)
    PROVE  Room'
<1>1. /\ Types /\ IsList(residents) /\ pending \in Nat /\ MaxThreads \in Nat
      /\ IsFiniteSet(Callers) /\ IsFiniteSet(Agents) /\ Len(residents) \in Nat
  BY AgentsAssumption DEF AgentsInv, Types, IsList
<1>2. /\ call[c].pc = "room" /\ UNCHANGED <<version, paths, runtime, residents>>
      /\ \/ pending' = pending /\ Goto(c, "count")
         \/ /\ pending' = pending + 1 /\ Len(residents) + pending < MaxThreads
            /\ Goto(c, "number") \/ Goto(c, "resume")
  BY <1>1 DEF TryReservePendingSlot, registry, manager
<1>3. CASE pending' = pending /\ Goto(c, "count")
  <2>1. "count" \in Steps /\ "count" \notin Aiming /\ call[c].pc \notin Carrying
    BY <1>2, StepNames DEF Aiming, Carrying
  <2> QED  BY <1>2, <1>3, <2>1, SameLive, QuietGoto
<1>4. CASE /\ pending' = pending + 1 /\ Len(residents) + pending < MaxThreads
           /\ Goto(c, "number") \/ Goto(c, "resume")
  <2>1. PICK l, o, e, p, v : l \in {"number", "resume"} /\ Moves(c, l, o, e, p, v)
    BY <1>1, <1>4, GotoMoves, StepNames
  <2>2. Only(c) /\ call'[c].pc \in {"number", "resume"}
    BY <2>1 DEF Moves, Only
  <2>3. \A b : ~Aims(call'[c], b)
    BY <2>2 DEF Aims
  <2>4. PICK R, O, f, T : /\ R = {a \in Agents : In(a, residents)}
                          /\ O = Callers \ {c}
                          /\ f = [d \in Callers |-> Target(call'[d])]
                          /\ T = {a \in Agents : \E d \in O : f[d] = a}
    OBVIOUS
  <2>5. IsFiniteSet(R) /\ Cardinality(R) = Len(residents)
    <3>1. \A a : a \in R <=> In(a, residents)
      BY <1>1, <2>4 DEF IsList, In
    <3> QED  BY <1>1, <3>1, ListSize
  <2>6. IsFiniteSet(O) /\ Cardinality(O) = Cardinality(Callers) - 1 /\ Cardinality(Callers) \in Nat
    BY <1>1, <2>4, FS_RemoveElement, FS_CardinalityType
  <2>7. IsFiniteSet(T) /\ Cardinality(T) <= Cardinality(O) /\ Cardinality(O) \in Nat
    <3>1. \A a \in T : \E d \in O : f[d] = a
      BY <2>4
    <3> QED  BY <2>6, <3>1, ReachedSmaller
  <2>8. Extra' \subseteq R \cup T
    <3> SUFFICES ASSUME NEW a \in Extra', ~In(a, residents)
                 PROVE  a \in T
      BY <2>4 DEF Extra
    <3>1. a \in Agents /\ Kept(a)'
      BY DEF Extra
    <3>2. PICK d \in Callers : Aims(call'[d], a)
      BY <1>2, <3>1 DEF Kept
    <3>3. d \in O /\ f[d] = a
      BY <2>3, <2>4, <3>2 DEF Aims, Target
    <3> QED  BY <2>4, <3>1, <3>3
  <2>9. /\ Cardinality(Extra') <= Cardinality(R) + Cardinality(T)
         /\ Cardinality(Extra') \in Nat /\ Cardinality(T) \in Nat
    BY <2>5, <2>7, <2>8, CoveredByTwo
  <2>10. pending' + Cardinality(Extra') < MaxThreads + Cardinality(Callers)
    BY <1>1, <1>4, <2>5, <2>6, <2>7, <2>9
  <2> QED  BY <2>10 DEF Room
<1> QED  BY <1>2, <1>3, <1>4

\* The agents work and are unloaded: none comes into the map.
LEMMA AgentsRoom ==
    ASSUME AgentsInv, AgentsInv', Evictable, Room,
           UNCHANGED <<version, paths, residents, pending, call>>,
           \A b \in Agents : Live(b)' => Live(b)
    PROVE  Room'
<1>1. Extra' \subseteq Extra /\ Extra \subseteq Agents
  BY DEF Extra, Kept
<1>2. /\ IsFiniteSet(Agents) /\ IsFiniteSet(Callers) /\ pending \in Nat /\ MaxThreads \in Nat
  BY AgentsAssumption DEF AgentsInv, Types
<1>3. IsFiniteSet(Extra)
  BY <1>1, <1>2, FS_Subset
<1>4. IsFiniteSet(Extra') /\ Cardinality(Extra') <= Cardinality(Extra)
  BY <1>1, <1>3, FS_Subset
<1>5. /\ Cardinality(Extra) \in Nat /\ Cardinality(Extra') \in Nat
      /\ Cardinality(Callers) \in Nat
  BY <1>2, <1>3, <1>4, FS_CardinalityType
<1> QED  BY <1>2, <1>4, <1>5 DEF Room

\* Room is kept by every step.
LEMMA NextRoom ==
    ASSUME AgentsInv, AgentsInv', Evictable, Room, [Next]_vars
    PROVE  Room'
<1>1. version' = version
  <2>1. ASSUME NEW c \in Callers, BeginCall(c) PROVE version' = version
    BY <2>1 DEF BeginCall, SpawnAgent, SendMessage, OpenChild, ResumeAgent, CloseAgent, Begin
  <2>2. ASSUME NEW c \in Callers, EvictionStep(c) PROVE version' = version
    BY <2>2 DEF EvictionStep, TryReservePendingSlot, CountResidents, PopLruCandidate,
           LimitReached, CheckCandidate, TouchCandidate, ShutdownCandidate, RemoveCandidate
  <2>3. ASSUME NEW c \in Callers, RegistryStep(c) PROVE version' = version
    BY <2>3 DEF RegistryStep, ReserveSpawnSlot, ReserveAgentPath, Register,
           ReleaseReservedPath, ReleaseSpawnedThread, ReturnCount
  <2>4. ASSUME NEW c \in Callers, ManagerStep(c) PROVE version' = version
    BY <2>4 DEF ManagerStep, StartThread, StartFails, LookupAgent, AgentKnown, TouchLoaded,
           ResumeThread, InsertThread, InsertFails, RecheckLoaded, DropSlot, CommitSlot,
           Deliver, ShutdownAgent, RemoveThread, ForgetResidency
  <2>5. ASSUME NEW a \in Agents, Settle(a) \/ UnloadBegins(a) \/ UnloadEnds(a)
        PROVE  version' = version
    BY <2>5 DEF Settle, UnloadBegins, UnloadEnds
  <2>6. CASE UNCHANGED vars
    BY <2>6 DEF vars
  <2> QED  BY <2>1, <2>2, <2>3, <2>4, <2>5, <2>6 DEF Next, CallStep
<1>2. CASE version # "V2"
  BY <1>1, <1>2 DEF Room
<1>3. CASE version = "V2"
  <2>1. ASSUME NEW c \in Callers, EvictionStep(c)
        PROVE  Room'
    BY <1>3, <2>1, ReserveRoom, CountRoom, PopRoom, SpawnRoom, CandidateRoom, TouchRoom,
       EvictRoom DEF EvictionStep
  <2>2. ASSUME NEW c \in Callers, RegistryStep(c)
        PROVE  Room'
    BY <1>3, <2>2, SpawnRoom, RegisterRoom, ForgetRoom DEF RegistryStep
  <2>3. ASSUME NEW c \in Callers, ManagerStep(c)
        PROVE  Room'
    BY <1>3, <2>3, StartRoom, SpawnRoom, LookupRoom, TouchRoom, ResumeRoom, ReloadFailsRoom,
       DropRoom, CommitRoom, DeliverRoom, RemoveRoom, ForgetRoom DEF ManagerStep
  <2>4. ASSUME NEW c \in Callers, BeginCall(c) \/ CallStep(c)
        PROVE  Room'
    BY <1>3, <2>1, <2>2, <2>3, <2>4, BeginRoom DEF CallStep
  <2>5. ASSUME NEW a \in Agents, Settle(a) \/ UnloadBegins(a) \/ UnloadEnds(a)
        PROVE  Room'
    <3>1. UNCHANGED <<version, paths, residents, pending, call>>
      BY <2>5 DEF Settle, UnloadBegins, UnloadEnds, registry, residency
    <3>2. \A b \in Agents : Live(b)' => Live(b)
      BY <2>5 DEF Settle, UnloadBegins, UnloadEnds, AgentsInv, Types, Live
    <3> QED  BY <3>1, <3>2, AgentsRoom
  <2>6. CASE UNCHANGED vars
    <3>1. UNCHANGED <<version, paths, residents, pending, call, runtime>>
      BY <2>6 DEF vars, registry, manager, residency
    <3> QED  BY <3>1, SameLive, AgentsRoom
  <2> QED  BY <2>4, <2>5, <2>6 DEF Next
<1> QED  BY <1>2, <1>3

\* However evictions, reloads, spawns and closes interleave, loaded residents and
\* promised places exceed the capacity of the residency list by less than the
\* number of calls in flight (try_reserve_pending_slot, commit_slot, touch and
\* pop_lru_candidate in residency.rs): what a call may still put back without
\* a slot is one agent for each other call.
THEOREM ResidencyBounded ==
    ASSUME Callers # {}
    PROVE  Spec => []ResidencyBound
<1>1. Init => Room
  <2> SUFFICES ASSUME Init
               PROVE  Room
    OBVIOUS
  <2>1. \A a \in Agents : ~Live(a)
    BY DEF Init, Live
  <2>2. Extra = {} /\ pending = 0
    BY <2>1 DEF Init, Extra
  <2>3. Cardinality(Extra) = 0
    BY <2>2, FS_EmptySet
  <2>4. Cardinality(Callers) \in Nat /\ Cardinality(Callers) # 0 /\ MaxThreads \in Nat
    BY AgentsAssumption, FS_CardinalityType, FS_EmptySet
  <2> QED  BY <2>2, <2>3, <2>4 DEF Room
<1>2. AgentsInv /\ AgentsInv' /\ Evictable /\ Room /\ [Next]_vars => Room'
  BY NextRoom
<1>3. AgentsInv /\ Room => ResidencyBound
  BY RoomBounds
<1> QED  BY <1>1, <1>2, <1>3, AgentsInvariance, LoadedAreEvictable, PTL DEF Spec
=============================================================================
