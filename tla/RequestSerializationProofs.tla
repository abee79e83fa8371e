--------------------- MODULE RequestSerializationProofs ---------------------
(***************************************************************************)
(* Proofs about RequestSerialization for any requests, keys, connections   *)
(* and access modes, and of its refinement of SerialService.               *)
(***************************************************************************)
EXTENDS RequestSerialization, WellFoundedInduction, TLAPS

(***************************************************************************)
(* The inductive invariant, key by key.                                    *)
(***************************************************************************)

\* How many requests of a key its drain task has taken.
TakenOf(k) == Len(order[k]) - Len(queue[k])

\* The queue is the part of the arrival order that has not been taken.
IsSuffix(k) ==
    /\ Len(queue[k]) <= Len(order[k])
    /\ \A i \in 1..Len(queue[k]) : queue[k][i] = order[k][TakenOf(k) + i]

\* A request stands in the line of its own key, once.
InLine(k) ==
    /\ \A i \in 1..Len(order[k]) :
          KeyOf[order[k][i]] = k /\ state[order[k][i]] # "new"
    /\ \A i, j \in 1..Len(order[k]) : order[k][i] = order[k][j] => i = j

\* What has not been taken waits; what has been taken runs or has ended.
Served(k) ==
    \A i \in 1..Len(order[k]) :
        /\ i > TakenOf(k) => state[order[k][i]] = "queued"
        /\ i <= TakenOf(k) => order[k][i] \in batch[k] \/ Ended(order[k][i])

\* Only reads are taken behind a request that is still running, and only if
\* that one is a read.
ReadsBehindReads(k) ==
    \A i, j \in 1..Len(order[k]) :
        (i < j /\ j <= TakenOf(k) /\ order[k][i] \in batch[k]) =>
            order[k][i] \in Shared /\ order[k][j] \in Shared

\* The requests run together are reads.
ReadBatch(k) == drainer[k] \in {"reads", "admit"} => batch[k] \subseteq Shared

LineInv(k) ==
    /\ IsSuffix(k) /\ InLine(k) /\ Served(k)
    /\ ReadsBehindReads(k) /\ ReadBatch(k)

QueueInv ==
    /\ TypeOK
    /\ \A k \in Keys : LineInv(k)
    /\ NoOrphanedRequest
    /\ DrainedGateIsQuiet

(***************************************************************************)
(* The reads at the front of a queue.                                      *)
(***************************************************************************)

\* LeadingReads is well defined: it counts the reads before the first
\* exclusive request.
LEMMA LeadingReadsExact ==
    ASSUME NEW q \in Seq(Requests)
    PROVE  /\ LeadingReads(q) \in 0..Len(q)
           /\ \A i \in 1..LeadingReads(q) : q[i] \in Shared
           /\ LeadingReads(q) < Len(q) => q[LeadingReads(q) + 1] \notin Shared
<1> DEFINE Good(n) == /\ \A i \in 1..n : q[i] \in Shared
                      /\ n < Len(q) => q[n + 1] \notin Shared
           S == {n \in 0..Len(q) : n < Len(q) => q[n + 1] \notin Shared}
           R == OpToRel(<, Nat)
<1>1. Len(q) \in S /\ S \subseteq Nat
  OBVIOUS
<1>2. \E m \in S : \A n \in S : <<n, m>> \notin R
  <2> HIDE DEF S
  <2> QED  BY <1>1, WFMin, NatLessThanWellFounded, Zenon
<1>3. PICK m \in S : \A n \in S : <<n, m>> \notin R
  BY <1>2, Zenon
<1>4. \A n \in S : m <= n
  <2> SUFFICES ASSUME NEW n \in S, n < m  PROVE FALSE
    BY <1>1
  <2>1. <<n, m>> \in R
    <3>1. n \in Nat /\ m \in Nat
      BY <1>1
    <3> HIDE DEF S
    <3> QED  BY <3>1 DEF OpToRel
  <2> QED  BY <2>1, <1>3, Zenon
<1>5. \A i \in 1..m : q[i] \in Shared
  <2> SUFFICES ASSUME NEW i \in 1..m, q[i] \notin Shared  PROVE FALSE
    OBVIOUS
  <2>1. i - 1 \in S
    OBVIOUS
  <2> QED  BY <2>1, <1>4
<1>6. \E n \in 0..Len(q) : Good(n)
  BY <1>5
<1> QED  BY <1>6 DEF LeadingReads

\* A queue that starts with a read has at least one read in front.
LEMMA LeadingReadsPositive ==
    ASSUME NEW q \in Seq(Requests), q # <<>>, Head(q) \in Shared
    PROVE  LeadingReads(q) >= 1
BY LeadingReadsExact

(***************************************************************************)
(* A queue q that is the rest of a line o, of which m have been taken.     *)
(***************************************************************************)
RestOf(q, o, m) ==
    /\ Len(o) = m + Len(q)
    /\ \A i \in 1..Len(q) : q[i] = o[m + i]

Once(o) == \A i, j \in 1..Len(o) : o[i] = o[j] => i = j

\* Taking n more from the front leaves the rest of the line, and what was
\* taken are the places m + 1 to m + n.
LEMMA TakeFront ==
    ASSUME NEW o \in Seq(Requests), NEW q \in Seq(Requests), NEW n \in 0..Len(q),
           NEW m \in Nat, RestOf(q, o, m), Once(o)
    PROVE  /\ RestOf(SubSeq(q, n + 1, Len(q)), o, m + n)
           /\ \A i \in 1..Len(o) :
                 o[i] \in {q[j] : j \in 1..n} <=> (i > m /\ i <= m + n)
<1>1. PICK lq \in Nat : lq = Len(q)
  OBVIOUS
<1>2. PICK lo \in Nat : lo = Len(o)
  OBVIOUS
<1>3. n \in Nat /\ n <= lq /\ lo = m + lq
  BY <1>1, <1>2 DEF RestOf
<1>4. PICK t : t = SubSeq(q, n + 1, lq)
  OBVIOUS
<1>5. Len(t) = lq - n /\ \A i \in 1..(lq - n) : t[i] = q[n + i]
  BY <1>1, <1>3, <1>4
<1>6. ASSUME NEW i \in 1..(lq - n)  PROVE t[i] = o[m + n + i]
  <2>1. n + i \in 1..lq /\ m + (n + i) = m + n + i
    BY <1>3
  <2>2. q[n + i] = o[m + (n + i)]
    BY <1>1, <2>1 DEF RestOf
  <2> QED  BY <1>5, <2>1, <2>2
<1>7. ASSUME NEW i \in 1..lo, NEW j \in 1..n, o[i] = q[j]
      PROVE  i > m /\ i <= m + n
  <2>1. j \in 1..lq /\ m + j \in 1..lo
    BY <1>3
  <2>2. o[i] = o[m + j]
    BY <1>1, <1>7, <2>1 DEF RestOf
  <2>3. i = m + j
    BY <1>2, <2>1, <2>2 DEF Once
  <2> QED  BY <1>3, <2>3
<1>8. ASSUME NEW i \in 1..lo, i > m, i <= m + n
      PROVE  \E j \in 1..n : o[i] = q[j]
  <2>1. i - m \in 1..n /\ i - m \in 1..lq /\ m + (i - m) = i
    BY <1>3, <1>8
  <2>2. q[i - m] = o[m + (i - m)]
    BY <1>1, <2>1 DEF RestOf
  <2> QED  BY <2>1, <2>2
<1>9. \A i \in 1..lo : o[i] \in {q[j] : j \in 1..n} <=> (i > m /\ i <= m + n)
  BY <1>7, <1>8
<1>10. lo = m + n + (lq - n)
  BY <1>3
<1>11. RestOf(t, o, m + n)
  BY <1>2, <1>5, <1>6, <1>10 DEF RestOf
<1> QED  BY <1>1, <1>2, <1>4, <1>9, <1>11

\* One more at the end of the line is one more at the end of the queue.
LEMMA JoinEnd ==
    ASSUME NEW o \in Seq(Requests), NEW q \in Seq(Requests), NEW r \in Requests,
           NEW m \in Nat, RestOf(q, o, m)
    PROVE  RestOf(Append(q, r), Append(o, r), m)
<1>1. PICK lq \in Nat : lq = Len(q)
  OBVIOUS
<1>2. PICK lo \in Nat : lo = Len(o)
  OBVIOUS
<1>3. lo = m + lq
  BY <1>1, <1>2 DEF RestOf
<1>4. PICK q2 : q2 = Append(q, r)
  OBVIOUS
<1>5. PICK o2 : o2 = Append(o, r)
  OBVIOUS
<1>6. /\ Len(q2) = lq + 1 /\ q2[lq + 1] = r /\ \A i \in 1..lq : q2[i] = q[i]
      /\ Len(o2) = lo + 1 /\ o2[lo + 1] = r /\ \A i \in 1..lo : o2[i] = o[i]
  BY <1>1, <1>2, <1>4, <1>5
<1>7. ASSUME NEW i \in 1..(lq + 1)  PROVE q2[i] = o2[m + i]
  <2>1. CASE i \in 1..lq
    <3>1. m + i \in 1..lo
      BY <1>3, <2>1
    <3> QED  BY <1>1, <1>6, <2>1, <3>1 DEF RestOf
  <2>2. CASE i = lq + 1
    <3>1. m + i = lo + 1
      BY <1>3, <2>2
    <3> QED  BY <1>6, <2>2, <3>1
  <2>3. i \in 1..lq \/ i = lq + 1
    OBVIOUS
  <2> QED  BY <2>1, <2>2, <2>3
<1>8. lo + 1 = m + (lq + 1)
  BY <1>3
<1> QED  BY <1>4, <1>5, <1>6, <1>7, <1>8 DEF RestOf

(***************************************************************************)
(* Init.                                                                   *)
(***************************************************************************)
\* Nothing has arrived: the invariant holds.
LEMMA InitInv == Init => QueueInv
BY RequestsAssumption
   DEF Init, QueueInv, TypeOK, LineInv, IsSuffix, InLine, Served, ReadsBehindReads,
       ReadBatch, NoOrphanedRequest, DrainedGateIsQuiet, DrainerStates,
       RequestStates, GateStates, TakenOf, HoldsToken

(***************************************************************************)
(* How a step moves the lines.                                             *)
(***************************************************************************)

\* A step that moves no request in or out of a queue or a batch keeps the
\* lines, if the serialized requests it moves are running ones.
LEMMA QuietLines ==
    ASSUME QueueInv, UNCHANGED <<queue, batch, order>>,
           \A k \in Keys : drainer'[k] \in {"reads", "admit"} =>
                           drainer[k] \in {"reads", "admit"},
           \A r \in Requests : KeyOf[r] # NoKey =>
               \/ state'[r] = state[r]
               \/ /\ state[r] \in {"launched", "running", "awaiting"}
                  /\ state'[r] # "new"
    PROVE  \A k \in Keys : LineInv(k)'
<1> SUFFICES ASSUME NEW k \in Keys  PROVE LineInv(k)'
  OBVIOUS
<1>1. LineInv(k)
  BY DEF QueueInv
<1>2. order[k] \in Seq(Requests)
  BY DEF QueueInv, TypeOK
<1>3. \A i \in 1..Len(order[k]) :
         /\ order[k][i] \in Requests
         /\ KeyOf[order[k][i]] # NoKey
  BY <1>1, <1>2, RequestsAssumption DEF LineInv, InLine
<1>4. IsSuffix(k)' /\ ReadsBehindReads(k)' /\ ReadBatch(k)'
  BY <1>1 DEF LineInv, IsSuffix, ReadsBehindReads, ReadBatch, TakenOf
<1>5. InLine(k)'
  BY <1>1, <1>3 DEF LineInv, InLine
<1>6. Served(k)'
  BY <1>1, <1>3 DEF LineInv, Served, TakenOf, Ended
<1> QED  BY <1>4, <1>5, <1>6 DEF LineInv

\* A request that arrives goes to the end of its line.
LEMMA EnqueueLines ==
    ASSUME QueueInv, NEW r \in Requests, KeyOf[r] # NoKey, state[r] = "new",
           Enqueue(KeyOf[r], r), state'[r] = "queued",
           \A q \in Requests : q # r /\ KeyOf[q] # NoKey => state'[q] = state[q]
    PROVE  \A k \in Keys : LineInv(k)'
<1> DEFINE h == KeyOf[r]
<1>0. h \in Keys
  BY RequestsAssumption
<1>1. /\ order' = [order EXCEPT ![h] = Append(@, r)]
      /\ queue' = [queue EXCEPT ![h] = Append(@, r)]
      /\ UNCHANGED batch
      /\ \A k \in Keys : drainer'[k] \in {"reads", "admit"} => drainer'[k] = drainer[k]
  <2>1. queue[h] = <<>> \/ drainer[h] # "none"
    BY <1>0 DEF QueueInv, NoOrphanedRequest
  <2>2. Append(<<>>, r) = <<r>>
    OBVIOUS
  <2>3. queue \in [Keys -> Seq(Requests)] /\ drainer \in [Keys -> DrainerStates]
    BY DEF QueueInv, TypeOK
  <2> QED  BY <1>0, <2>1, <2>2, <2>3 DEF Enqueue
<1>2. SUFFICES ASSUME NEW k \in Keys  PROVE LineInv(k)'
  OBVIOUS
<1>3. /\ IsSuffix(k) /\ InLine(k) /\ Served(k)
      /\ ReadsBehindReads(k) /\ ReadBatch(k)
      /\ order[k] \in Seq(Requests) /\ queue[k] \in Seq(Requests)
      /\ order \in [Keys -> Seq(Requests)] /\ queue \in [Keys -> Seq(Requests)]
  BY DEF QueueInv, TypeOK, LineInv
<1>4. \A i \in 1..Len(order[k]) :
         /\ order[k][i] \in Requests /\ order[k][i] # r
         /\ KeyOf[order[k][i]] = k /\ KeyOf[order[k][i]] # NoKey
         /\ state'[order[k][i]] = state[order[k][i]]
  BY <1>3, RequestsAssumption DEF InLine
<1>5. ReadBatch(k)'
  BY <1>1, <1>3 DEF ReadBatch
<1>6. CASE k # h
  <2>1. order'[k] = order[k] /\ queue'[k] = queue[k] /\ batch'[k] = batch[k]
    BY <1>0, <1>1, <1>3, <1>6
  <2>2. IsSuffix(k)' /\ ReadsBehindReads(k)'
    BY <1>3, <2>1 DEF IsSuffix, ReadsBehindReads, TakenOf
  <2>3. InLine(k)'
    BY <1>3, <1>4, <2>1 DEF InLine
  <2>4. Served(k)'
    BY <1>3, <1>4, <2>1 DEF Served, TakenOf, Ended
  <2> QED  BY <1>5, <2>2, <2>3, <2>4 DEF LineInv
<1>7. CASE k = h
  <2> DEFINE n == Len(order[k])
  <2>1. /\ order'[k] = Append(order[k], r) /\ queue'[k] = Append(queue[k], r)
        /\ batch'[k] = batch[k]
    BY <1>0, <1>1, <1>3, <1>7
  <2>2. /\ Len(order'[k]) = n + 1 /\ Len(queue'[k]) = Len(queue[k]) + 1
        /\ n \in Nat /\ Len(queue[k]) \in Nat
        /\ \A i \in 1..n : order'[k][i] = order[k][i]
        /\ order'[k][n + 1] = r
        /\ \A i \in 1..Len(queue[k]) : queue'[k][i] = queue[k][i]
        /\ queue'[k][Len(queue[k]) + 1] = r
    BY <1>3, <2>1
  <2>3. TakenOf(k)' = TakenOf(k) /\ TakenOf(k) \in 0..n
    BY <1>3, <2>2 DEF TakenOf, IsSuffix
  <2> HIDE DEF n
  <2>4. IsSuffix(k)'
    <3>1. PICK m \in Nat : m = TakenOf(k)
      BY <2>3
    <3>2. RestOf(queue[k], order[k], m)
      BY <1>3, <2>2, <3>1 DEF IsSuffix, RestOf, TakenOf, n
    <3>3. RestOf(queue'[k], order'[k], m)
      BY <1>3, <2>1, <3>2, JoinEnd
    <3>4. \A i \in 1..Len(queue'[k]) : queue'[k][i] = order'[k][m + i]
      BY <3>3 DEF RestOf
    <3>5. Len(queue'[k]) <= Len(order'[k])
      BY <1>3, <2>2 DEF IsSuffix, n
    <3> QED  BY <2>3, <3>1, <3>4, <3>5 DEF IsSuffix
  <2>5. InLine(k)'
    <3>1. \A i \in 1..n : KeyOf[order'[k][i]] = k /\ state'[order'[k][i]] # "new"
      BY <1>3, <1>4, <2>2 DEF InLine, n
    <3>2. KeyOf[order'[k][n + 1]] = k /\ state'[order'[k][n + 1]] # "new"
      BY <1>7, <2>2
    <3>3. \A i, j \in 1..n : order'[k][i] = order'[k][j] => i = j
      BY <1>3, <2>2 DEF InLine, n
    <3>4. \A i \in 1..n : order'[k][i] # order'[k][n + 1]
      BY <1>4, <2>2 DEF n
    <3>5. \A i \in 1..(n + 1) : i \in 1..n \/ i = n + 1
      BY <2>2
    <3> QED  BY <2>2, <3>1, <3>2, <3>3, <3>4, <3>5 DEF InLine
  <2>6. Served(k)'
    <3>1. ASSUME NEW i \in 1..n
          PROVE  /\ i > TakenOf(k)' => state'[order'[k][i]] = "queued"
                 /\ i <= TakenOf(k)' =>
                       order'[k][i] \in batch'[k] \/ Ended(order[k][i])'
      BY <1>3, <1>4, <2>1, <2>2, <2>3 DEF Served, Ended, n
    <3>2. /\ n + 1 > TakenOf(k)' /\ ~(n + 1 <= TakenOf(k)')
          /\ state'[order'[k][n + 1]] = "queued"
      BY <2>2, <2>3
    <3>3. \A i \in 1..(n + 1) : i \in 1..n \/ i = n + 1
      BY <2>2
    <3> QED  BY <2>2, <3>1, <3>2, <3>3 DEF Served, Ended
  <2>7. ReadsBehindReads(k)'
    BY <1>3, <2>1, <2>2, <2>3 DEF ReadsBehindReads, n
  <2> QED  BY <1>5, <2>4, <2>5, <2>6, <2>7 DEF LineInv
<1> QED  BY <1>6, <1>7

\* What the drain task takes from the front of its queue are the next
\* requests of the line, none of which was running.
LEMMA LaunchLines ==
    ASSUME QueueInv, NEW h \in Keys, NEW n \in 0..Len(queue[h]), NEW next,
           Launch(h, n, next), UNCHANGED order,
           \/ next = "exclusive" /\ n = 1 /\ batch[h] = {}
           \/ /\ next = "reads" /\ batch[h] \subseteq Shared
              /\ \A i \in 1..n : queue[h][i] \in Shared
    PROVE  \A k \in Keys : LineInv(k)'
<1>1. PICK taken : taken = {queue[h][i] : i \in 1..n}
  OBVIOUS
<1>2. /\ queue' = [queue EXCEPT ![h] = SubSeq(@, n + 1, Len(@))]
      /\ batch' = [batch EXCEPT ![h] = @ \cup taken]
      /\ state' = [r \in Requests |-> IF r \in taken THEN "launched" ELSE state[r]]
      /\ drainer' = [drainer EXCEPT ![h] = next]
  BY <1>1 DEF Launch
<1>3. /\ order \in [Keys -> Seq(Requests)] /\ queue \in [Keys -> Seq(Requests)]
      /\ batch \in [Keys -> SUBSET Requests] /\ drainer \in [Keys -> DrainerStates]
      /\ \A k \in Keys : /\ IsSuffix(k) /\ InLine(k) /\ Served(k)
                         /\ ReadsBehindReads(k) /\ ReadBatch(k)
  BY DEF QueueInv, TypeOK, LineInv
<1>4. PICK o \in Seq(Requests) : o = order[h]
  BY <1>3
<1>5. PICK q \in Seq(Requests) : q = queue[h]
  BY <1>3
<1>6. PICK m \in Nat : m = TakenOf(h) /\ Len(o) = m + Len(q)
  <2>1. Len(q) <= Len(o) /\ TakenOf(h) = Len(o) - Len(q)
    BY <1>3, <1>4, <1>5 DEF IsSuffix, TakenOf
  <2> QED  BY <2>1
<1>7. RestOf(q, o, m) /\ Once(o)
  <2>1. IsSuffix(h) /\ InLine(h)
    BY <1>3
  <2>2. RestOf(q, o, m)
    BY <1>4, <1>5, <1>6, <2>1 DEF IsSuffix, RestOf
  <2>3. Once(o)
    BY <1>4, <2>1 DEF InLine, Once
  <2> QED  BY <2>2, <2>3
<1>8. /\ RestOf(SubSeq(q, n + 1, Len(q)), o, m + n)
      /\ \A i \in 1..Len(o) : o[i] \in taken <=> (i > m /\ i <= m + n)
  <2>1. n \in 0..Len(q) /\ taken = {q[j] : j \in 1..n}
    BY <1>1, <1>5
  <2> QED  BY <1>7, <2>1, TakeFront
<1>9. PICK lo \in Nat : lo = Len(o)
  OBVIOUS
<1>10. n \in Nat /\ m + n <= lo
  BY <1>5, <1>6, <1>9
<1>11. \A r \in taken : \E i \in 1..lo : i > m /\ o[i] = r
  <2> SUFFICES ASSUME NEW j \in 1..n  PROVE \E i \in 1..lo : i > m /\ o[i] = q[j]
    BY <1>1, <1>5
  <2>1. m + j \in 1..lo /\ m + j > m /\ j \in 1..Len(q)
    BY <1>5, <1>10
  <2> QED  BY <1>7, <2>1 DEF RestOf
<1>12. \A r \in taken : KeyOf[r] = h
  BY <1>3, <1>4, <1>9, <1>11 DEF InLine
<1>13. SUFFICES ASSUME NEW k \in Keys  PROVE LineInv(k)'
  OBVIOUS
<1>14. CASE k # h
  <2>1. /\ order'[k] = order[k] /\ queue'[k] = queue[k] /\ batch'[k] = batch[k]
        /\ drainer'[k] = drainer[k]
    BY <1>2, <1>3, <1>14
  <2>2. \A i \in 1..Len(order[k]) : state'[order[k][i]] = state[order[k][i]]
    BY <1>2, <1>3, <1>12, <1>14 DEF InLine
  <2>3. IsSuffix(k)' /\ ReadsBehindReads(k)' /\ ReadBatch(k)'
    BY <1>3, <2>1 DEF IsSuffix, ReadsBehindReads, ReadBatch, TakenOf
  <2>4. InLine(k)'
    <3>1. InLine(k)
      BY <1>3
    <3> QED  BY <2>1, <2>2, <3>1 DEF InLine
  <2>5. Served(k)'
    BY <1>3, <2>1, <2>2 DEF Served, TakenOf, Ended
  <2> QED  BY <2>3, <2>4, <2>5 DEF LineInv
<1>15. CASE k = h
  <2>1. /\ order'[k] = o /\ queue'[k] = SubSeq(q, n + 1, Len(q))
        /\ batch'[k] = batch[h] \cup taken /\ drainer'[k] = next
    BY <1>2, <1>3, <1>4, <1>5, <1>15
  <2>2. PICK m2 \in Nat : m2 = m + n
    BY <1>10
  <2>3. Len(order'[k]) = m2 + Len(queue'[k]) /\ TakenOf(k)' = m2
    <3>0. SubSeq(q, n + 1, Len(q)) \in Seq(Requests)
      BY <1>5
    <3>1. PICK lq \in Nat : lq = Len(queue'[k])
      <4>1. Len(SubSeq(q, n + 1, Len(q))) \in Nat
        BY <3>0
      <4> QED  BY <2>1, <4>1
    <3>2. lo = m2 + lq
      BY <1>8, <1>9, <2>1, <2>2, <3>1 DEF RestOf
    <3>3. TakenOf(k)' = lo - lq
      BY <1>9, <2>1, <3>1 DEF TakenOf
    <3> QED  BY <1>9, <2>1, <3>1, <3>2, <3>3
  <2>4. ReadBatch(k)'
    BY <1>1, <2>1 DEF ReadBatch
  <2>5. IsSuffix(k)'
    <3>1. Len(queue'[k]) <= Len(order'[k])
      BY <1>5, <2>1, <2>3
    <3>2. \A i \in 1..Len(queue'[k]) : queue'[k][i] = order'[k][m2 + i]
      BY <1>8, <2>1, <2>2 DEF RestOf
    <3> QED  BY <2>3, <3>1, <3>2 DEF IsSuffix
  <2>6. InLine(k)'
    <3>1. \A i \in 1..lo : KeyOf[o[i]] = k /\ state[o[i]] # "new"
      BY <1>3, <1>4, <1>9, <1>15 DEF InLine
    <3>2. \A i \in 1..lo : state'[o[i]] # "new"
      BY <1>2, <1>9, <3>1
    <3> QED  BY <1>7, <1>9, <2>1, <3>1, <3>2 DEF InLine, Once
  <2>7. \A i \in 1..lo : /\ i > m => state[o[i]] = "queued"
                         /\ i <= m => o[i] \in batch[h] \/ Ended(o[i])
    BY <1>3, <1>4, <1>6, <1>9 DEF Served
  <2>8. ASSUME NEW i \in 1..lo
        PROVE  /\ i > m2 => state'[o[i]] = "queued"
               /\ i <= m2 => o[i] \in batch'[k] \/ Ended(o[i])'
    <3>1. o[i] \in Requests /\ (o[i] \in taken <=> (i > m /\ i <= m2))
      BY <1>8, <1>9, <2>2
    <3>2. CASE i > m2
      <4>1. i > m /\ ~(i <= m2)
        BY <1>10, <2>2, <3>2
      <4> QED  BY <1>2, <2>7, <3>1, <4>1
    <3>3. CASE i > m /\ i <= m2
      BY <2>1, <3>1, <3>3
    <3>4. CASE i <= m
      <4>1. ~(i > m) /\ ~(i > m2)
        BY <1>10, <2>2, <3>4
      <4>2. state'[o[i]] = state[o[i]]
        BY <1>2, <3>1, <4>1
      <4> QED  BY <2>1, <2>7, <3>4, <4>1, <4>2 DEF Ended
    <3> QED  BY <1>10, <2>2, <3>2, <3>3, <3>4
  <2>9. Served(k)'
    BY <1>9, <2>1, <2>3, <2>8 DEF Served, Ended
  <2>10. ASSUME NEW i \in 1..lo, NEW j \in 1..lo, i < j, j <= m2,
                o[i] \in batch[h] \cup taken
         PROVE  o[i] \in Shared /\ o[j] \in Shared
    <3>1. o[j] \in taken <=> (j > m /\ j <= m2)
      BY <1>8, <1>9, <2>2
    <3>2. CASE next = "exclusive" /\ n = 1 /\ batch[h] = {}
      <4>1. i > m /\ m2 = m + 1
        BY <1>8, <1>9, <2>2, <2>10, <3>2
      <4> QED  BY <2>10, <4>1
    <3>3. CASE /\ next = "reads" /\ batch[h] \subseteq Shared
               /\ \A l \in 1..n : queue[h][l] \in Shared
      <4>1. taken \subseteq Shared
        BY <1>1, <3>3
      <4>2. CASE j <= m
        <5>1. ~(i > m)
          BY <2>10, <4>2
        <5>2. o[i] \in batch[h]
          BY <1>8, <1>9, <2>10, <5>1
        <5> QED  BY <1>3, <1>4, <1>6, <1>9, <2>10, <4>2, <5>2 DEF ReadsBehindReads
      <4>3. CASE j > m
        BY <2>10, <3>1, <3>3, <4>1, <4>3
      <4> QED  BY <4>2, <4>3
    <3> QED  BY <3>2, <3>3
  <2>11. ReadsBehindReads(k)'
    BY <1>9, <2>1, <2>3, <2>10 DEF ReadsBehindReads
  <2> QED  BY <2>4, <2>5, <2>6, <2>9, <2>11 DEF LineInv
<1> QED  BY <1>14, <1>15

\* A request that has ended leaves the batch.
LEMMA CollectLines ==
    ASSUME QueueInv, NEW h \in Keys, NEW r \in Requests, Collect(h, r)
    PROVE  \A k \in Keys : LineInv(k)'
<1>1. /\ \A k \in Keys : batch'[k] \subseteq batch[k] /\ batch[k] \subseteq batch'[k] \cup {r}
      /\ \A k \in Keys : drainer'[k] \in {"reads", "admit"} => drainer'[k] = drainer[k]
      /\ UNCHANGED <<queue, order, state>> /\ Ended(r)
  BY DEF QueueInv, TypeOK, Collect, Ended
<1>2. SUFFICES ASSUME NEW k \in Keys  PROVE LineInv(k)'
  OBVIOUS
<1>3. LineInv(k)
  BY DEF QueueInv
<1>4. IsSuffix(k)' /\ InLine(k)'
  BY <1>1, <1>3 DEF LineInv, IsSuffix, InLine, TakenOf
<1>5. Served(k)'
  BY <1>1, <1>3 DEF LineInv, Served, TakenOf, Ended
<1>6. ReadsBehindReads(k)' /\ ReadBatch(k)'
  BY <1>1, <1>3 DEF LineInv, ReadsBehindReads, ReadBatch, TakenOf
<1> QED  BY <1>4, <1>5, <1>6 DEF LineInv
(***************************************************************************)
(* Every step keeps the invariant.                                         *)
(***************************************************************************)

\* Launch keeps the types, gives the drain task something to run, and leaves
\* no read in front of running reads.
LEMMA LaunchInv ==
    ASSUME QueueInv, NEW h \in Keys, NEW n \in 0..Len(queue[h]),
           NEW next \in {"exclusive", "reads"},
           Launch(h, n, next), UNCHANGED <<permit, order, gate>>,
           n >= 1 \/ batch[h] # {},
           \/ next = "exclusive" /\ n = 1 /\ batch[h] = {}
           \/ /\ next = "reads" /\ batch[h] \subseteq Shared
              /\ n = LeadingReads(queue[h])
    PROVE  QueueInv'
<1>1. TypeOK /\ NoOrphanedRequest /\ DrainedGateIsQuiet
  BY DEF QueueInv
<1>2. PICK q \in Seq(Requests) : q = queue[h]
  BY <1>1 DEF TypeOK
<1>3. PICK taken : taken = {q[i] : i \in 1..n}
  OBVIOUS
<1>4. /\ queue' = [queue EXCEPT ![h] = SubSeq(q, n + 1, Len(q))]
      /\ batch' = [batch EXCEPT ![h] = @ \cup taken]
      /\ state' = [r \in Requests |-> IF r \in taken THEN "launched" ELSE state[r]]
      /\ drainer' = [drainer EXCEPT ![h] = next]
  BY <1>2, <1>3 DEF Launch
<1>5. taken \subseteq Requests /\ (n >= 1 => taken # {})
  BY <1>2, <1>3
<1>6. SubSeq(q, n + 1, Len(q)) \in Seq(Requests)
  BY <1>2
<1>7. TypeOK'
  BY <1>1, <1>4, <1>5, <1>6 DEF TypeOK, DrainerStates, RequestStates
<1>8. next = "reads" => \A i \in 1..n : queue[h][i] \in Shared
  BY <1>2, LeadingReadsExact
<1>9. \A k \in Keys : LineInv(k)'
  BY <1>8, LaunchLines
<1>10. next = "reads" /\ queue'[h] # <<>> => Head(queue'[h]) \notin Shared
  <2> SUFFICES ASSUME next = "reads", queue'[h] # <<>>
               PROVE  Head(queue'[h]) \notin Shared
    OBVIOUS
  <2>1. queue'[h] = SubSeq(q, n + 1, Len(q))
    BY <1>1, <1>4 DEF TypeOK
  <2>2. n < Len(q) /\ Head(queue'[h]) = q[n + 1]
    BY <1>2, <2>1
  <2>3. n = LeadingReads(q)
    BY <1>2
  <2> QED  BY <2>2, <2>3, LeadingReadsExact
<1>11. NoOrphanedRequest'
  BY <1>1, <1>4, <1>10 DEF NoOrphanedRequest, TypeOK
<1>12. DrainedGateIsQuiet'
  BY <1>1, <1>4 DEF DrainedGateIsQuiet, HoldsToken, TypeOK
<1> QED  BY <1>7, <1>9, <1>11, <1>12 DEF QueueInv

\* A request that arrives, with whatever its sender does beside, keeps the
\* invariant: it finds or gets a drain task, and a permit.
LEMMA EnqueueInv ==
    ASSUME QueueInv, NEW r \in Requests, KeyOf[r] # NoKey, state[r] = "new",
           Enqueue(KeyOf[r], r), state' \in [Requests -> RequestStates],
           state'[r] = "queued",
           \A q \in Requests : q # r /\ KeyOf[q] # NoKey => state'[q] = state[q],
           \A q \in Requests : HoldsToken(q)' => HoldsToken(q)
    PROVE  QueueInv'
<1>1. TypeOK /\ NoOrphanedRequest /\ DrainedGateIsQuiet /\ KeyOf[r] \in Keys
  BY RequestsAssumption DEF QueueInv
<1>2. TypeOK'
  <2>1. UNCHANGED <<batch, gate>>
    BY DEF Enqueue
  <2>2. /\ queue' \in [Keys -> Seq(Requests)] /\ order' \in [Keys -> Seq(Requests)]
        /\ permit' \in [Keys -> BOOLEAN]
    <3>1. /\ queue \in [Keys -> Seq(Requests)] /\ order \in [Keys -> Seq(Requests)]
          /\ permit \in [Keys -> BOOLEAN]
      BY <1>1 DEF TypeOK
    <3>2. \A s \in Seq(Requests) : Append(s, r) \in Seq(Requests)
      OBVIOUS
    <3>3. <<r>> \in Seq(Requests)
      OBVIOUS
    <3>4. order' = [order EXCEPT ![KeyOf[r]] = Append(@, r)]
      BY DEF Enqueue
    <3>5. order' \in [Keys -> Seq(Requests)]
      BY <1>1, <3>1, <3>2, <3>4
    <3>6. \E s \in Seq(Requests) : queue' = [queue EXCEPT ![KeyOf[r]] = s]
      <4>1. queue[KeyOf[r]] \in Seq(Requests)
        BY <1>1, <3>1
      <4>2. Append(queue[KeyOf[r]], r) \in Seq(Requests)
        BY <3>2, <4>1
      <4> QED  BY <3>3, <4>2, Zenon DEF Enqueue
    <3>7. queue' \in [Keys -> Seq(Requests)]
      BY <3>1, <3>6, Zenon
    <3>8. \E b \in BOOLEAN : permit' = [permit EXCEPT ![KeyOf[r]] = b]
      BY Zenon DEF Enqueue
    <3>9. permit' \in [Keys -> BOOLEAN]
      <4>1. permit \in [Keys -> BOOLEAN]
        BY <3>1
      <4> QED  BY <3>8, <4>1, Zenon
    <3> QED  BY <3>5, <3>7, <3>9
  <2>3. /\ drainer' \in [Keys -> DrainerStates]
        /\ \A k \in Keys : batch'[k] # {} <=> drainer'[k] \in {"exclusive", "reads", "admit"}
    BY <1>1 DEF Enqueue, TypeOK, DrainerStates
  <2> QED  BY <1>1, <2>1, <2>2, <2>3 DEF TypeOK
<1>3. \A k \in Keys : LineInv(k)'
  BY EnqueueLines
<1>4. NoOrphanedRequest'
  BY <1>1 DEF NoOrphanedRequest, Enqueue, TypeOK
<1>5. DrainedGateIsQuiet'
  BY <1>1 DEF DrainedGateIsQuiet, Enqueue
<1> QED  BY <1>2, <1>3, <1>4, <1>5 DEF QueueInv

\* A client request arrives.
LEMMA EnqueueRequestInv ==
    ASSUME QueueInv, NEW r \in Requests, EnqueueRequest(r)
    PROVE  QueueInv'
<1>1. state \in [Requests -> RequestStates]
  BY DEF QueueInv, TypeOK
<1> QED  BY <1>1, EnqueueInv DEF EnqueueRequest, RequestStates, HoldsToken

\* A handler enqueues background work.
LEMMA EnqueueBackgroundInv ==
    ASSUME QueueInv, NEW r \in Requests, EnqueueBackground(r)
    PROVE  QueueInv'
<1>1. state \in [Requests -> RequestStates]
  BY DEF QueueInv, TypeOK
<1>2. PICK b : b = AwaitOf[r]
  OBVIOUS
<1>3. b \in Requests /\ KeyOf[b] # NoKey /\ KeyOf[r] = NoKey
  BY <1>2, RequestsAssumption DEF EnqueueBackground
<1>4. /\ state[r] = "running" /\ state[b] = "new" /\ Enqueue(KeyOf[b], b)
      /\ state' = [state EXCEPT ![r] = "awaiting", ![b] = "queued"]
  BY <1>2 DEF EnqueueBackground
<1>5. /\ state' \in [Requests -> RequestStates] /\ state'[b] = "queued"
      /\ \A q \in Requests : q # b /\ KeyOf[q] # NoKey => state'[q] = state[q]
      /\ \A q \in Requests : HoldsToken(q)' => HoldsToken(q)
  BY <1>1, <1>3, <1>4 DEF RequestStates, HoldsToken
<1> QED  BY <1>3, <1>4, <1>5, EnqueueInv

\* The steps of a request that is in no queue.
LEMMA RequestInv ==
    ASSUME QueueInv, NEW r \in Requests,
           SpawnRequest(r) \/ Start(r) \/ Resume(r) \/ Finish(r)
    PROVE  QueueInv'
<1>1. TypeOK /\ NoOrphanedRequest /\ DrainedGateIsQuiet
  BY DEF QueueInv
<1>2. UNCHANGED <<queue, drainer, batch, permit, order, gate>>
  BY DEF SpawnRequest, Start, Resume, Finish
<1>3. /\ state' \in [Requests -> RequestStates]
      /\ \A q \in Requests : KeyOf[q] # NoKey =>
            \/ state'[q] = state[q]
            \/ /\ state[q] \in {"launched", "running", "awaiting"}
               /\ state'[q] # "new"
  BY <1>1 DEF TypeOK, RequestStates, SpawnRequest, Start, Resume, Finish
<1>4. TypeOK' /\ NoOrphanedRequest'
  BY <1>1, <1>2, <1>3 DEF TypeOK, NoOrphanedRequest
<1>5. \A k \in Keys : LineInv(k)'
  BY <1>2, <1>3, QuietLines
<1>6. \A q \in Requests : HoldsToken(q)' =>
         HoldsToken(q) \/ ConnOf[q] = NoConn \/ gate[ConnOf[q]] = "accepting"
  BY <1>1 DEF TypeOK, HoldsToken, SpawnRequest, Start, Resume, Finish
<1>7. DrainedGateIsQuiet'
  BY <1>1, <1>2, <1>6, RequestsAssumption DEF DrainedGateIsQuiet
<1> QED  BY <1>4, <1>5, <1>7 DEF QueueInv

\* The steps of a drain task that take nothing from its queue.
LEMMA DrainerInv ==
    ASSUME QueueInv, NEW k \in Keys,
           RemoveQueue(k) \/ WakeForReads(k) \/ \E r \in Requests : Collect(k, r)
    PROVE  QueueInv'
<1>1. TypeOK /\ NoOrphanedRequest /\ DrainedGateIsQuiet
  BY DEF QueueInv
<1>2. DrainedGateIsQuiet'
  BY <1>1 DEF DrainedGateIsQuiet, RemoveQueue, WakeForReads, Collect, HoldsToken
<1>3. CASE RemoveQueue(k)
  <2>1. TypeOK' /\ NoOrphanedRequest'
    BY <1>1, <1>3 DEF TypeOK, NoOrphanedRequest, RemoveQueue, DrainerStates
  <2>2. \A h \in Keys : LineInv(h)'
    BY <1>1, <1>3, QuietLines DEF RemoveQueue, TypeOK
  <2> QED  BY <1>2, <2>1, <2>2 DEF QueueInv
<1>4. CASE WakeForReads(k)
  <2>1. TypeOK' /\ NoOrphanedRequest'
    BY <1>1, <1>4 DEF TypeOK, NoOrphanedRequest, WakeForReads, DrainerStates
  <2>2. \A h \in Keys : LineInv(h)'
    BY <1>1, <1>4, QuietLines DEF WakeForReads, TypeOK
  <2> QED  BY <1>2, <2>1, <2>2 DEF QueueInv
<1>5. ASSUME NEW r \in Requests, Collect(k, r)  PROVE QueueInv'
  <2>1. TypeOK' /\ NoOrphanedRequest'
    BY <1>1, <1>5 DEF TypeOK, NoOrphanedRequest, Collect, DrainerStates
  <2>2. \A h \in Keys : LineInv(h)'
    BY <1>5, CollectLines
  <2> QED  BY <1>2, <2>1, <2>2 DEF QueueInv
<1> QED  BY <1>3, <1>4, <1>5

\* The steps that launch requests.
LEMMA LaunchesInv ==
    ASSUME QueueInv, NEW k \in Keys,
           PopExclusive(k) \/ PopReads(k) \/ AdmitReads(k)
    PROVE  QueueInv'
<1>1. TypeOK /\ queue[k] \in Seq(Requests) /\ LineInv(k)
  BY DEF QueueInv, TypeOK
<1>2. /\ drainer[k] = "pop" => batch[k] = {}
      /\ drainer[k] = "admit" => batch[k] # {} /\ batch[k] \subseteq Shared
  BY <1>1 DEF TypeOK, LineInv, ReadBatch
<1>3. LeadingReads(queue[k]) \in 0..Len(queue[k])
  BY <1>1, LeadingReadsExact
<1>4. CASE PopExclusive(k)
  <2>1. 1 \in 0..Len(queue[k])
    BY <1>1, <1>4 DEF PopExclusive
  <2> QED  BY <1>2, <1>4, <2>1, LaunchInv DEF PopExclusive
<1>5. CASE PopReads(k)
  <2>1. LeadingReads(queue[k]) >= 1
    BY <1>1, <1>5, LeadingReadsPositive DEF PopReads
  <2> QED  BY <1>2, <1>3, <1>5, <2>1, LaunchInv DEF PopReads
<1>6. CASE AdmitReads(k)
  BY <1>2, <1>3, <1>6, LaunchInv DEF AdmitReads
<1> QED  BY <1>4, <1>5, <1>6

\* A connection closes.
LEMMA GateInv ==
    ASSUME QueueInv, NEW c \in Conns,
           CloseGate(c) \/ ShutdownGate(c) \/ DrainTimeout(c)
    PROVE  QueueInv'
<1>1. TypeOK /\ NoOrphanedRequest /\ DrainedGateIsQuiet
  BY DEF QueueInv
<1>2. UNCHANGED <<queue, drainer, batch, permit, state, order>>
  BY DEF CloseGate, ShutdownGate, DrainTimeout
<1>3. TypeOK' /\ NoOrphanedRequest'
  BY <1>1, <1>2 DEF TypeOK, GateStates, NoOrphanedRequest, CloseGate, ShutdownGate,
                    DrainTimeout
<1>4. \A k \in Keys : LineInv(k)'
  BY <1>2, QuietLines
<1>5. DrainedGateIsQuiet'
  BY <1>1 DEF TypeOK, DrainedGateIsQuiet, HoldsToken, CloseGate, ShutdownGate,
              DrainTimeout
<1> QED  BY <1>3, <1>4, <1>5 DEF QueueInv

\* Nothing changes.
LEMMA StutterInv ==
    ASSUME QueueInv, UNCHANGED vars
    PROVE  QueueInv'
<1>1. TypeOK' /\ NoOrphanedRequest' /\ DrainedGateIsQuiet'
  BY DEF QueueInv, vars, TypeOK, NoOrphanedRequest, DrainedGateIsQuiet, HoldsToken
<1>2. \A k \in Keys : LineInv(k)'
  BY QuietLines DEF vars
<1> QED  BY <1>1, <1>2 DEF QueueInv

\* Every step keeps the invariant.
LEMMA NextInv ==
    ASSUME QueueInv, [Next]_vars
    PROVE  QueueInv'
<1>1. CASE Next
  BY <1>1, EnqueueRequestInv, EnqueueBackgroundInv, RequestInv, DrainerInv,
     LaunchesInv, GateInv DEF Next, DrainStep
<1>2. CASE UNCHANGED vars
  BY <1>2, StutterInv
<1> QED  BY <1>1, <1>2

(***************************************************************************)
(* The theorems.                                                           *)
(***************************************************************************)
\* The inductive invariant holds in every reachable state.
THEOREM QueueInvariance == Spec => []QueueInv
BY InitInv, NextInv, PTL DEF Spec

\* The queues, batches, permits and gates have their types, and a drain task
\* is in a running state exactly while it has requests to run.
THEOREM QueueTypes == Spec => []TypeOK
<1>1. QueueInv => TypeOK
  BY DEF QueueInv
<1> QED  BY <1>1, QueueInvariance, PTL

\* No queued request is without a drain task, and no read in front of running
\* reads without a wake-up (drain, enqueue).
THEOREM NoOrphans == Spec => []NoOrphanedRequest
<1>1. QueueInv => NoOrphanedRequest
  BY DEF QueueInv
<1> QED  BY <1>1, QueueInvariance, PTL

\* After ConnectionRpcGate::shutdown no handler of the connection runs.
THEOREM QuietAfterDrain == Spec => []DrainedGateIsQuiet
<1>1. QueueInv => DrainedGateIsQuiet
  BY DEF QueueInv
<1> QED  BY <1>1, QueueInvariance, PTL

\* A request that has been launched has only ended requests and, if it is a
\* read, running reads before it.
LEMMA OnlyReadsOverlap ==
    ASSUME QueueInv, NEW k \in Keys,
           NEW i \in 1..Len(order[k]), NEW j \in 1..Len(order[k]), i < j,
           state[order[k][j]] # "queued"
    PROVE  \/ Ended(order[k][i])
           \/ order[k][i] \in Shared /\ order[k][j] \in Shared
<1>1. /\ IsSuffix(k) /\ Served(k) /\ ReadsBehindReads(k)
      /\ order[k] \in Seq(Requests) /\ queue[k] \in Seq(Requests)
  BY DEF QueueInv, TypeOK, LineInv
<1>2. PICK m \in Nat : m = TakenOf(k)
  <2>1. Len(queue[k]) <= Len(order[k])
    BY <1>1 DEF IsSuffix
  <2>2. Len(order[k]) - Len(queue[k]) \in Nat
    BY <1>1, <2>1
  <2> QED  BY <2>2 DEF TakenOf
<1>3. j <= m
  <2>1. ~(j > m)
    BY <1>1, <1>2 DEF Served
  <2> QED  BY <1>1, <2>1
<1>4. i <= m
  BY <1>1, <1>3
<1>5. order[k][i] \in batch[k] \/ Ended(order[k][i])
  BY <1>1, <1>2, <1>4 DEF Served
<1> QED  BY <1>1, <1>2, <1>3, <1>5 DEF ReadsBehindReads

\* Requests of one key take effect in arrival order, reads excepted.
THEOREM ArrivalOrder == Spec => []SerialOrder
<1>1. QueueInv => SerialOrder
  <2> SUFFICES ASSUME QueueInv, NEW k \in Keys,
                      NEW i \in DOMAIN order[k], NEW j \in DOMAIN order[k], i < j,
                      {order[k][i], order[k][j]} \cap (Requests \ Shared) # {},
                      Begun(order[k][j])
               PROVE  Ended(order[k][i])
    BY DEF SerialOrder
  <2>1. order[k] \in Seq(Requests)
    BY DEF QueueInv, TypeOK
  <2>2. i \in 1..Len(order[k]) /\ j \in 1..Len(order[k])
    BY <2>1
  <2>3. state[order[k][j]] # "queued"
    BY DEF Begun
  <2> QED  BY <2>2, <2>3, OnlyReadsOverlap
<1> QED  BY <1>1, QueueInvariance, PTL
(***************************************************************************)
(* The refinement of SerialService, step by step.                          *)
(***************************************************************************)

\* What a request looks like from outside.
PhaseOf(s) ==
    CASE s \in {"queued", "launched"} -> "waiting"
      [] s \in {"running", "awaiting"} -> "running"
      [] OTHER -> s

\* The refinement mapping, request by request.
LEMMA PhaseFunction == Phase = [r \in Requests |-> PhaseOf(state[r])]
BY DEF Phase, PhaseOf

\* The phase of every request state.
LEMMA PhaseValues ==
    /\ PhaseOf("new") = "new" /\ PhaseOf("queued") = "waiting"
    /\ PhaseOf("launched") = "waiting" /\ PhaseOf("running") = "running"
    /\ PhaseOf("awaiting") = "running" /\ PhaseOf("done") = "done"
    /\ PhaseOf("skipped") = "skipped"
BY DEF PhaseOf

\* A step that changes what one request looks like.
LEMMA PhaseChanges ==
    ASSUME NEW r \in Requests,
           \A q \in Requests \ {r} : PhaseOf(state'[q]) = PhaseOf(state[q])
    PROVE  Phase' = [Phase EXCEPT ![r] = PhaseOf(state'[r])]
<1>1. Phase' = [q \in Requests |-> PhaseOf(state'[q])]
  BY DEF Phase, PhaseOf
<1> QED  BY <1>1, PhaseFunction

\* A step that changes what no request looks like.
LEMMA PhaseSame ==
    ASSUME \A q \in Requests : PhaseOf(state'[q]) = PhaseOf(state[q])
    PROVE  Phase' = Phase
<1>1. Phase' = [q \in Requests |-> PhaseOf(state'[q])]
  BY DEF Phase, PhaseOf
<1> QED  BY <1>1, PhaseFunction

\* enqueue, and the spawn of a request without a key, is its arrival.
LEMMA ArriveStep ==
    ASSUME QueueInv, NEW r \in Requests, EnqueueRequest(r) \/ SpawnRequest(r)
    PROVE  Service!Arrive(r)
<1>1. state \in [Requests -> RequestStates] /\ state[r] = "new"
  BY DEF QueueInv, TypeOK, EnqueueRequest, SpawnRequest
<1>2. /\ state'[r] \in {"queued", "launched"}
      /\ \A q \in Requests \ {r} : state'[q] = state[q]
  BY <1>1 DEF EnqueueRequest, SpawnRequest
<1>3. Phase[r] = "new" /\ Phase' = [Phase EXCEPT ![r] = "waiting"]
  BY <1>1, <1>2, PhaseFunction, PhaseChanges, PhaseValues
<1>4. order' = IF KeyOf[r] = NoKey THEN order
               ELSE [order EXCEPT ![KeyOf[r]] = Append(@, r)]
  BY DEF EnqueueRequest, SpawnRequest, Enqueue
<1> QED  BY <1>3, <1>4 DEF Service!Arrive

\* Background work arrives when its handler enqueues it.
LEMMA ArriveBackground ==
    ASSUME QueueInv, NEW r \in Requests, EnqueueBackground(r)
    PROVE  AwaitOf[r] \in Requests /\ Service!Arrive(AwaitOf[r])
<1>1. PICK b : b = AwaitOf[r]
  OBVIOUS
<1>2. b \in Requests /\ KeyOf[b] # NoKey
  BY <1>1, RequestsAssumption DEF EnqueueBackground
<1>3. /\ state[r] = "running" /\ state[b] = "new"
      /\ state' = [state EXCEPT ![r] = "awaiting", ![b] = "queued"]
      /\ order' = [order EXCEPT ![KeyOf[b]] = Append(@, b)]
      /\ state \in [Requests -> RequestStates]
  BY <1>1 DEF EnqueueBackground, Enqueue, QueueInv, TypeOK
<1>4. /\ state'[b] = "queued" /\ state'[r] = "awaiting"
      /\ \A q \in Requests \ {b, r} : state'[q] = state[q]
  BY <1>2, <1>3
<1>5. \A q \in Requests \ {b} : PhaseOf(state'[q]) = PhaseOf(state[q])
  BY <1>3, <1>4, PhaseValues
<1>6. Phase[b] = "new" /\ Phase' = [Phase EXCEPT ![b] = "waiting"]
  BY <1>2, <1>3, <1>4, <1>5, PhaseFunction, PhaseChanges, PhaseValues
<1>7. Service!Arrive(b)
  BY <1>2, <1>3, <1>6 DEF Service!Arrive
<1> QED  BY <1>1, <1>2, <1>7

\* Run or skipped: the request's turn has come.
LEMMA BeginStep ==
    ASSUME QueueInv, NEW r \in Requests, Start(r)
    PROVE  Service!Begin(r)
<1>1. /\ state \in [Requests -> RequestStates] /\ state[r] = "launched"
      /\ order' = order /\ order \in [Keys -> Seq(Requests)]
  BY DEF QueueInv, TypeOK, Start
<1>2. /\ state'[r] \in {"running", "skipped"}
      /\ \A q \in Requests \ {r} : state'[q] = state[q]
  BY <1>1 DEF Start
<1>3. PhaseOf(state'[r]) \in {"running", "skipped"} /\ Phase[r] = "waiting"
  BY <1>1, <1>2, PhaseFunction, PhaseValues
<1>4. Phase' = [Phase EXCEPT ![r] = PhaseOf(state'[r])]
  BY <1>2, PhaseChanges
<1>5. Service!MayBegin(r)
  <2> SUFFICES ASSUME KeyOf[r] # NoKey,
                      NEW i \in DOMAIN order[KeyOf[r]],
                      NEW j \in DOMAIN order[KeyOf[r]],
                      i < j, order[KeyOf[r]][j] = r
               PROVE  \/ Phase[order[KeyOf[r]][i]] \in {"done", "skipped"}
                      \/ r \in Shared /\ order[KeyOf[r]][i] \in Shared
    BY DEF Service!MayBegin
  <2>1. PICK k \in Keys : k = KeyOf[r]
    BY RequestsAssumption
  <2>2. i \in 1..Len(order[k]) /\ j \in 1..Len(order[k]) /\ order[k][i] \in Requests
    BY <1>1, <2>1
  <2>3. state[order[k][j]] # "queued"
    BY <1>1, <2>1
  <2>4. \/ Ended(order[k][i])
        \/ order[k][i] \in Shared /\ order[k][j] \in Shared
    BY <2>2, <2>3, OnlyReadsOverlap
  <2>5. Ended(order[k][i]) => Phase[order[k][i]] \in {"done", "skipped"}
    BY <2>2, PhaseFunction, PhaseValues DEF Ended
  <2> QED  BY <2>1, <2>4, <2>5
<1> QED  BY <1>1, <1>3, <1>4, <1>5 DEF Service!Begin

\* A handler that returns ends its request.
LEMMA EndStep ==
    ASSUME QueueInv, NEW r \in Requests, Finish(r)
    PROVE  Service!End(r)
<1>1. /\ state \in [Requests -> RequestStates] /\ state[r] = "running"
      /\ order' = order
      /\ state'[r] = "done" /\ \A q \in Requests \ {r} : state'[q] = state[q]
  BY DEF QueueInv, TypeOK, Finish
<1>2. Phase[r] = "running" /\ Phase' = [Phase EXCEPT ![r] = "done"]
  BY <1>1, PhaseFunction, PhaseChanges, PhaseValues
<1> QED  BY <1>1, <1>2 DEF Service!End

\* Taking requests from a queue is invisible: they wait before and after.
LEMMA LaunchInvisible ==
    ASSUME QueueInv, NEW k \in Keys, NEW n \in 0..Len(queue[k]), NEW next,
           Launch(k, n, next)
    PROVE  Phase' = Phase
<1>1. /\ IsSuffix(k) /\ Served(k) /\ order[k] \in Seq(Requests)
      /\ queue[k] \in Seq(Requests)
  BY DEF QueueInv, TypeOK, LineInv
<1>2. PICK m \in Nat : m = TakenOf(k) /\ Len(order[k]) = m + Len(queue[k])
  <2>1. PICK lo \in Nat : lo = Len(order[k])
    BY <1>1
  <2>2. PICK lq \in Nat : lq = Len(queue[k])
    BY <1>1
  <2>3. lq <= lo /\ TakenOf(k) = lo - lq
    BY <1>1, <2>1, <2>2 DEF IsSuffix, TakenOf
  <2>4. lo - lq \in Nat /\ lo = (lo - lq) + lq
    BY <2>3
  <2> QED  BY <2>1, <2>2, <2>3, <2>4
<1>3. ASSUME NEW i \in 1..n  PROVE state[queue[k][i]] = "queued"
  <2>1. PICK lq \in Nat : lq = Len(queue[k])
    BY <1>1
  <2>2. i \in 1..lq /\ m + i \in 1..(m + lq) /\ m + i > m
    BY <2>1
  <2>3. queue[k][i] = order[k][m + i]
    BY <1>1, <1>2, <2>1, <2>2 DEF IsSuffix
  <2> QED  BY <1>1, <1>2, <2>1, <2>2, <2>3 DEF Served
<1>4. PICK taken : taken = {queue[k][i] : i \in 1..n}
  OBVIOUS
<1>5. /\ \A r \in taken : state[r] = "queued"
      /\ state' = [r \in Requests |-> IF r \in taken THEN "launched" ELSE state[r]]
  BY <1>3, <1>4 DEF Launch
<1>6. \A r \in Requests : PhaseOf(state'[r]) = PhaseOf(state[r])
  BY <1>5, PhaseValues
<1> QED  BY <1>6, PhaseSame

\* What a drain task does is invisible: it only decides who may run.
LEMMA DrainInvisible ==
    ASSUME QueueInv, NEW k \in Keys, DrainStep(k)
    PROVE  UNCHANGED <<order, Phase>>
<1>1. queue[k] \in Seq(Requests)
  BY DEF QueueInv, TypeOK
<1>2. LeadingReads(queue[k]) \in 0..Len(queue[k])
  BY <1>1, LeadingReadsExact
<1>3. UNCHANGED order
  BY DEF DrainStep, RemoveQueue, PopExclusive, PopReads, WakeForReads, AdmitReads,
         Collect
<1>4. CASE PopExclusive(k)
  <2>1. 1 \in 0..Len(queue[k])
    BY <1>1, <1>4 DEF PopExclusive
  <2> QED  BY <1>3, <1>4, <2>1, LaunchInvisible DEF PopExclusive
<1>5. CASE PopReads(k) \/ AdmitReads(k)
  BY <1>2, <1>3, <1>5, LaunchInvisible DEF PopReads, AdmitReads
<1>6. CASE UNCHANGED state
  BY <1>3, <1>6, PhaseSame
<1>7. UNCHANGED state \/ PopExclusive(k) \/ PopReads(k) \/ AdmitReads(k)
  BY DEF DrainStep, RemoveQueue, WakeForReads, Collect
<1> QED  BY <1>4, <1>5, <1>6, <1>7

\* A handler that goes on after its background work was running all along.
LEMMA ResumeInvisible ==
    ASSUME QueueInv, NEW r \in Requests, Resume(r)
    PROVE  UNCHANGED <<order, Phase>>
<1>1. /\ state \in [Requests -> RequestStates] /\ state[r] = "awaiting"
      /\ order' = order
      /\ state'[r] = "running" /\ \A q \in Requests \ {r} : state'[q] = state[q]
  BY DEF QueueInv, TypeOK, Resume
<1>2. \A q \in Requests : PhaseOf(state'[q]) = PhaseOf(state[q])
  BY <1>1, PhaseValues
<1> QED  BY <1>1, <1>2, PhaseSame

\* Every step is a step of the service or invisible.
LEMMA ServiceStep ==
    ASSUME QueueInv, [Next]_vars
    PROVE  [Service!ServiceNext]_(Service!svars)
<1>1. ASSUME NEW r \in Requests, EnqueueRequest(r) \/ SpawnRequest(r)
      PROVE  Service!ServiceNext
  BY <1>1, ArriveStep DEF Service!ServiceNext
<1>2. ASSUME NEW r \in Requests, EnqueueBackground(r)
      PROVE  Service!ServiceNext
  BY <1>2, ArriveBackground DEF Service!ServiceNext
<1>3. ASSUME NEW r \in Requests, Start(r) \/ Finish(r)
      PROVE  Service!ServiceNext
  BY <1>3, BeginStep, EndStep DEF Service!ServiceNext
<1>4. ASSUME NEW r \in Requests, Resume(r)
      PROVE  UNCHANGED Service!svars
  BY <1>4, ResumeInvisible DEF Service!svars
<1>5. ASSUME NEW k \in Keys, DrainStep(k)
      PROVE  UNCHANGED Service!svars
  BY <1>5, DrainInvisible DEF Service!svars
<1>6. CASE UNCHANGED <<order, state>>
  BY <1>6, PhaseSame DEF Service!svars
<1>7. ASSUME NEW c \in Conns, CloseGate(c) \/ ShutdownGate(c) \/ DrainTimeout(c)
      PROVE  UNCHANGED <<order, state>>
  BY <1>7 DEF CloseGate, ShutdownGate, DrainTimeout
<1>8. CASE UNCHANGED vars
  BY <1>6, <1>8 DEF vars
<1> QED  BY <1>1, <1>2, <1>3, <1>4, <1>5, <1>6, <1>7, <1>8 DEF Next

\* The queues, drain tasks and gates implement the serial service.
THEOREM QueuesImplementService == Spec => ImplementsService
<1>1. Init => Service!ServiceInit
  BY PhaseFunction, PhaseValues DEF Init, Service!ServiceInit
<1>2. QueueInv /\ [Next]_vars => [Service!ServiceNext]_(Service!svars)
  BY ServiceStep
<1> QED  BY <1>1, <1>2, QueueInvariance, PTL
            DEF Spec, ImplementsService, Service!ServiceSpec
=============================================================================
