------------------------- MODULE CommandLanesProofs -------------------------
(***************************************************************************)
(* Proofs about CommandLanes for every set of lanes and every bound.       *)
(***************************************************************************)
EXTENDS CommandLanes, FiniteSetTheorems, FunctionTheorems, TLAPS


-----------------------------------------------------------------------------
(* The pump loop.                                                          *)

LEMMA EntriesFinite ==
  ASSUME NEW S \in SUBSET Entries
  PROVE  IsFiniteSet(S) /\ Cardinality(S) \in Nat
<1>1. IsFiniteSet(1..MaxEntries)
  BY FS_Interval, BoundsAssumption
<1>2. IsFiniteSet(S)
  BY <1>1, FS_Subset DEF Entries
<1>3. QED
  BY <1>2, FS_CardinalityType

LEMMA StartCountBounds ==
  ASSUME NEW q \in Seq(Entries), NEW slots \in SUBSET Entries, NEW limit \in Nat
  PROVE  /\ StartCount(q, slots, limit) \in 0..Len(q)
         /\ StartCount(q, slots, limit) > 0 =>
              Cardinality(slots) + StartCount(q, slots, limit) <= limit
         /\ StartCount(q, slots, limit) < Len(q) =>
              Cardinality(slots) + StartCount(q, slots, limit) >= limit
<1>1. Cardinality(slots) \in Nat
  BY EntriesFinite
<1>2. QED
  BY <1>1 DEF StartCount

\* What a pump leaves in the queue is a suffix of it.
LEMMA StillQueuedIsSuffix ==
  ASSUME NEW q \in Seq(Entries), NEW slots \in SUBSET Entries, NEW limit \in Nat
  PROVE  /\ StillQueued(q, slots, limit) \in Seq(Entries)
         /\ Len(StillQueued(q, slots, limit)) = Len(q) - StartCount(q, slots, limit)
         /\ \A i \in 1..Len(StillQueued(q, slots, limit)) :
              /\ i + StartCount(q, slots, limit) \in 1..Len(q)
              /\ StillQueued(q, slots, limit)[i] = q[i + StartCount(q, slots, limit)]
<1> DEFINE n == StartCount(q, slots, limit)
<1>0. n \in 0..Len(q)
  BY StartCountBounds
<1>1. n \in 0..Len(q) /\ Len(q) \in Nat
  BY <1>0
<1> HIDE DEF n
<1>2. SubSeq(q, n + 1, Len(q)) \in Seq(Entries)
  BY <1>1
<1>3. Len(SubSeq(q, n + 1, Len(q))) = Len(q) - n
  BY <1>1
<1>4. \A i \in 1..(Len(q) - n) : SubSeq(q, n + 1, Len(q))[i] = q[i + n]
  <2> SUFFICES ASSUME NEW i \in 1..(Len(q) - n)
               PROVE  SubSeq(q, n + 1, Len(q))[i] = q[i + n]
    OBVIOUS
  <2>1. SubSeq(q, n + 1, Len(q))[i] = q[(n + 1) + i - 1]
    BY <1>1
  <2>2. (n + 1) + i - 1 = i + n
    BY <1>1
  <2>3. QED
    BY <2>1, <2>2
<1>5. StillQueued(q, slots, limit) = SubSeq(q, n + 1, Len(q))
  BY DEF StillQueued, n
<1> DEFINE r == SubSeq(q, n + 1, Len(q))
<1> HIDE DEF r
<1>6. /\ r \in Seq(Entries) /\ Len(r) = Len(q) - n
      /\ \A i \in 1..(Len(q) - n) : r[i] = q[i + n]
  BY <1>2, <1>3, <1>4 DEF r
<1>7. \A i \in 1..Len(r) : i + n \in 1..Len(q) /\ r[i] = q[i + n]
  BY <1>1, <1>6
<1>8. QED
  BY <1>5, <1>6, <1>7 DEF r, n

LEMMA StartsAreQueued ==
  ASSUME NEW q \in Seq(Entries), NEW slots \in SUBSET Entries, NEW limit \in Nat
  PROVE  /\ Starts(q, slots, limit) \in SUBSET Entries
         /\ \A e \in Starts(q, slots, limit) : \E i \in 1..Len(q) : q[i] = e
<1> DEFINE n == StartCount(q, slots, limit)
<1>0. n \in 0..Len(q)
  BY StartCountBounds
<1>1. n \in 0..Len(q) /\ Len(q) \in Nat
  BY <1>0
<1> HIDE DEF n
<1>2. \A i \in 1..n : i \in 1..Len(q) /\ q[i] \in Entries
  BY <1>1
<1>3. QED
  BY <1>2 DEF Starts, n

Ascending(q) == \A i, j \in 1..Len(q) : i < j => q[i] < q[j]

\* The queue q is split into the queue r that stays and the set b that starts:
\* every entry is in one of them, none in both, the order of r is that of q.
Splits(q, r, b) ==
  /\ Ascending(r)
  /\ \A i \in 1..Len(r) : r[i] \notin b /\ \E j \in 1..Len(q) : q[j] = r[i]
  /\ \A i \in 1..Len(q) : q[i] \in b \/ \E j \in 1..Len(r) : r[j] = q[i]

LEMMA PumpSplitsQueue ==
  ASSUME NEW q \in Seq(Entries), NEW slots \in SUBSET Entries, NEW limit \in Nat,
         Ascending(q)
  PROVE  Splits(q, StillQueued(q, slots, limit), Starts(q, slots, limit))
<1> DEFINE n == StartCount(q, slots, limit)
           r == StillQueued(q, slots, limit)
<1>0. n \in 0..Len(q)
  BY StartCountBounds
<1>1. n \in 0..Len(q) /\ Len(q) \in Nat
  BY <1>0
<1>2. /\ r \in Seq(Entries)
      /\ Len(r) = Len(q) - n
      /\ \A i \in 1..Len(r) : i + n \in 1..Len(q) /\ r[i] = q[i + n]
  BY StillQueuedIsSuffix
<1>3. Starts(q, slots, limit) = {q[i] : i \in 1..n}
  BY DEF Starts
<1> HIDE DEF n, r
<1>4. \A i \in 1..Len(q) : q[i] \in Int
  BY BoundsAssumption DEF Entries
<1>5. Ascending(r)
  BY <1>1, <1>2 DEF Ascending
<1>6. \A i \in 1..Len(r) : r[i] \notin Starts(q, slots, limit)
  <2> SUFFICES ASSUME NEW i \in 1..Len(r), NEW k \in 1..n, r[i] = q[k]
               PROVE  FALSE
    BY <1>3
  <2>1. k < i + n /\ k \in 1..Len(q) /\ i + n \in 1..Len(q)
    BY <1>1, <1>2
  <2>2. q[k] < q[i + n]
    BY <2>1 DEF Ascending
  <2>3. QED
    BY <2>1, <2>2, <1>2, <1>4
<1>7. \A i \in 1..Len(q) : q[i] \in Starts(q, slots, limit) \/ \E j \in 1..Len(r) : r[j] = q[i]
  <2> SUFFICES ASSUME NEW i \in 1..Len(q), ~(i \in 1..n)
               PROVE  \E j \in 1..Len(r) : r[j] = q[i]
    BY <1>3
  <2>1. i - n \in 1..Len(r) /\ (i - n) + n = i
    BY <1>1, <1>2
  <2>2. QED
    BY <2>1, <1>2
<1>8. \A i \in 1..Len(r) : \E j \in 1..Len(q) : q[j] = r[i]
  BY <1>2
<1>9. QED
  BY <1>5, <1>6, <1>7, <1>8 DEF r, Splits

-----------------------------------------------------------------------------
(* The invariant, as a relation between the queues, active ids,            *)
(* generations, tasks in flight, their generations, lanes and outcomes: it *)
(* is used for the state before a step, for the values a handler pumps     *)
(* from, and for the state after the step.                                 *)

QueuesSound(q, run, lane, out) ==
  \A l \in Lanes :
    /\ Ascending(q[l])
    /\ \A i \in 1..Len(q[l]) :
         lane[q[l][i]] = l /\ q[l][i] \notin run /\ out[q[l][i]] = "pending"

TasksSound(gen, run, tg, lane, out) ==
  \A e \in run : lane[e] \in Lanes /\ out[e] = "pending" /\ tg[e] <= gen[lane[e]]

SlotsSound(act, gen, run, tg, lane) ==
  \A l \in Lanes : act[l] = {e \in run : lane[e] = l /\ tg[e] = gen[l]}

NoneForgotten(q, run, out) ==
  \A e \in Entries : out[e] = "pending" =>
    e \in run \/ \E l \in Lanes : \E i \in 1..Len(q[l]) : q[l][i] = e

Sound(q, act, gen, run, tg, lane, out) ==
  /\ QueuesSound(q, run, lane, out)
  /\ TasksSound(gen, run, tg, lane, out)
  /\ SlotsSound(act, gen, run, tg, lane)
  /\ NoneForgotten(q, run, out)

Typed(q, act, gen, run, tg) ==
  /\ q \in [Lanes -> Seq(Entries)]
  /\ act \in [Lanes -> SUBSET Entries]
  /\ gen \in [Lanes -> 0..MaxResets]
  /\ run \in SUBSET Entries
  /\ tg \in [Entries -> 0..MaxResets]

\* The pump keeps the invariant.
LEMMA DrainLanesSound ==
  ASSUME NEW L \in SUBSET Lanes, NEW q, NEW act, NEW max \in [Lanes -> Nat],
         NEW gen, NEW run, NEW lane, NEW out,
         Typed(q, act, gen, run, taskGeneration),
         Sound(q, act, gen, run, taskGeneration, lane, out),
         DrainLanes(L, q, act, max, gen, run)
  PROVE  /\ Typed(queue', active', gen, running', taskGeneration')
         /\ Sound(queue', active', gen, running', taskGeneration', lane, out)
<1> DEFINE B(l) == IF l \in L THEN Starts(q[l], act[l], max[l]) ELSE {}
<1> USE DEF Typed
<1>1. /\ queue' = [l \in Lanes |-> IF l \in L THEN StillQueued(q[l], act[l], max[l]) ELSE q[l]]
      /\ active' = [l \in Lanes |-> act[l] \cup B(l)]
      /\ running' = run \cup UNION {B(l) : l \in Lanes}
      /\ taskGeneration' = [e \in Entries |->
           IF \E l \in Lanes : e \in B(l) THEN gen[CHOOSE l \in Lanes : e \in B(l)]
           ELSE taskGeneration[e]]
  BY DEF DrainLanes
<1>2. ASSUME NEW l \in Lanes
      PROVE  q[l] \in Seq(Entries) /\ act[l] \in SUBSET Entries /\ max[l] \in Nat /\ Ascending(q[l])
  BY DEF Sound, QueuesSound
<1>3. ASSUME NEW l \in Lanes
      PROVE  B(l) \in SUBSET Entries /\ \A e \in B(l) : \E i \in 1..Len(q[l]) : q[l][i] = e
  BY <1>2, StartsAreQueued
<1>4. ASSUME NEW l \in Lanes
      PROVE  queue'[l] \in Seq(Entries) /\ Splits(q[l], queue'[l], B(l))
  <2>1. CASE l \in L
    <3>1. queue'[l] = StillQueued(q[l], act[l], max[l]) /\ B(l) = Starts(q[l], act[l], max[l])
      BY <1>1, <2>1
    <3>2. StillQueued(q[l], act[l], max[l]) \in Seq(Entries)
      BY <1>2, StillQueuedIsSuffix
    <3>3. Splits(q[l], StillQueued(q[l], act[l], max[l]), Starts(q[l], act[l], max[l]))
      BY <1>2, PumpSplitsQueue
    <3> HIDE DEF B
    <3>4. QED
      BY <3>1, <3>2, <3>3
  <2>2. CASE l \notin L
    BY <1>1, <1>2, <2>2 DEF Splits
  <2>3. QED
    BY <2>1, <2>2
\* An entry that starts was queued in its own lane only.
<1>5. ASSUME NEW l \in Lanes, NEW e \in B(l)
      PROVE  /\ lane[e] = l /\ e \notin run /\ out[e] = "pending" /\ e \in Entries
             /\ taskGeneration'[e] = gen[l] /\ e \in running'
  <2> HIDE DEF B
  <2>1. lane[e] = l /\ e \notin run /\ out[e] = "pending" /\ e \in Entries
    <3>1. QueuesSound(q, run, lane, out)
      BY DEF Sound
    <3>2. PICK i \in 1..Len(q[l]) : q[l][i] = e
      BY <1>3
    <3>3. e \in Entries
      BY <1>3
    <3>4. QED
      BY <3>1, <3>2, <3>3 DEF QueuesSound
  <2>2. ASSUME NEW m \in Lanes, e \in B(m)
        PROVE  m = l
    <3>1. PICK i \in 1..Len(q[m]) : q[m][i] = e
      BY <1>3, <2>2
    <3>2. QED
      BY <2>1, <3>1 DEF Sound, QueuesSound
  <2>3. (CHOOSE m \in Lanes : e \in B(m)) = l
    BY <2>2
  <2>4. QED
    BY <1>1, <2>1, <2>3
<1> HIDE DEF B
<1>6. \A e \in running' : e \in run \/ \E l \in Lanes : e \in B(l)
  BY <1>1
<1>7. \A e \in run : e \in running' /\ taskGeneration'[e] = taskGeneration[e]
  BY <1>1, <1>5
<1>8. Typed(queue', active', gen, running', taskGeneration')
  <2>1. queue' \in [Lanes -> Seq(Entries)]
    BY <1>1, <1>4
  <2>2. active' \in [Lanes -> SUBSET Entries]
    BY <1>1, <1>3
  <2>3. running' \in SUBSET Entries
    BY <1>1, <1>3
  <2>4. \A e \in Entries : taskGeneration'[e] \in 0..MaxResets
    BY <1>1, <1>5
  <2>5. taskGeneration' \in [Entries -> 0..MaxResets]
    BY <1>1, <2>4
  <2>6. QED
    BY <2>1, <2>2, <2>3, <2>5
<1>9. QueuesSound(queue', running', lane, out)
  <2> SUFFICES ASSUME NEW l \in Lanes, NEW i \in 1..Len(queue'[l])
               PROVE  /\ lane[queue'[l][i]] = l
                      /\ queue'[l][i] \notin running'
                      /\ out[queue'[l][i]] = "pending"
    BY <1>4 DEF QueuesSound, Splits
  <2>0. PICK j \in 1..Len(q[l]) : q[l][j] = queue'[l][i]
    BY <1>4 DEF Splits
  <2>1. lane[queue'[l][i]] = l /\ queue'[l][i] \notin run /\ out[queue'[l][i]] = "pending"
    <3>1. QueuesSound(q, run, lane, out)
      BY DEF Sound
    <3>2. lane[q[l][j]] = l /\ q[l][j] \notin run /\ out[q[l][j]] = "pending"
      BY <3>1 DEF QueuesSound
    <3>3. QED
      BY <2>0, <3>2
  <2>2. QED
    BY <1>4, <1>5, <1>6, <2>1 DEF Splits
<1>10. TasksSound(gen, running', taskGeneration', lane, out)
  BY <1>5, <1>6, <1>7 DEF Sound, TasksSound
<1>11. SlotsSound(active', gen, running', taskGeneration', lane)
  <2> SUFFICES ASSUME NEW l \in Lanes
               PROVE  active'[l] = {e \in running' : lane[e] = l /\ taskGeneration'[e] = gen[l]}
    BY DEF SlotsSound
  <2>1. active'[l] = act[l] \cup B(l)
    BY <1>1
  <2>2. act[l] = {e \in run : lane[e] = l /\ taskGeneration[e] = gen[l]}
    BY DEF Sound, SlotsSound
  <2>3. QED
    BY <1>5, <1>6, <1>7, <2>1, <2>2
<1>12. NoneForgotten(queue', running', out)
  <2> SUFFICES ASSUME NEW e \in Entries, out[e] = "pending", e \notin running'
               PROVE  \E l \in Lanes : \E i \in 1..Len(queue'[l]) : queue'[l][i] = e
    BY DEF NoneForgotten
  <2>1. PICK l \in Lanes : \E i \in 1..Len(q[l]) : q[l][i] = e
    BY <1>7 DEF Sound, NoneForgotten
  <2>2. PICK i \in 1..Len(q[l]) : q[l][i] = e
    BY <2>1
  <2>3. q[l][i] \notin B(l)
    BY <1>5, <2>2
  <2>4. \E j \in 1..Len(queue'[l]) : queue'[l][j] = q[l][i]
    BY <1>4, <2>3 DEF Splits
  <2>5. QED
    BY <2>2, <2>4
<1>13. QED
  BY <1>8, <1>9, <1>10, <1>11, <1>12 DEF Sound

-----------------------------------------------------------------------------
(* The pump fills the free slots of a lane and no more.                    *)

LEMMA StartsCardinality ==
  ASSUME NEW q \in Seq(Entries), NEW slots \in SUBSET Entries, NEW limit \in Nat,
         Ascending(q)
  PROVE  Cardinality(Starts(q, slots, limit)) = StartCount(q, slots, limit)
<1> DEFINE n == StartCount(q, slots, limit)
           b == Starts(q, slots, limit)
           f == [i \in 1..n |-> q[i]]
<1>0. n \in 0..Len(q)
  BY StartCountBounds
<1>1. n \in Nat /\ \A i \in 1..n : i \in 1..Len(q) /\ q[i] \in Int
  BY <1>0, BoundsAssumption DEF Entries
<1>2. b = {q[i] : i \in 1..n}
  BY DEF Starts
<1> HIDE DEF n, b
<1>3. f \in [1..n -> b] /\ \A t \in b : \E i \in 1..n : f[i] = t
  BY <1>2
<1>4. \A i, j \in 1..n : f[i] = f[j] => i = j
  <2> SUFFICES ASSUME NEW i \in 1..n, NEW j \in 1..n, q[i] = q[j]
               PROVE  i = j
    OBVIOUS
  <2>1. (i < j => q[i] < q[j]) /\ (j < i => q[j] < q[i])
    BY <1>1 DEF Ascending
  <2>2. q[i] \in Int /\ q[j] \in Int /\ i \in Int /\ j \in Int
    BY <1>1
  <2>3. QED
    BY <2>1, <2>2
<1> HIDE DEF f
<1>5. f \in Bijection(1..n, b)
  BY <1>3, <1>4, Fun_IsBij
<1>6. ExistsBijection(1..n, b)
  BY <1>5 DEF ExistsBijection
<1>7. IsFiniteSet(1..n) /\ Cardinality(1..n) = n
  BY <1>1, FS_Interval
<1>8. Cardinality(b) = n
  BY <1>6, <1>7, FS_Bijection
<1>9. QED
  BY <1>8 DEF n, b

\* A lane with entries left has no free slot.
Busy(q, act, max, l) == q[l] # <<>> => Cardinality(act[l]) >= max[l]

\* What the pump of the lanes of L does from queues q and active ids act.
Filled(L, q, act, max) ==
  /\ \A l \in L : Busy(queue', active', max, l)
  /\ \A l \in L : active'[l] \subseteq act[l] \/ Cardinality(active'[l]) <= max[l]
  /\ \A l \in Lanes \ L : queue'[l] = q[l] /\ active'[l] = act[l]

LEMMA DrainLanesFills ==
  ASSUME NEW L \in SUBSET Lanes, NEW q, NEW act, NEW max \in [Lanes -> Nat],
         NEW gen, NEW run, NEW lane, NEW out,
         Typed(q, act, gen, run, taskGeneration),
         Sound(q, act, gen, run, taskGeneration, lane, out),
         DrainLanes(L, q, act, max, gen, run)
  PROVE  Filled(L, q, act, max)
<1>1. \A l \in Lanes \ L : queue'[l] = q[l] /\ active'[l] = act[l]
  BY DEF DrainLanes, Typed
<1>2. ASSUME NEW l \in L
      PROVE  /\ Busy(queue', active', max, l)
             /\ active'[l] \subseteq act[l] \/ Cardinality(active'[l]) <= max[l]
  <2> DEFINE n == StartCount(q[l], act[l], max[l])
             b == Starts(q[l], act[l], max[l])
             r == StillQueued(q[l], act[l], max[l])
             c == Cardinality(act[l])
  <2>1. queue'[l] = r /\ active'[l] = act[l] \cup b
    BY DEF DrainLanes, Typed
  <2>2. q[l] \in Seq(Entries) /\ act[l] \in SUBSET Entries /\ max[l] \in Nat /\ Ascending(q[l])
    BY DEF Typed, Sound, QueuesSound
  <2>3. b \in SUBSET Entries /\ \A e \in b : \E i \in 1..Len(q[l]) : q[l][i] = e
    BY <2>2, StartsAreQueued
  <2>4. Cardinality(b) = n
    BY <2>2, StartsCardinality
  <2>5. n \in 0..Len(q[l])
    BY <2>2, StartCountBounds
  <2>6. n > 0 => c + n <= max[l]
    BY <2>2, StartCountBounds
  <2>7. n < Len(q[l]) => c + n >= max[l]
    BY <2>2, StartCountBounds
  <2>8. r \in Seq(Entries)
    BY <2>2, StillQueuedIsSuffix
  <2>9. Len(r) = Len(q[l]) - n
    BY <2>2, StillQueuedIsSuffix
  <2>10. IsFiniteSet(b)
    BY <2>3, EntriesFinite
  <2>11. IsFiniteSet(act[l]) /\ c \in Nat
    BY <2>2, EntriesFinite
  <2> HIDE DEF n, r, b
  <2>12. act[l] \cap b = {}
    BY <2>3 DEF Sound, QueuesSound, SlotsSound
  <2>13. Cardinality(act[l] \cup b) = c + Cardinality(b) - Cardinality({})
    BY <2>10, <2>11, <2>12, FS_Union
  <2>14. Cardinality({}) = 0
    BY FS_EmptySet
  <2>15. Cardinality(act[l] \cup b) = c + n
    BY <2>4, <2>5, <2>11, <2>13, <2>14
  <2>16. n = 0 => b = {}
    BY <2>4, <2>10, FS_EmptySet
  <2>17. Busy(queue', active', max, l)
    <3>1. r # <<>> => n < Len(q[l])
      BY <2>2, <2>5, <2>8, <2>9
    <3>2. QED
      BY <2>1, <2>7, <2>15, <3>1 DEF Busy
  <2>18. active'[l] \subseteq act[l] \/ Cardinality(active'[l]) <= max[l]
    BY <2>1, <2>5, <2>6, <2>15, <2>16
  <2>19. QED
    BY <2>17, <2>18
<1>3. QED
  BY <1>1, <1>2 DEF Filled

-----------------------------------------------------------------------------
(* The inductive invariant of the specification.                           *)

\* Entries above arrivals have not been used.
ArrivalsSound == \A e \in Entries : e > arrivals => outcome[e] = "new"

IInv ==
  /\ TypeOK
  /\ Sound(queue, active, generation, running, taskGeneration, laneOf, outcome)
  /\ ArrivalsSound

\* What a step may do to the slots: it leaves no lane idle that was not, and a
\* lane that gets a task it did not have stays within its limit.
StepFills ==
  /\ NoIdleLane => NoIdleLane'
  /\ \A l \in Lanes :
       active'[l] \subseteq active[l] \/ Cardinality(active'[l]) <= maxConcurrent'[l]

LEMMA IInvTyped ==
  ASSUME IInv
  PROVE  /\ Typed(queue, active, generation, running, taskGeneration)
         /\ maxConcurrent \in [Lanes -> Nat]
  BY BoundsAssumption DEF IInv, TypeOK, Typed

LEMMA InitIInv == Init => IInv
<1> SUFFICES ASSUME Init PROVE IInv
  OBVIOUS
<1>1. TypeOK
  <2>1. /\ queue \in [Lanes -> Seq(Entries)] /\ active \in [Lanes -> SUBSET Entries]
        /\ running \in SUBSET Entries
    BY DEF Init
  <2>2. /\ maxConcurrent \in [Lanes -> 1..MaxLimit] /\ generation \in [Lanes -> 0..MaxResets]
        /\ taskGeneration \in [Entries -> 0..MaxResets] /\ arrivals \in 0..MaxEntries
    BY BoundsAssumption DEF Init
  <2>3. /\ laneOf \in [Entries -> Lanes \cup {NoLane}] /\ outcome \in [Entries -> Outcomes]
        /\ gatewayDraining \in BOOLEAN
    BY DEF Init, Outcomes
  <2>4. waiter \in [status : {"none", "waiting", "drained", "timedOut"}, ids : SUBSET Entries]
    BY DEF Init
  <2>5. QED
    BY <2>1, <2>2, <2>3, <2>4 DEF TypeOK
<1>2. \A l \in Lanes : Len(queue[l]) = 0
  BY DEF Init
<1>3. QED
  BY <1>1, <1>2 DEF Init, IInv, Sound, QueuesSound, TasksSound, SlotsSound,
                    NoneForgotten, ArrivalsSound, Ascending

\* An accepted entry is new and unknown to every lane; the lanes are pumped from a state
\* that keeps the invariant.
LEMMA EnqueuePumpsFrom ==
  ASSUME IInv, NEW l \in Lanes, EnqueueCommandInLane(l)
  PROVE  LET q2 == [queue EXCEPT ![l] = Append(@, arrivals + 1)]
         IN  /\ Typed(q2, active, generation, running, taskGeneration)
             /\ Sound(q2, active, generation, running, taskGeneration, laneOf', outcome')
             /\ arrivals + 1 \in Entries \ running /\ outcome[arrivals + 1] = "new"
             /\ \A m \in Lanes \ {l} : q2[m] = queue[m]
<1> DEFINE n == arrivals + 1
           q2 == [queue EXCEPT ![l] = Append(@, n)]
<1> USE DEF EnqueueCommandInLane
<1>1. /\ n \in Entries /\ outcome[n] = "new" /\ arrivals \in Nat /\ arrivals' = n
      /\ outcome \in [Entries -> Outcomes] /\ laneOf \in [Entries -> Lanes \cup {NoLane}]
  BY BoundsAssumption DEF IInv, TypeOK, ArrivalsSound, Entries
<1>2. /\ n \notin running
      /\ \A m \in Lanes : \A i \in 1..Len(queue[m]) : queue[m][i] # n
  BY <1>1 DEF IInv, Sound, QueuesSound, TasksSound
<1>3. \A m \in Lanes : queue[m] \in Seq(Entries) /\ Ascending(queue[m])
  BY DEF IInv, TypeOK, Sound, QueuesSound
<1>4. \A m \in Lanes : \A i \in 1..Len(queue[m]) : queue[m][i] \in Entries /\ queue[m][i] < n
  <2> SUFFICES ASSUME NEW m \in Lanes, NEW i \in 1..Len(queue[m])
               PROVE  queue[m][i] \in Entries /\ queue[m][i] < n
    OBVIOUS
  <2>1. queue[m][i] \in Entries
    BY <1>3
  <2>2. outcome[queue[m][i]] # "new"
    BY DEF IInv, Sound, QueuesSound
  <2>3. ~(queue[m][i] > arrivals)
    BY <2>1, <2>2 DEF IInv, ArrivalsSound
  <2>4. QED
    BY <1>1, <2>1, <2>3, BoundsAssumption DEF Entries
<1>5. /\ q2 \in [Lanes -> Seq(Entries)]
      /\ Len(q2[l]) = Len(queue[l]) + 1
      /\ q2[l][Len(queue[l]) + 1] = n
      /\ \A i \in 1..Len(queue[l]) : q2[l][i] = queue[l][i]
      /\ \A m \in Lanes \ {l} : q2[m] = queue[m]
  BY <1>1, <1>3 DEF IInv, TypeOK
<1>6. Typed(q2, active, generation, running, taskGeneration)
  BY <1>5, IInvTyped DEF Typed
<1>7. /\ outcome' = [outcome EXCEPT ![n] = "pending"]
      /\ laneOf' = [laneOf EXCEPT ![n] = l]
      /\ generation' = generation /\ maxConcurrent' = maxConcurrent
      /\ DrainLanes({l}, q2, active, maxConcurrent, generation, running)
  OBVIOUS
<1> HIDE DEF q2, n
<1>8. Sound(q2, active, generation, running, taskGeneration, laneOf', outcome')
  <2>1. QueuesSound(q2, running, laneOf', outcome')
    <3> SUFFICES ASSUME NEW m \in Lanes
                 PROVE  /\ Ascending(q2[m])
                        /\ \A i \in 1..Len(q2[m]) :
                             /\ laneOf'[q2[m][i]] = m
                             /\ q2[m][i] \notin running
                             /\ outcome'[q2[m][i]] = "pending"
      BY DEF QueuesSound
    <3>1. \A i \in 1..Len(queue[m]) :
            laneOf[queue[m][i]] = m /\ queue[m][i] \notin running /\ outcome[queue[m][i]] = "pending"
      BY DEF IInv, Sound, QueuesSound
    <3>2. CASE m = l
      <4>1. Len(queue[l]) \in Nat
        BY <1>3
      <4>2. \A i \in 1..Len(q2[l]) : i \in 1..Len(queue[l]) \/ i = Len(queue[l]) + 1
        BY <4>1, <1>5
      <4>3. Ascending(q2[l])
        <5> SUFFICES ASSUME NEW i \in 1..Len(q2[l]), NEW j \in 1..Len(q2[l]), i < j
                     PROVE  q2[l][i] < q2[l][j]
          BY DEF Ascending
        <5>1. i \in 1..Len(queue[l])
          BY <4>1, <4>2, <1>5
        <5>2. CASE j \in 1..Len(queue[l])
          BY <5>1, <5>2, <1>3, <1>5 DEF Ascending
        <5>3. CASE j = Len(queue[l]) + 1
          BY <5>1, <5>3, <1>4, <1>5
        <5>4. QED
          BY <5>2, <5>3, <4>2
      <4>4. ASSUME NEW i \in 1..Len(q2[l])
            PROVE  laneOf'[q2[l][i]] = l /\ q2[l][i] \notin running /\ outcome'[q2[l][i]] = "pending"
        <5>1. CASE i \in 1..Len(queue[l])
          <6>1. q2[l][i] = queue[l][i] /\ queue[l][i] # n /\ queue[l][i] \in Entries
            BY <5>1, <1>2, <1>4, <1>5
          <6>2. QED
            BY <3>1, <3>2, <5>1, <6>1, <1>1, <1>7
        <5>2. CASE i = Len(queue[l]) + 1
          BY <5>2, <1>1, <1>2, <1>5, <1>7
        <5>3. QED
          BY <5>1, <5>2, <4>2
      <4>5. QED
        BY <3>2, <4>3, <4>4
    <3>3. CASE m # l
      BY <3>1, <3>3, <1>1, <1>2, <1>3, <1>4, <1>5, <1>7
    <3>4. QED
      BY <3>2, <3>3
  <2>2. TasksSound(generation, running, taskGeneration, laneOf', outcome')
    BY <1>1, <1>2, <1>7 DEF IInv, TypeOK, Sound, TasksSound
  <2>3. SlotsSound(active, generation, running, taskGeneration, laneOf')
    <3>1. \A e \in running : laneOf'[e] = laneOf[e]
      BY <1>1, <1>2, <1>7 DEF IInv, TypeOK
    <3>2. QED
      BY <3>1 DEF IInv, Sound, SlotsSound
  <2>4. NoneForgotten(q2, running, outcome')
    <3> SUFFICES ASSUME NEW e \in Entries, outcome'[e] = "pending", e \notin running
                 PROVE  \E m \in Lanes : \E i \in 1..Len(q2[m]) : q2[m][i] = e
      BY DEF NoneForgotten
    <3>1. CASE e = n
      <4>1. Len(queue[l]) + 1 \in 1..Len(q2[l])
        BY <1>3, <1>5
      <4>2. QED
        BY <3>1, <4>1, <1>5
    <3>2. CASE e # n
      <4>1. outcome[e] = "pending"
        BY <3>2, <1>1, <1>7
      <4>2. PICK m \in Lanes : \E i \in 1..Len(queue[m]) : queue[m][i] = e
        BY <4>1 DEF IInv, Sound, NoneForgotten
      <4>3. \A i \in 1..Len(queue[m]) : i \in 1..Len(q2[m]) /\ q2[m][i] = queue[m][i]
        BY <1>3, <1>5
      <4>4. QED
        BY <4>2, <4>3
    <3>3. QED
      BY <3>1, <3>2
  <2>5. QED
    BY <2>1, <2>2, <2>3, <2>4 DEF Sound
<1>9. QED
  BY <1>1, <1>2, <1>5, <1>6, <1>8 DEF n, q2

LEMMA EnqueueKeepsIInv ==
  ASSUME IInv, NEW l \in Lanes, EnqueueCommandInLane(l)
  PROVE  IInv' /\ StepFills
<1> DEFINE n == arrivals + 1
           q2 == [queue EXCEPT ![l] = Append(@, n)]
<1> USE DEF EnqueueCommandInLane
<1>1. /\ n \in Entries /\ outcome[n] = "new" /\ arrivals \in Nat /\ arrivals' = n
      /\ outcome \in [Entries -> Outcomes] /\ laneOf \in [Entries -> Lanes \cup {NoLane}]
  BY BoundsAssumption DEF IInv, TypeOK, ArrivalsSound, Entries
<1>2. \A m \in Lanes \ {l} : q2[m] = queue[m]
  BY EnqueuePumpsFrom
<1>3. Typed(q2, active, generation, running, taskGeneration)
  BY EnqueuePumpsFrom
<1>4. /\ outcome' = [outcome EXCEPT ![n] = "pending"]
      /\ laneOf' = [laneOf EXCEPT ![n] = l]
      /\ generation' = generation /\ maxConcurrent' = maxConcurrent
      /\ DrainLanes({l}, q2, active, maxConcurrent, generation, running)
  OBVIOUS
<1>5. Sound(q2, active, generation, running, taskGeneration, laneOf', outcome')
  BY EnqueuePumpsFrom
<1> HIDE DEF q2, n
<1>6. /\ Typed(queue', active', generation, running', taskGeneration')
      /\ Sound(queue', active', generation, running', taskGeneration', laneOf', outcome')
  BY <1>3, <1>4, <1>5, IInvTyped, DrainLanesSound
<1>7. TypeOK'
  BY <1>1, <1>4, <1>6 DEF IInv, TypeOK, Typed, Outcomes, n, Entries
<1>8. ArrivalsSound'
  BY <1>1, <1>4 DEF IInv, ArrivalsSound, n, Entries
<1>9. Filled({l}, q2, active, maxConcurrent)
  BY <1>3, <1>4, <1>5, IInvTyped, DrainLanesFills
<1>10. StepFills
  BY <1>2, <1>4, <1>9 DEF StepFills, NoIdleLane, Filled, Busy
<1>11. QED
  BY <1>4, <1>6, <1>7, <1>8, <1>10 DEF IInv

\* The lane of a task of its current generation.
PumpedLanes(e) == IF taskGeneration[e] = generation[laneOf[e]] THEN {laneOf[e]} ELSE {}

\* A task that settles leaves a state that keeps the invariant to the pump.
LEMMA FinishTaskPumpsFrom ==
  ASSUME IInv, NEW e \in Entries, NEW r \in Results, FinishTask(e, r)
  PROVE  /\ PumpedLanes(e) \in SUBSET Lanes
         /\ CompleteTask(e) \in [Lanes -> SUBSET Entries]
         /\ \A l \in Lanes :
              /\ CompleteTask(e)[l] \subseteq active[l]
              /\ l \notin PumpedLanes(e) => CompleteTask(e)[l] = active[l]
         /\ Typed(queue, CompleteTask(e), generation, running \ {e}, taskGeneration)
         /\ Sound(queue, CompleteTask(e), generation, running \ {e}, taskGeneration, laneOf, outcome')
<1> DEFINE L == PumpedLanes(e)
           act2 == CompleteTask(e)
           run2 == running \ {e}
<1>1. /\ e \in running /\ laneOf[e] \in Lanes /\ outcome[e] = "pending"
      /\ outcome \in [Entries -> Outcomes] /\ arrivals \in Nat
      /\ active \in [Lanes -> SUBSET Entries]
  BY BoundsAssumption DEF FinishTask, IInv, TypeOK, Sound, TasksSound
<1>2. /\ outcome' = [outcome EXCEPT ![e] = r]
      /\ DrainLanes(L, queue, act2, maxConcurrent, generation, run2)
      /\ UNCHANGED <<gatewayDraining, maxConcurrent, generation, laneOf, arrivals, waiter>>
  BY DEF FinishTask, PumpedLanes
<1>3. /\ L \in SUBSET Lanes
      /\ act2 \in [Lanes -> SUBSET Entries]
      /\ \A l \in Lanes :
           act2[l] = IF l = laneOf[e] /\ taskGeneration[e] = generation[l]
                     THEN active[l] \ {e} ELSE active[l]
  BY <1>1 DEF CompleteTask, PumpedLanes
<1> HIDE DEF L, act2
<1>4. Typed(queue, act2, generation, run2, taskGeneration)
  BY <1>3, IInvTyped DEF Typed
<1>5. Sound(queue, act2, generation, run2, taskGeneration, laneOf, outcome')
  <2>1. QueuesSound(queue, run2, laneOf, outcome')
    <3> SUFFICES ASSUME NEW l \in Lanes, NEW i \in 1..Len(queue[l])
                 PROVE  queue[l][i] \in Entries /\ queue[l][i] # e
      BY <1>1, <1>2 DEF IInv, Sound, QueuesSound
    <3>1. queue[l][i] \in Entries
      BY DEF IInv, TypeOK
    <3>2. QED
      BY <1>1, <3>1 DEF IInv, Sound, QueuesSound
  <2>2. TasksSound(generation, run2, taskGeneration, laneOf, outcome')
    BY <1>1, <1>2 DEF IInv, TypeOK, Sound, TasksSound
  <2>3. SlotsSound(act2, generation, run2, taskGeneration, laneOf)
    BY <1>1, <1>3 DEF IInv, Sound, SlotsSound
  <2>4. NoneForgotten(queue, run2, outcome')
    <3> SUFFICES ASSUME NEW f \in Entries, outcome'[f] = "pending", f \notin run2
                 PROVE  \E l \in Lanes : \E i \in 1..Len(queue[l]) : queue[l][i] = f
      BY DEF NoneForgotten
    <3>1. f # e
      BY <1>1, <1>2 DEF Results
    <3>2. outcome[f] = "pending" /\ f \notin running
      BY <3>1, <1>1, <1>2
    <3>3. QED
      BY <3>2 DEF IInv, Sound, NoneForgotten
  <2>5. QED
    BY <2>1, <2>2, <2>3, <2>4 DEF Sound
<1>6. \A l \in Lanes : act2[l] \subseteq active[l] /\ (l \notin L => act2[l] = active[l])
  BY <1>3 DEF L, PumpedLanes
<1>7. QED
  BY <1>3, <1>4, <1>5, <1>6 DEF L, act2

LEMMA FinishTaskKeepsIInv ==
  ASSUME IInv, NEW e \in Entries, NEW r \in Results, FinishTask(e, r)
  PROVE  IInv' /\ StepFills
<1> DEFINE L == PumpedLanes(e)
           act2 == CompleteTask(e)
           run2 == running \ {e}
<1>1. /\ e \in running /\ laneOf[e] \in Lanes /\ outcome[e] = "pending"
      /\ outcome \in [Entries -> Outcomes] /\ arrivals \in Nat
      /\ active \in [Lanes -> SUBSET Entries]
  BY BoundsAssumption DEF FinishTask, IInv, TypeOK, Sound, TasksSound
<1>2. /\ outcome' = [outcome EXCEPT ![e] = r]
      /\ DrainLanes(L, queue, act2, maxConcurrent, generation, run2)
      /\ UNCHANGED <<gatewayDraining, maxConcurrent, generation, laneOf, arrivals, waiter>>
  BY DEF FinishTask, PumpedLanes
<1>3. /\ L \in SUBSET Lanes
      /\ \A l \in Lanes : act2[l] \subseteq active[l] /\ (l \notin L => act2[l] = active[l])
  BY FinishTaskPumpsFrom
<1>4. Typed(queue, act2, generation, run2, taskGeneration)
  BY FinishTaskPumpsFrom
<1>5. Sound(queue, act2, generation, run2, taskGeneration, laneOf, outcome')
  BY FinishTaskPumpsFrom
<1> HIDE DEF L, act2
<1>6. /\ Typed(queue', active', generation, running', taskGeneration')
      /\ Sound(queue', active', generation, running', taskGeneration', laneOf, outcome')
  BY <1>2, <1>3, <1>4, <1>5, IInvTyped, DrainLanesSound
<1>7. TypeOK'
  BY <1>1, <1>2, <1>6 DEF IInv, TypeOK, Typed, Outcomes, Settled
<1>8. ArrivalsSound'
  BY <1>1, <1>2 DEF IInv, ArrivalsSound
<1>9. Filled(L, queue, act2, maxConcurrent)
  BY <1>2, <1>3, <1>4, <1>5, IInvTyped, DrainLanesFills
<1>10. StepFills
  BY <1>2, <1>3, <1>9 DEF StepFills, NoIdleLane, Filled, Busy
<1>11. QED
  BY <1>2, <1>6, <1>7, <1>8, <1>10 DEF IInv

LEMMA SetConcurrencyKeepsIInv ==
  ASSUME IInv, NEW l \in Lanes, NEW n \in 0..MaxLimit, SetCommandLaneConcurrency(l, n)
  PROVE  IInv' /\ StepFills
<1>1. /\ maxConcurrent' \in [Lanes -> 1..MaxLimit]
      /\ maxConcurrent' \in [Lanes -> Nat]
  BY BoundsAssumption DEF SetCommandLaneConcurrency, IInv, TypeOK, ClampLimit
<1>2. /\ DrainLanes({l}, queue, active, maxConcurrent', generation, running)
      /\ UNCHANGED <<gatewayDraining, generation, laneOf, outcome, arrivals, waiter>>
  BY DEF SetCommandLaneConcurrency
<1>3. /\ Typed(queue, active, generation, running, taskGeneration)
      /\ Sound(queue, active, generation, running, taskGeneration, laneOf, outcome)
  BY IInvTyped DEF IInv
<1>4. /\ Typed(queue', active', generation, running', taskGeneration')
      /\ Sound(queue', active', generation, running', taskGeneration', laneOf, outcome)
  BY <1>1, <1>2, <1>3, DrainLanesSound
<1>5. TypeOK' /\ ArrivalsSound'
  BY <1>1, <1>2, <1>4 DEF IInv, TypeOK, Typed, ArrivalsSound
<1>6. Filled({l}, queue, active, maxConcurrent')
  BY <1>1, <1>2, <1>3, DrainLanesFills
<1>7. \A m \in Lanes \ {l} : maxConcurrent'[m] = maxConcurrent[m]
  BY DEF SetCommandLaneConcurrency, IInv, TypeOK
<1>8. StepFills
  BY <1>6, <1>7 DEF StepFills, NoIdleLane, Filled, Busy
<1>9. QED
  BY <1>2, <1>4, <1>5, <1>8 DEF IInv

LEMMA ClearLaneKeepsIInv ==
  ASSUME IInv, NEW l \in Lanes, ClearCommandLane(l)
  PROVE  IInv' /\ StepFills
<1> USE DEF ClearCommandLane
<1>1. /\ queue \in [Lanes -> Seq(Entries)]
      /\ queue' = [queue EXCEPT ![l] = <<>>]
      /\ outcome' = [e \in Entries |->
           IF \E i \in DOMAIN queue[l] : queue[l][i] = e THEN "cleared" ELSE outcome[e]]
      /\ UNCHANGED <<active, generation, running, taskGeneration, laneOf, arrivals>>
  BY DEF IInv, TypeOK
<1>2. \A m \in Lanes : DOMAIN queue[m] = 1..Len(queue[m])
  BY <1>1
<1>3. \A m \in Lanes \ {l} : \A i \in 1..Len(queue[m]) :
        queue[m][i] \in Entries /\ ~ \E j \in 1..Len(queue[l]) : queue[l][j] = queue[m][i]
  BY <1>1 DEF IInv, Sound, QueuesSound
<1>4. \A e \in running : e \in Entries /\ ~ \E j \in 1..Len(queue[l]) : queue[l][j] = e
  BY DEF IInv, TypeOK, Sound, QueuesSound
<1>5. QueuesSound(queue', running', laneOf', outcome')
  <2> SUFFICES ASSUME NEW m \in Lanes
               PROVE  /\ Ascending(queue'[m])
                      /\ \A i \in 1..Len(queue'[m]) :
                           /\ laneOf[queue'[m][i]] = m
                           /\ queue'[m][i] \notin running
                           /\ outcome'[queue'[m][i]] = "pending"
    BY <1>1 DEF QueuesSound
  <2>1. CASE m = l
    BY <1>1, <2>1 DEF Ascending
  <2>2. CASE m # l
    <3>1. queue'[m] = queue[m]
      BY <1>1, <2>2
    <3>2. \A i \in 1..Len(queue[m]) : outcome'[queue[m][i]] = outcome[queue[m][i]]
      BY <1>1, <1>2, <1>3, <2>2
    <3>3. QED
      BY <3>1, <3>2 DEF IInv, Sound, QueuesSound
  <2>3. QED
    BY <2>1, <2>2
<1>6. TasksSound(generation', running', taskGeneration', laneOf', outcome')
  BY <1>1, <1>2, <1>4 DEF IInv, Sound, TasksSound
<1>7. SlotsSound(active', generation', running', taskGeneration', laneOf')
  BY <1>1 DEF IInv, Sound, SlotsSound
<1>8. NoneForgotten(queue', running', outcome')
  <2> SUFFICES ASSUME NEW e \in Entries, outcome'[e] = "pending", e \notin running
               PROVE  \E m \in Lanes : \E i \in 1..Len(queue'[m]) : queue'[m][i] = e
    BY <1>1 DEF NoneForgotten
  <2>1. outcome[e] = "pending" /\ ~ \E i \in 1..Len(queue[l]) : queue[l][i] = e
    BY <1>1, <1>2
  <2>2. PICK m \in Lanes : \E i \in 1..Len(queue[m]) : queue[m][i] = e
    BY <2>1 DEF IInv, Sound, NoneForgotten
  <2>3. m # l
    BY <2>1, <2>2
  <2>4. QED
    BY <1>1, <2>2, <2>3
<1>9. TypeOK'
  <2>1. queue' \in [Lanes -> Seq(Entries)]
    BY <1>1
  <2>2. outcome' \in [Entries -> Outcomes]
    BY <1>1 DEF IInv, TypeOK, Outcomes, Settled
  <2>3. QED
    BY <2>1, <2>2 DEF IInv, TypeOK
<1>10. ArrivalsSound'
  <2> SUFFICES ASSUME NEW e \in Entries, e > arrivals
               PROVE  outcome'[e] = "new"
    BY <1>1 DEF ArrivalsSound
  <2>1. outcome[e] = "new"
    BY DEF IInv, ArrivalsSound
  <2>2. ~ \E i \in 1..Len(queue[l]) : queue[l][i] = e
    BY <2>1 DEF IInv, Sound, QueuesSound
  <2>3. QED
    BY <1>1, <1>2, <2>1, <2>2
<1>11. StepFills
  BY <1>1 DEF StepFills, NoIdleLane
<1>12. QED
  BY <1>5, <1>6, <1>7, <1>8, <1>9, <1>10, <1>11 DEF IInv, Sound

\* A reset leaves every task in flight behind, and the lanes without slots taken.
LEMMA ResetPumpsFrom ==
  ASSUME IInv, ResetAllLanes
  PROVE  LET none == [l \in Lanes |-> {}]
         IN  /\ Typed(queue, none, generation', running, taskGeneration)
             /\ Sound(queue, none, generation', running, taskGeneration, laneOf, outcome)
             /\ generation' \in [Lanes -> 0..MaxResets]
             /\ \A l \in Lanes : generation[l] < generation'[l]
<1> DEFINE none == [l \in Lanes |-> {}]
           L == {l \in Lanes : queue[l] # <<>>}
<1>1. /\ generation' = [l \in Lanes |-> generation[l] + 1]
      /\ DrainLanes(L, queue, none, maxConcurrent, generation', running)
      /\ gatewayDraining' = FALSE
      /\ \A l \in Lanes : generation[l] < MaxResets
      /\ UNCHANGED <<maxConcurrent, laneOf, outcome, arrivals, waiter>>
  BY DEF ResetAllLanes
<1>2. \A l \in Lanes : generation[l] \in Nat /\ generation'[l] = generation[l] + 1
  BY <1>1, BoundsAssumption DEF IInv, TypeOK
<1>3. generation' \in [Lanes -> 0..MaxResets]
  BY <1>1, BoundsAssumption DEF IInv, TypeOK
<1> HIDE DEF L
<1>4. Typed(queue, none, generation', running, taskGeneration)
  BY <1>3, IInvTyped DEF Typed
<1>5. Sound(queue, none, generation', running, taskGeneration, laneOf, outcome)
  <2>1. \A e \in running : /\ laneOf[e] \in Lanes
                           /\ taskGeneration[e] \in Nat
                           /\ taskGeneration[e] < generation'[laneOf[e]]
    BY <1>2, BoundsAssumption DEF IInv, TypeOK, Sound, TasksSound
  <2>2. TasksSound(generation', running, taskGeneration, laneOf, outcome)
    BY <1>2, <2>1 DEF IInv, Sound, TasksSound
  <2>3. SlotsSound(none, generation', running, taskGeneration, laneOf)
    BY <1>2, <2>1 DEF SlotsSound
  <2>4. QED
    BY <2>2, <2>3 DEF IInv, Sound
<1>6. QED
  BY <1>2, <1>3, <1>4, <1>5

LEMMA ResetKeepsIInv ==
  ASSUME IInv, ResetAllLanes
  PROVE  IInv' /\ StepFills
<1> DEFINE none == [l \in Lanes |-> {}]
           L == {l \in Lanes : queue[l] # <<>>}
<1>1. /\ DrainLanes(L, queue, none, maxConcurrent, generation', running)
      /\ gatewayDraining' = FALSE
      /\ UNCHANGED <<maxConcurrent, laneOf, outcome, arrivals, waiter>>
  BY DEF ResetAllLanes
<1>2. generation' \in [Lanes -> 0..MaxResets]
  BY ResetPumpsFrom
<1> HIDE DEF L
<1>3. Typed(queue, none, generation', running, taskGeneration)
  BY ResetPumpsFrom
<1>4. Sound(queue, none, generation', running, taskGeneration, laneOf, outcome)
  BY ResetPumpsFrom
<1>5. L \in SUBSET Lanes
  BY DEF L
<1> HIDE DEF none
<1>6. /\ Typed(queue', active', generation', running', taskGeneration')
      /\ Sound(queue', active', generation', running', taskGeneration', laneOf, outcome)
  BY <1>1, <1>3, <1>4, <1>5, IInvTyped, DrainLanesSound
<1>7. TypeOK' /\ ArrivalsSound'
  BY <1>1, <1>6 DEF IInv, TypeOK, Typed, ArrivalsSound
<1>8. Filled(L, queue, none, maxConcurrent)
  BY <1>1, <1>3, <1>4, <1>5, IInvTyped, DrainLanesFills
<1>9. \A l \in Lanes : none[l] \subseteq active[l] /\ (l \notin L => queue[l] = <<>>)
  BY DEF none, L
<1>10. StepFills
  BY <1>1, <1>8, <1>9 DEF StepFills, NoIdleLane, Filled, Busy
<1>11. QED
  BY <1>1, <1>6, <1>7, <1>10 DEF IInv

LEMMA NextKeepsIInv == IInv /\ [Next]_vars => IInv' /\ StepFills
<1> SUFFICES ASSUME IInv, [Next]_vars
             PROVE  IInv' /\ StepFills
  OBVIOUS
<1>1. CASE RefuseEnqueue
  <2>1. /\ arrivals + 1 \in Entries /\ outcome[arrivals + 1] = "new" /\ arrivals' = arrivals + 1
        /\ arrivals \in Nat /\ outcome' = [outcome EXCEPT ![arrivals + 1] = "refused"]
    BY <1>1, BoundsAssumption DEF RefuseEnqueue, IInv, TypeOK, ArrivalsSound, Entries
  <2>2. \A e \in Entries : e # arrivals + 1 => outcome'[e] = outcome[e]
    BY <2>1 DEF IInv, TypeOK
  <2>3. TypeOK'
    BY <1>1, <2>1 DEF RefuseEnqueue, IInv, TypeOK, Outcomes, Settled, Entries
  <2>4. ArrivalsSound'
    BY <2>1, <2>2 DEF IInv, ArrivalsSound, Entries
  <2>5. QueuesSound(queue', running', laneOf', outcome')
    <3> SUFFICES ASSUME NEW l \in Lanes, NEW i \in 1..Len(queue[l])
                 PROVE  outcome'[queue[l][i]] = outcome[queue[l][i]]
      BY <1>1 DEF RefuseEnqueue, IInv, Sound, QueuesSound
    <3>1. queue[l][i] \in Entries /\ outcome[queue[l][i]] # "new"
      BY DEF IInv, TypeOK, Sound, QueuesSound
    <3>2. QED
      BY <2>1, <2>2, <3>1
  <2>6. TasksSound(generation', running', taskGeneration', laneOf', outcome')
    BY <1>1, <2>1, <2>2 DEF RefuseEnqueue, IInv, TypeOK, Sound, TasksSound
  <2>7. NoneForgotten(queue', running', outcome')
    BY <1>1, <2>1, <2>2 DEF RefuseEnqueue, IInv, TypeOK, Sound, NoneForgotten
  <2>8. SlotsSound(active', generation', running', taskGeneration', laneOf')
    BY <1>1 DEF RefuseEnqueue, IInv, Sound
  <2>9. StepFills
    BY <1>1 DEF RefuseEnqueue, StepFills, NoIdleLane
  <2>10. QED
    BY <2>9, <2>3, <2>4, <2>5, <2>6, <2>7, <2>8 DEF IInv, Sound
<1>2. ASSUME NEW l \in Lanes, EnqueueCommandInLane(l)
      PROVE  IInv' /\ StepFills
  BY <1>2, EnqueueKeepsIInv
<1>3. ASSUME NEW e \in Entries, NEW r \in Results, FinishTask(e, r)
      PROVE  IInv' /\ StepFills
  BY <1>3, FinishTaskKeepsIInv
<1>4. ASSUME NEW l \in Lanes, NEW n \in 0..MaxLimit, SetCommandLaneConcurrency(l, n)
      PROVE  IInv' /\ StepFills
  BY <1>4, SetConcurrencyKeepsIInv
<1>5. ASSUME NEW l \in Lanes, ClearCommandLane(l)
      PROVE  IInv' /\ StepFills
  BY <1>5, ClearLaneKeepsIInv
<1>6. CASE MarkGatewayDraining
  BY <1>6 DEF MarkGatewayDraining, IInv, TypeOK, ArrivalsSound, StepFills, NoIdleLane
<1>7. CASE ResetAllLanes
  BY <1>7, ResetKeepsIInv
<1>8. CASE WaitForActiveTasks
  <2>1. ActiveIds \in SUBSET Entries
    BY DEF ActiveIds, IInv, TypeOK
  <2>2. QED
    BY <1>8, <2>1 DEF WaitForActiveTasks, IInv, TypeOK, ArrivalsSound, StepFills, NoIdleLane
<1>9. CASE PollActiveTasks
  <2>1. waiter' \in [status : {"none", "waiting", "drained", "timedOut"}, ids : SUBSET Entries]
    BY <1>9 DEF PollActiveTasks, IInv, TypeOK
  <2>2. QED
    BY <1>9, <2>1 DEF PollActiveTasks, IInv, TypeOK, ArrivalsSound, StepFills, NoIdleLane
<1>10. CASE UNCHANGED vars
  BY <1>10 DEF vars, IInv, TypeOK, ArrivalsSound, StepFills, NoIdleLane
<1>11. QED
  BY <1>1, <1>2, <1>3, <1>4, <1>5, <1>6, <1>7, <1>8, <1>9, <1>10 DEF Next

LEMMA InductiveInvariant == Spec => []IInv
<1>1. IInv /\ [Next]_vars => IInv'
  BY NextKeepsIInv
<1>2. QED
  BY <1>1, InitIInv, PTL DEF Spec

-----------------------------------------------------------------------------
(* The properties that follow from the invariant.                          *)

\* The state of the command queue is well typed.
THEOREM TypeCorrect == Spec => []TypeOK
<1>1. IInv => TypeOK
  BY DEF IInv
<1>2. QED
  BY <1>1, InductiveInvariant, PTL

\* The slots of a lane are held by exactly its tasks in flight of the current
\* generation: resets and late completions neither leak nor free a slot
\* (completeTask, pump and resetAllLanes of command-queue.ts).
THEOREM SlotAccounting == Spec => []SlotsAreCurrentTasks
<1>1. IInv => SlotsAreCurrentTasks
  BY DEF IInv, Sound, SlotsSound, SlotsAreCurrentTasks
<1>2. QED
  BY <1>1, InductiveInvariant, PTL

\* Every entry whose caller waits is queued once or in flight, and conversely:
\* nothing is forgotten and nothing runs twice.
THEOREM NoCallLostOrDoubled == Spec => []PendingIsSomewhere
<1>1. ASSUME IInv
      PROVE  PendingIsSomewhere
  <2>1. \A l \in Lanes : queue[l] \in Seq(Entries) /\ DOMAIN queue[l] = 1..Len(queue[l])
    BY <1>1 DEF IInv, TypeOK
  <2>2. ASSUME NEW l \in Lanes, NEW i \in DOMAIN queue[l], NEW j \in DOMAIN queue[l],
               queue[l][i] = queue[l][j]
        PROVE  i = j
    <3>1. /\ queue[l][i] \in Int /\ queue[l][j] \in Int /\ i \in Int /\ j \in Int
          /\ i \in 1..Len(queue[l]) /\ j \in 1..Len(queue[l])
      BY <2>1, BoundsAssumption DEF Entries
    <3>2. Ascending(queue[l])
      BY <1>1 DEF IInv, Sound, QueuesSound
    <3>3. QED
      BY <2>2, <3>1, <3>2 DEF Ascending
  <2>3. ASSUME NEW e \in Entries
        PROVE  /\ (outcome[e] = "pending") <=> (e \in running \/ InQueue(e))
               /\ ~(e \in running /\ InQueue(e))
    BY <1>1, <2>1 DEF IInv, InQueue, Sound, QueuesSound, TasksSound, NoneForgotten
  <2>4. QED
    BY <2>2, <2>3 DEF PendingIsSomewhere
<1>2. QED
  BY <1>1, InductiveInvariant, PTL

\* No lane with entries left has a free slot: no wakeup is lost.
THEOREM NoLostWakeup == Spec => []NoIdleLane
<1>1. Init => NoIdleLane
  BY DEF Init, NoIdleLane
<1>2. IInv /\ NoIdleLane /\ [Next]_vars => NoIdleLane'
  BY NextKeepsIInv DEF StepFills
<1>3. QED
  BY <1>1, <1>2, InductiveInvariant, PTL DEF Spec

\* A start never takes a lane past its limit.
THEOREM LimitKept == Spec => StartsWithinLimit
<1>1. IInv /\ [Next]_vars =>
        [\A l \in Lanes : ~(active'[l] \subseteq active[l]) =>
                            Cardinality(active'[l]) <= maxConcurrent'[l]]_vars
  BY NextKeepsIInv DEF StepFills
<1>2. QED
  BY <1>1, InductiveInvariant, PTL DEF Spec, StartsWithinLimit

=============================================================================
