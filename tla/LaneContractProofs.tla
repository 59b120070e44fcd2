--------------------------- MODULE LaneContractProofs ---------------------------
(***************************************************************************)
(* The command queue implements LaneContract, for every set of lanes and   *)
(* every bound: what any step may do to an entry, and that the pump starts *)
(* the entries of a lane in order.  From what a step may do to an entry it *)
(* also follows that the answer of waitForActiveTasks is true.             *)
(***************************************************************************)
EXTENDS CommandLanesProofs

\* Where an entry is, as its caller sees it (the refinement mapping of Contract).
Status(e) == IF outcome[e] # "pending" THEN outcome[e]
             ELSE IF e \in running THEN "running" ELSE "waiting"

\* What the step does to one entry is a move the contract knows.
MovesEntry(e) == Status(e)' = Status(e) \/ <<Status(e), Status(e)'>> \in Contract!Moves

\* The lane of an entry is set by the step that accepts it, and by no other.
LaneSetOnAccept(e) ==
  IF Status(e) = "new" /\ Status(e)' \in {"waiting", "running"}
  THEN laneOf'[e] \in Lanes ELSE laneOf'[e] = laneOf[e]

\* An entry that starts leaves no older one of its lane behind.
StartsInOrder ==
  \A f \in running' \ running, e \in Entries :
    (e < f /\ laneOf'[e] = laneOf'[f] /\ outcome'[e] = "pending") => e \in running'

StepKeepsContract ==
  /\ \A e \in Entries : MovesEntry(e) /\ LaneSetOnAccept(e)
  /\ StartsInOrder

-----------------------------------------------------------------------------
\* What a pump starts is older than what it leaves.
LEMMA PumpInOrder ==
  ASSUME NEW q \in Seq(Entries), NEW slots \in SUBSET Entries, NEW limit \in Nat,
         Ascending(q)
  PROVE  \A f \in Starts(q, slots, limit), j \in 1..Len(StillQueued(q, slots, limit)) :
           f < StillQueued(q, slots, limit)[j]
<1> DEFINE n == StartCount(q, slots, limit)
           r == StillQueued(q, slots, limit)
<1>1. n \in 0..Len(q)
  BY StartCountBounds
<1>2. n \in 0..Len(q) /\ Len(q) \in Nat
  BY <1>1
<1>3. \A j \in 1..Len(r) : j + n \in 1..Len(q) /\ r[j] = q[j + n]
  BY StillQueuedIsSuffix
<1>4. Starts(q, slots, limit) = {q[i] : i \in 1..n}
  BY DEF Starts
<1>5. Len(r) \in Nat
  BY StillQueuedIsSuffix
<1> HIDE DEF n, r
<1> SUFFICES ASSUME NEW i \in 1..n, NEW j \in 1..Len(r)
             PROVE  q[i] < r[j]
  BY <1>4 DEF r
<1>6. i \in 1..Len(q) /\ j + n \in 1..Len(q) /\ i < j + n
  BY <1>2, <1>3, <1>5
<1>7. QED
  BY <1>3, <1>6 DEF Ascending

\* The entries that a pump of the lanes of L starts were queued, run now, and are older
\* than those that their lane keeps.
LEMMA DrainLanesStarts ==
  ASSUME NEW L \in SUBSET Lanes, NEW q, NEW act, NEW max \in [Lanes -> Nat],
         NEW gen, NEW run, NEW lane, NEW out,
         Typed(q, act, gen, run, taskGeneration),
         Sound(q, act, gen, run, taskGeneration, lane, out),
         DrainLanes(L, q, act, max, gen, run)
  PROVE  /\ run \subseteq running'
         /\ \A e \in run : taskGeneration'[e] = taskGeneration[e]
         /\ \A f \in running' \ run :
              /\ lane[f] \in Lanes /\ out[f] = "pending"
              /\ \A j \in 1..Len(queue'[lane[f]]) : f < queue'[lane[f]][j]
<1> DEFINE B(l) == IF l \in L THEN Starts(q[l], act[l], max[l]) ELSE {}
<1> USE DEF Typed
<1>1. /\ queue' = [l \in Lanes |-> IF l \in L THEN StillQueued(q[l], act[l], max[l]) ELSE q[l]]
      /\ running' = run \cup UNION {B(l) : l \in Lanes}
      /\ taskGeneration' = [e \in Entries |->
           IF \E l \in Lanes : e \in B(l) THEN gen[CHOOSE l \in Lanes : e \in B(l)]
           ELSE taskGeneration[e]]
  BY DEF DrainLanes
<1>2. ASSUME NEW l \in Lanes
      PROVE  q[l] \in Seq(Entries) /\ act[l] \in SUBSET Entries /\ max[l] \in Nat /\ Ascending(q[l])
  BY DEF Sound, QueuesSound
<1>3. ASSUME NEW l \in Lanes, NEW f \in B(l)
      PROVE  /\ lane[f] = l /\ out[f] = "pending" /\ f \notin run
             /\ \A j \in 1..Len(queue'[l]) : f < queue'[l][j]
  <2>1. l \in L /\ f \in Starts(q[l], act[l], max[l])
    OBVIOUS
  <2> HIDE DEF B
  <2>0. \A e \in Starts(q[l], act[l], max[l]) : \E i \in 1..Len(q[l]) : q[l][i] = e
    BY <1>2, StartsAreQueued
  <2>2. PICK i \in 1..Len(q[l]) : q[l][i] = f
    BY <2>0, <2>1
  <2>3. lane[f] = l /\ out[f] = "pending" /\ f \notin run
    BY <2>2 DEF Sound, QueuesSound
  <2>4. queue'[l] = StillQueued(q[l], act[l], max[l])
    BY <1>1, <2>1
  <2>5. \A j \in 1..Len(queue'[l]) : f < queue'[l][j]
    BY <1>2, <2>1, <2>4, PumpInOrder
  <2>6. QED
    BY <2>3, <2>5
<1>4. \A e \in run : e \in Entries /\ ~ \E l \in Lanes : e \in B(l)
  BY <1>3
<1> HIDE DEF B
<1>5. \A e \in run : taskGeneration'[e] = taskGeneration[e]
  BY <1>1, <1>4
<1>6. run \subseteq running'
  BY <1>1
<1>7. QED
  BY <1>1, <1>3, <1>5, <1>6

-----------------------------------------------------------------------------
\* Actions that pump: from running entries run, with lanes and outcomes after the step.
LEMMA PumpKeepsOrder ==
  ASSUME NEW L \in SUBSET Lanes, NEW q, NEW act, NEW max \in [Lanes -> Nat],
         NEW gen, NEW run \in SUBSET running,
         Typed(q, act, gen, run, taskGeneration),
         Sound(q, act, gen, run, taskGeneration, laneOf', outcome'),
         DrainLanes(L, q, act, max, gen, run)
  PROVE  StartsInOrder
<1>1. /\ Typed(queue', active', gen, running', taskGeneration')
      /\ Sound(queue', active', gen, running', taskGeneration', laneOf', outcome')
  BY DrainLanesSound
<1>2. \A f \in running' \ run :
        /\ laneOf'[f] \in Lanes
        /\ \A j \in 1..Len(queue'[laneOf'[f]]) : f < queue'[laneOf'[f]][j]
  BY DrainLanesStarts
<1> SUFFICES ASSUME NEW f \in running' \ running, NEW e \in Entries,
                    e < f, laneOf'[e] = laneOf'[f], outcome'[e] = "pending",
                    e \notin running'
             PROVE  FALSE
  BY DEF StartsInOrder
<1>3. PICK l \in Lanes : \E j \in 1..Len(queue'[l]) : queue'[l][j] = e
  BY <1>1 DEF Sound, NoneForgotten
<1>4. PICK j \in 1..Len(queue'[l]) : queue'[l][j] = e
  BY <1>3
<1>5. laneOf'[e] = l
  BY <1>1, <1>4 DEF Sound, QueuesSound
<1>6. f < e /\ f \in Entries
  BY <1>1, <1>2, <1>4, <1>5 DEF Typed
<1>7. QED
  BY <1>6, BoundsAssumption DEF Entries

-----------------------------------------------------------------------------
(* The actions.                                                            *)

\* What becomes of an entry whose outcome and lane the step leaves alone: it may start.
LEMMA UntouchedEntry ==
  ASSUME NEW e \in Entries, outcome'[e] = outcome[e], laneOf'[e] = laneOf[e],
         e \in running /\ outcome[e] = "pending" => e \in running'
  PROVE  MovesEntry(e) /\ LaneSetOnAccept(e)
BY DEF MovesEntry, LaneSetOnAccept, Status, Contract!Moves

LEMMA EnqueueKeepsContract ==
  ASSUME IInv, NEW l \in Lanes, EnqueueCommandInLane(l)
  PROVE  StepKeepsContract
<1> DEFINE n == arrivals + 1
           q2 == [queue EXCEPT ![l] = Append(@, n)]
<1>1. /\ Typed(q2, active, generation, running, taskGeneration)
      /\ Sound(q2, active, generation, running, taskGeneration, laneOf', outcome')
  BY EnqueuePumpsFrom
<1>2. n \in Entries \ running /\ outcome[n] = "new"
  BY EnqueuePumpsFrom
<1>3. /\ DrainLanes({l}, q2, active, maxConcurrent, generation, running)
      /\ outcome' = [outcome EXCEPT ![n] = "pending"]
      /\ laneOf' = [laneOf EXCEPT ![n] = l]
  BY DEF EnqueueCommandInLane
<1>4. outcome \in [Entries -> Outcomes] /\ laneOf \in [Entries -> Lanes \cup {NoLane}]
  BY DEF IInv, TypeOK
<1> HIDE DEF n, q2
<1>5. StartsInOrder
  BY <1>1, <1>3, IInvTyped, PumpKeepsOrder
<1>6. running \subseteq running'
  BY <1>1, <1>3, IInvTyped, DrainLanesStarts
<1>7. ASSUME NEW e \in Entries
      PROVE  MovesEntry(e) /\ LaneSetOnAccept(e)
  <2>1. CASE e = n
    <3>1. Status(e) = "new" /\ Status(e)' \in {"waiting", "running"} /\ laneOf'[e] = l
      BY <1>2, <1>3, <1>4, <2>1 DEF Status
    <3>2. QED
      BY <3>1 DEF MovesEntry, LaneSetOnAccept, Contract!Moves
  <2>2. CASE e # n
    BY <1>3, <1>4, <1>6, <2>2, UntouchedEntry
  <2>3. QED
    BY <2>1, <2>2
<1>8. QED
  BY <1>5, <1>7 DEF StepKeepsContract

LEMMA FinishTaskKeepsContract ==
  ASSUME IInv, NEW f \in Entries, NEW r \in Results, FinishTask(f, r)
  PROVE  StepKeepsContract
<1> DEFINE run2 == running \ {f}
<1>1. /\ PumpedLanes(f) \in SUBSET Lanes
      /\ Typed(queue, CompleteTask(f), generation, run2, taskGeneration)
      /\ Sound(queue, CompleteTask(f), generation, run2, taskGeneration, laneOf, outcome')
  BY FinishTaskPumpsFrom
<1>2. /\ DrainLanes(PumpedLanes(f), queue, CompleteTask(f), maxConcurrent, generation, run2)
      /\ outcome' = [outcome EXCEPT ![f] = r]
      /\ laneOf' = laneOf /\ f \in running
  BY DEF FinishTask, PumpedLanes
<1>3. outcome \in [Entries -> Outcomes] /\ outcome[f] = "pending" /\ running \in SUBSET Entries
  BY <1>2 DEF IInv, TypeOK, Sound, TasksSound
<1>4. run2 \in SUBSET running /\ \A e \in running : e # f => e \in run2
  OBVIOUS
<1> HIDE DEF run2
<1>5. StartsInOrder
  BY <1>1, <1>2, <1>4, IInvTyped, PumpKeepsOrder
<1>6. run2 \subseteq running'
  BY <1>1, <1>2, IInvTyped, DrainLanesStarts
<1>7. ASSUME NEW e \in Entries
      PROVE  MovesEntry(e) /\ LaneSetOnAccept(e)
  <2>1. CASE e = f
    <3>1. Status(e) = "running" /\ Status(e)' = r /\ laneOf'[e] = laneOf[e]
      BY <1>2, <1>3, <2>1 DEF Status, Results
    <3>2. QED
      BY <3>1 DEF MovesEntry, LaneSetOnAccept, Contract!Moves, Results
  <2>2. CASE e # f
    BY <1>2, <1>3, <1>4, <1>6, <2>2, UntouchedEntry
  <2>3. QED
    BY <2>1, <2>2
<1>8. QED
  BY <1>5, <1>7 DEF StepKeepsContract

LEMMA SetConcurrencyKeepsContract ==
  ASSUME IInv, NEW l \in Lanes, NEW n \in 0..MaxLimit, SetCommandLaneConcurrency(l, n)
  PROVE  StepKeepsContract
<1>1. maxConcurrent' \in [Lanes -> Nat]
  BY BoundsAssumption DEF SetCommandLaneConcurrency, IInv, TypeOK, ClampLimit
<1>2. /\ DrainLanes({l}, queue, active, maxConcurrent', generation, running)
      /\ UNCHANGED <<laneOf, outcome>>
  BY DEF SetCommandLaneConcurrency
<1>3. /\ Typed(queue, active, generation, running, taskGeneration)
      /\ Sound(queue, active, generation, running, taskGeneration, laneOf', outcome')
  BY <1>2, IInvTyped DEF IInv
<1>4. StartsInOrder
  BY <1>1, <1>2, <1>3, PumpKeepsOrder
<1>5. running \subseteq running'
  BY <1>1, <1>2, <1>3, DrainLanesStarts
<1>6. QED
  BY <1>2, <1>4, <1>5, UntouchedEntry DEF StepKeepsContract

LEMMA ResetKeepsContract ==
  ASSUME IInv, ResetAllLanes
  PROVE  StepKeepsContract
<1> DEFINE none == [l \in Lanes |-> {}]
           L == {l \in Lanes : queue[l] # <<>>}
<1>1. /\ DrainLanes(L, queue, none, maxConcurrent, generation', running)
      /\ UNCHANGED <<laneOf, outcome>>
  BY DEF ResetAllLanes
<1>2. /\ Typed(queue, none, generation', running, taskGeneration)
      /\ Sound(queue, none, generation', running, taskGeneration, laneOf', outcome')
  BY <1>1, ResetPumpsFrom
<1>3. L \in SUBSET Lanes
  OBVIOUS
<1> HIDE DEF none, L
<1>4. StartsInOrder
  BY <1>1, <1>2, <1>3, IInvTyped, PumpKeepsOrder
<1>5. running \subseteq running'
  BY <1>1, <1>2, <1>3, IInvTyped, DrainLanesStarts
<1>6. QED
  BY <1>1, <1>4, <1>5, UntouchedEntry DEF StepKeepsContract

LEMMA ClearLaneKeepsContract ==
  ASSUME IInv, NEW l \in Lanes, ClearCommandLane(l)
  PROVE  StepKeepsContract
<1>1. /\ outcome' = [e \in Entries |->
           IF \E i \in DOMAIN queue[l] : queue[l][i] = e THEN "cleared" ELSE outcome[e]]
      /\ UNCHANGED <<running, laneOf>>
  BY DEF ClearCommandLane
<1>2. DOMAIN queue[l] = 1..Len(queue[l])
  BY DEF IInv, TypeOK
<1>3. StartsInOrder
  BY <1>1 DEF StartsInOrder
<1>4. ASSUME NEW e \in Entries
      PROVE  MovesEntry(e) /\ LaneSetOnAccept(e)
  <2>1. CASE \E i \in 1..Len(queue[l]) : queue[l][i] = e
    <3>1. outcome[e] = "pending" /\ e \notin running /\ outcome'[e] = "cleared"
      BY <1>1, <1>2, <2>1 DEF IInv, Sound, QueuesSound
    <3>2. Status(e) = "waiting" /\ Status(e)' = "cleared"
      BY <3>1 DEF Status
    <3>3. QED
      BY <1>1, <3>2 DEF MovesEntry, LaneSetOnAccept, Contract!Moves
  <2>2. CASE ~ \E i \in 1..Len(queue[l]) : queue[l][i] = e
    BY <1>1, <1>2, <2>2, UntouchedEntry
  <2>3. QED
    BY <2>1, <2>2
<1>5. QED
  BY <1>3, <1>4 DEF StepKeepsContract

LEMMA RefuseKeepsContract ==
  ASSUME IInv, RefuseEnqueue
  PROVE  StepKeepsContract
<1>1. /\ arrivals + 1 \in Entries /\ outcome[arrivals + 1] = "new"
      /\ outcome \in [Entries -> Outcomes]
  BY BoundsAssumption DEF RefuseEnqueue, IInv, TypeOK, ArrivalsSound, Entries
<1>2. /\ outcome' = [outcome EXCEPT ![arrivals + 1] = "refused"]
      /\ UNCHANGED <<running, laneOf>>
  BY DEF RefuseEnqueue
<1>3. StartsInOrder
  BY <1>2 DEF StartsInOrder
<1>4. ASSUME NEW e \in Entries
      PROVE  MovesEntry(e) /\ LaneSetOnAccept(e)
  <2>1. CASE e = arrivals + 1
    <3>1. Status(e) = "new" /\ Status(e)' = "refused"
      BY <1>1, <1>2, <2>1 DEF Status
    <3>2. QED
      BY <1>2, <3>1 DEF MovesEntry, LaneSetOnAccept, Contract!Moves
  <2>2. CASE e # arrivals + 1
    BY <1>1, <1>2, <2>2, UntouchedEntry
  <2>3. QED
    BY <2>1, <2>2
<1>5. QED
  BY <1>3, <1>4 DEF StepKeepsContract

\* A step that touches no entry.
LEMMA NoEntryTouched ==
  ASSUME UNCHANGED <<running, laneOf, outcome>>
  PROVE  StepKeepsContract
BY UntouchedEntry DEF StepKeepsContract, StartsInOrder

LEMMA NextKeepsContract == IInv /\ [Next]_vars => StepKeepsContract
<1> SUFFICES ASSUME IInv, [Next]_vars
             PROVE  StepKeepsContract
  OBVIOUS
<1>1. CASE RefuseEnqueue
  BY <1>1, RefuseKeepsContract
<1>2. ASSUME NEW l \in Lanes, EnqueueCommandInLane(l)
      PROVE  StepKeepsContract
  BY <1>2, EnqueueKeepsContract
<1>3. ASSUME NEW e \in Entries, NEW r \in Results, FinishTask(e, r)
      PROVE  StepKeepsContract
  BY <1>3, FinishTaskKeepsContract
<1>4. ASSUME NEW l \in Lanes, NEW n \in 0..MaxLimit, SetCommandLaneConcurrency(l, n)
      PROVE  StepKeepsContract
  BY <1>4, SetConcurrencyKeepsContract
<1>5. ASSUME NEW l \in Lanes, ClearCommandLane(l)
      PROVE  StepKeepsContract
  BY <1>5, ClearLaneKeepsContract
<1>6. CASE ResetAllLanes
  BY <1>6, ResetKeepsContract
<1>7. CASE MarkGatewayDraining \/ WaitForActiveTasks \/ PollActiveTasks \/ UNCHANGED vars
  BY <1>7, NoEntryTouched
     DEF MarkGatewayDraining, WaitForActiveTasks, PollActiveTasks, vars
<1>8. QED
  BY <1>1, <1>2, <1>3, <1>4, <1>5, <1>6, <1>7 DEF Next

-----------------------------------------------------------------------------
(* The refinement.                                                         *)

\* The step, read through the mapping, is one of the contract.
LEMMA StepImplements ==
  ASSUME IInv, IInv', StepKeepsContract
  PROVE  Contract!Step
<1>1. \A e \in Entries : Status(e)' = Status(e) \/ <<Status(e), Status(e)'>> \in Contract!Moves
  BY DEF StepKeepsContract, MovesEntry
<1>2. \A e \in Entries :
        IF Status(e) = "new" /\ Status(e)' \in {"waiting", "running"}
        THEN laneOf'[e] \in Lanes ELSE laneOf'[e] = laneOf[e]
  BY DEF StepKeepsContract, LaneSetOnAccept
<1>3. ASSUME NEW e \in Entries, NEW f \in Entries, e < f, laneOf'[e] = laneOf'[f],
             Status(e)' = "waiting", Status(f)' = "running"
      PROVE  Status(f) = "running"
  <2>1. outcome'[e] = "pending" /\ e \notin running' /\ f \in running' /\ outcome'[f] = "pending"
    BY <1>3 DEF Status, IInv, TypeOK, Outcomes, Settled, Results
  <2>2. f \in running
    BY <1>3, <2>1 DEF StepKeepsContract, StartsInOrder
  <2>3. outcome[f] = "pending"
    BY <2>2 DEF IInv, Sound, TasksSound
  <2>4. QED
    BY <2>2, <2>3 DEF Status
<1>4. QED
  BY <1>1, <1>2, <1>3
     DEF Contract!Step, Contract!Accepts, Contract!InOrder, Contract!Entries, Entries, Status

\* The command queue keeps the contract of its callers: a call is refused, or waits and is
\* cleared or started once and settled once, in the order of its lane (enqueueCommandInLane,
\* drainLane, clearCommandLane, resetAllLanes of command-queue.ts).
THEOREM ContractImplemented == Spec => ImplementsContract
<1>1. Init => Contract!Init
  BY DEF Init, Contract!Init, Entries, Contract!Entries
<1>2. IInv /\ IInv' /\ [Next]_vars => [Contract!Step]_(Contract!vars)
  BY NextKeepsContract, StepImplements
<1>3. QED
  BY <1>1, <1>2, InductiveInvariant, PTL DEF Spec, ImplementsContract, Contract!Spec

-----------------------------------------------------------------------------
(* The wait for active tasks.                                              *)

\* Generations never go back, and a task that goes on keeps the one it started in.
GenerationsKept ==
  /\ \A l \in Lanes : generation[l] <= generation'[l]
  /\ \A e \in running \cap running' : taskGeneration'[e] = taskGeneration[e]

LEMMA NextKeepsGenerations == IInv /\ [Next]_vars => GenerationsKept
<1> SUFFICES ASSUME IInv, [Next]_vars
             PROVE  GenerationsKept
  OBVIOUS
<1>0. generation \in [Lanes -> 0..MaxResets] /\ \A l \in Lanes : generation[l] \in Nat
  BY BoundsAssumption DEF IInv, TypeOK
<1>1. ASSUME NEW l \in Lanes, EnqueueCommandInLane(l)
      PROVE  GenerationsKept
  <2> DEFINE q2 == [queue EXCEPT ![l] = Append(@, arrivals + 1)]
  <2>1. /\ Typed(q2, active, generation, running, taskGeneration)
        /\ Sound(q2, active, generation, running, taskGeneration, laneOf', outcome')
    BY <1>1, EnqueuePumpsFrom
  <2>2. DrainLanes({l}, q2, active, maxConcurrent, generation, running) /\ generation' = generation
    BY <1>1 DEF EnqueueCommandInLane
  <2> HIDE DEF q2
  <2>3. \A e \in running : taskGeneration'[e] = taskGeneration[e]
    BY <2>1, <2>2, IInvTyped, DrainLanesStarts
  <2>4. QED
    BY <1>0, <2>2, <2>3 DEF GenerationsKept
<1>2. ASSUME NEW f \in Entries, NEW r \in Results, FinishTask(f, r)
      PROVE  GenerationsKept
  <2> DEFINE run2 == running \ {f}
  <2>1. /\ PumpedLanes(f) \in SUBSET Lanes
        /\ Typed(queue, CompleteTask(f), generation, run2, taskGeneration)
        /\ Sound(queue, CompleteTask(f), generation, run2, taskGeneration, laneOf, outcome')
    BY <1>2, FinishTaskPumpsFrom
  <2>2. /\ DrainLanes(PumpedLanes(f), queue, CompleteTask(f), maxConcurrent, generation, run2)
        /\ outcome' = [outcome EXCEPT ![f] = r]
        /\ generation' = generation
    BY <1>2 DEF FinishTask, PumpedLanes
  <2>3. \A e \in running : e # f => e \in run2
    OBVIOUS
  <2>4. f \notin run2
    OBVIOUS
  <2>5. outcome'[f] # "pending"
    BY <2>2 DEF IInv, TypeOK, Results
  <2> HIDE DEF run2
  <2>6. \A e \in run2 : taskGeneration'[e] = taskGeneration[e]
    BY <2>1, <2>2, IInvTyped, DrainLanesStarts
  <2>7. \A e \in running' : outcome'[e] = "pending"
    BY <1>2, NextKeepsIInv DEF IInv, Sound, TasksSound
  <2>8. QED
    BY <1>0, <2>2, <2>3, <2>4, <2>5, <2>6, <2>7 DEF GenerationsKept
<1>3. ASSUME NEW l \in Lanes, NEW n \in 0..MaxLimit, SetCommandLaneConcurrency(l, n)
      PROVE  GenerationsKept
  <2>1. maxConcurrent' \in [Lanes -> Nat]
    BY <1>3, BoundsAssumption DEF SetCommandLaneConcurrency, IInv, TypeOK, ClampLimit
  <2>2. /\ DrainLanes({l}, queue, active, maxConcurrent', generation, running)
        /\ generation' = generation
    BY <1>3 DEF SetCommandLaneConcurrency
  <2>3. /\ Typed(queue, active, generation, running, taskGeneration)
        /\ Sound(queue, active, generation, running, taskGeneration, laneOf, outcome)
    BY IInvTyped DEF IInv
  <2>4. \A e \in running : taskGeneration'[e] = taskGeneration[e]
    BY <2>1, <2>2, <2>3, DrainLanesStarts
  <2>5. QED
    BY <1>0, <2>2, <2>4 DEF GenerationsKept
<1>4. CASE ResetAllLanes
  <2> DEFINE none == [l \in Lanes |-> {}]
             L == {l \in Lanes : queue[l] # <<>>}
  <2>1. DrainLanes(L, queue, none, maxConcurrent, generation', running)
    BY <1>4 DEF ResetAllLanes
  <2>2. /\ Typed(queue, none, generation', running, taskGeneration)
        /\ Sound(queue, none, generation', running, taskGeneration, laneOf, outcome)
        /\ generation' \in [Lanes -> 0..MaxResets]
        /\ \A l \in Lanes : generation[l] < generation'[l]
    BY <1>4, ResetPumpsFrom
  <2>3. L \in SUBSET Lanes
    OBVIOUS
  <2> HIDE DEF none, L
  <2>4. \A e \in running : taskGeneration'[e] = taskGeneration[e]
    BY <2>1, <2>2, <2>3, IInvTyped, DrainLanesStarts
  <2>5. \A l \in Lanes : generation'[l] \in Nat
    BY <2>2, BoundsAssumption
  <2>6. QED
    BY <1>0, <2>2, <2>4, <2>5 DEF GenerationsKept
<1>5. CASE \/ RefuseEnqueue \/ MarkGatewayDraining \/ \E l \in Lanes : ClearCommandLane(l)
  BY <1>0, <1>5 DEF RefuseEnqueue, ClearCommandLane, MarkGatewayDraining, GenerationsKept
<1>6. CASE WaitForActiveTasks \/ PollActiveTasks \/ UNCHANGED vars
  BY <1>0, <1>6 DEF WaitForActiveTasks, PollActiveTasks, vars, GenerationsKept
<1>7. QED
  BY <1>1, <1>2, <1>3, <1>4, <1>5, <1>6 DEF Next

\* The tasks of the snapshot have started.
SnapshotStarted ==
  \A e \in waiter.ids : e \in running \/ outcome[e] \in Results

\* A step that leaves the waiter alone.
LEMMA OthersKeepReport ==
  ASSUME IInv, IInv', SnapshotStarted, DrainReportSound,
         StepKeepsContract, GenerationsKept, waiter' = waiter
  PROVE  SnapshotStarted' /\ DrainReportSound'
<1>1. \A e \in waiter.ids : e \in Entries
  BY DEF IInv, TypeOK
<1>2. \A e \in waiter.ids : Status(e) \in {"running"} \cup Results
  BY DEF SnapshotStarted, Status, IInv, Sound, TasksSound, Results
<1>3. ASSUME NEW e \in waiter.ids
      PROVE  /\ Status(e)' \in {"running"} \cup Results
             /\ e \in running' => e \in running
             /\ laneOf'[e] = laneOf[e]
  <2>1. MovesEntry(e) /\ LaneSetOnAccept(e)
    BY <1>1 DEF StepKeepsContract
  <2>2. Status(e)' \in {"running"} \cup Results
    BY <1>2, <2>1 DEF MovesEntry, Contract!Moves, Results
  <2>3. e \in running' => Status(e)' = "running"
    BY DEF IInv, Sound, TasksSound, Status
  <2>4. e \in running' => Status(e) = "running"
    BY <1>2, <2>1, <2>3 DEF MovesEntry, Contract!Moves, Results
  <2>5. e \in running' => e \in running
    BY <2>4 DEF Status, IInv, TypeOK, Outcomes, Settled, Results
  <2>6. laneOf'[e] = laneOf[e]
    BY <1>2, <2>1 DEF LaneSetOnAccept, Results
  <2>7. QED
    BY <2>2, <2>5, <2>6
<1>4. SnapshotStarted'
  <2> SUFFICES ASSUME NEW e \in waiter.ids, e \notin running'
               PROVE  outcome'[e] \in Results
    BY DEF SnapshotStarted
  <2>1. Status(e)' # "running"
    BY <1>1 DEF Status, IInv, TypeOK, Outcomes, Settled, Results
  <2>2. Status(e)' \in Results
    BY <1>3, <2>1
  <2>3. QED
    BY <2>2 DEF Status, Results
<1>5. ASSUME waiter.status = "drained", NEW e \in waiter.ids \cap running'
      PROVE  taskGeneration'[e] < generation'[laneOf'[e]]
  <2>1. e \in running /\ laneOf'[e] = laneOf[e] /\ taskGeneration[e] < generation[laneOf[e]]
    BY <1>3, <1>5 DEF DrainReportSound
  <2>2. laneOf[e] \in Lanes /\ taskGeneration'[e] = taskGeneration[e] /\ e \in Entries
    BY <1>1, <2>1 DEF GenerationsKept, IInv, Sound, TasksSound
  <2>3. /\ generation[laneOf[e]] <= generation'[laneOf[e]]
        /\ {taskGeneration[e], generation[laneOf[e]], generation'[laneOf[e]]} \subseteq Nat
    BY <2>2, BoundsAssumption DEF GenerationsKept, IInv, TypeOK
  <2>4. QED
    BY <2>1, <2>2, <2>3
<1>6. QED
  BY <1>4, <1>5 DEF DrainReportSound

\* A task in flight that holds no slot has lost it to a reset.
LEMMA SlotLostToReset ==
  ASSUME IInv, NEW e \in running, e \notin ActiveIds
  PROVE  taskGeneration[e] < generation[laneOf[e]]
<1>1. /\ laneOf[e] \in Lanes /\ taskGeneration[e] <= generation[laneOf[e]]
      /\ e \notin active[laneOf[e]]
  BY DEF IInv, Sound, TasksSound, ActiveIds
<1>2. taskGeneration[e] # generation[laneOf[e]]
  BY <1>1 DEF IInv, Sound, SlotsSound
<1>3. taskGeneration[e] \in Nat /\ generation[laneOf[e]] \in Nat
  BY <1>1, BoundsAssumption DEF IInv, TypeOK
<1>4. QED
  BY <1>1, <1>2, <1>3

LEMMA WaitKeepsReport ==
  ASSUME IInv, SnapshotStarted, WaitForActiveTasks \/ PollActiveTasks
  PROVE  SnapshotStarted' /\ DrainReportSound'
<1>1. UNCHANGED <<active, running, outcome, taskGeneration, generation, laneOf>>
  BY DEF WaitForActiveTasks, PollActiveTasks
<1>2. CASE WaitForActiveTasks
  <2>1. waiter'.ids = ActiveIds /\ (waiter'.status = "drained" => ActiveIds = {})
    BY <1>2 DEF WaitForActiveTasks
  <2>2. \A e \in ActiveIds : e \in running
    BY DEF ActiveIds, IInv, Sound, SlotsSound
  <2>3. QED
    BY <1>1, <2>1, <2>2 DEF SnapshotStarted, DrainReportSound
<1>3. CASE PollActiveTasks
  <2>1. waiter'.ids = waiter.ids /\ (waiter'.status = "drained" => waiter.ids \cap ActiveIds = {})
    BY <1>3 DEF PollActiveTasks, IInv, TypeOK
  <2>2. QED
    BY <1>1, <2>1, SlotLostToReset DEF SnapshotStarted, DrainReportSound
<1>4. QED
  BY <1>2, <1>3

\* When waitForActiveTasks answers `drained`, of the tasks that held a slot when it was
\* called only ones that a reset has abandoned since still run, and so it stays.
THEOREM DrainReportTrue == Spec => []DrainReportSound
<1>1. Init => SnapshotStarted /\ DrainReportSound
  BY DEF Init, SnapshotStarted, DrainReportSound
<1>2. ASSUME IInv, IInv', SnapshotStarted, DrainReportSound, [Next]_vars
      PROVE  SnapshotStarted' /\ DrainReportSound'
  <2>1. CASE WaitForActiveTasks \/ PollActiveTasks
    BY <1>2, <2>1, WaitKeepsReport
  <2>2. CASE waiter' = waiter
    BY <1>2, <2>2, NextKeepsContract, NextKeepsGenerations, OthersKeepReport
  <2>3. QED
    BY <1>2, <2>1, <2>2
       DEF Next, RefuseEnqueue, EnqueueCommandInLane, FinishTask, SetCommandLaneConcurrency,
           ClearCommandLane, MarkGatewayDraining, ResetAllLanes, vars
<1>3. QED
  BY <1>1, <1>2, InductiveInvariant, PTL DEF Spec
=============================================================================
