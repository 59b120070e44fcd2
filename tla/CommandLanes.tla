---------------------------- MODULE CommandLanes ----------------------------
(***************************************************************************)
(* The in-process command queue of the gateway                             *)
(* (src/process/command-queue.ts).  Callers put tasks into named lanes;    *)
(* each lane starts its tasks in order, at most maxConcurrent at a time.   *)
(* A restart inside the process resets every lane: tasks still in flight   *)
(* are abandoned (they go on running, their completion is ignored) and the *)
(* entries that wait are started at once.                                  *)
(*                                                                         *)
(* JavaScript is single threaded: a handler runs to its first await        *)
(* without interruption, so each action below is one such stretch of code. *)
(* In particular the pump loop is part of every action that calls          *)
(* drainLane, and the flag `draining`, which is up only during that loop,  *)
(* is FALSE between any two actions and is not a variable here.            *)
(*                                                                         *)
(* An entry is a number in order of arrival.  The number of an entry also  *)
(* stands for the id nextTaskId++ gives it when it starts: either is used  *)
(* only to tell the tasks in flight apart.                                 *)
(***************************************************************************)
EXTENDS Integers, Sequences, FiniteSets

CONSTANTS
  Lanes,        \* lane names: "main", "cron", "session:<key>", ...
  NoLane,       \* lane of an entry that was never accepted
  MaxEntries,   \* bound: calls of enqueueCommandInLane
  MaxLimit,     \* bound: largest value given to setCommandLaneConcurrency
  MaxResets     \* bound: calls of resetAllLanes

ASSUME LanesAssumption  == IsFiniteSet(Lanes) /\ NoLane \notin Lanes
ASSUME BoundsAssumption == /\ MaxEntries \in Nat
                           /\ MaxLimit \in Nat \ {0}
                           /\ MaxResets \in Nat

Entries == 1..MaxEntries

VARIABLES
  gatewayDraining,  \* reject new entries: a restart is under way
  queue,            \* [Lanes -> Seq(Entries)]  state.queue
  active,           \* [Lanes -> SUBSET Entries]  state.activeTaskIds
  maxConcurrent,    \* [Lanes -> Nat]  state.maxConcurrent
  generation,       \* [Lanes -> Nat]  state.generation
  running,          \* entries whose task() has been called and not settled
  taskGeneration,   \* [Entries -> Nat] the generation captured at the start
  laneOf,           \* [Entries -> Lanes] the lane an entry was put in
  outcome,          \* [Entries -> Outcomes] the promise the caller holds
  arrivals,         \* calls of enqueueCommandInLane so far
  waiter            \* the waitForActiveTasks call: its snapshot and result

vars == <<gatewayDraining, queue, active, maxConcurrent, generation, running,
          taskGeneration, laneOf, outcome, arrivals, waiter>>

Results  == {"resolved", "rejected"}             \* task() settled
Settled  == Results \cup {"cleared", "refused"}  \* cleared lane, draining
Outcomes == Settled \cup {"new", "pending"}

TypeOK ==
  /\ gatewayDraining \in BOOLEAN
  /\ queue \in [Lanes -> Seq(Entries)]
  /\ active \in [Lanes -> SUBSET Entries]
  /\ maxConcurrent \in [Lanes -> 1..MaxLimit]
  /\ generation \in [Lanes -> 0..MaxResets]
  /\ running \in SUBSET Entries
  /\ taskGeneration \in [Entries -> 0..MaxResets]
  /\ laneOf \in [Entries -> Lanes \cup {NoLane}]
  /\ outcome \in [Entries -> Outcomes]
  /\ arrivals \in 0..MaxEntries
  /\ waiter \in [status : {"none", "waiting", "drained", "timedOut"},
                 ids : SUBSET Entries]

Init ==
  /\ gatewayDraining = FALSE
  /\ queue = [l \in Lanes |-> <<>>]
  /\ active = [l \in Lanes |-> {}]
  /\ maxConcurrent = [l \in Lanes |-> 1]
  /\ generation = [l \in Lanes |-> 0]
  /\ running = {}
  /\ taskGeneration = [e \in Entries |-> 0]
  /\ laneOf = [e \in Entries |-> NoLane]
  /\ outcome = [e \in Entries |-> "new"]
  /\ arrivals = 0
  /\ waiter = [status |-> "none", ids |-> {}]

-----------------------------------------------------------------------------
(* The pump loop: while the lane has a free slot and a queued entry, start *)
(* the entry at the head.                                                  *)

\* Mutant: the loop tests size <= maxConcurrent.
StartCountOffByOne(q, slots, limit) ==
  LET free == limit + 1 - Cardinality(slots)
  IN  IF free <= 0 THEN 0 ELSE IF free <= Len(q) THEN free ELSE Len(q)

StartCount(q, slots, limit) ==
  LET free == limit - Cardinality(slots)
  IN  IF free <= 0 THEN 0 ELSE IF free <= Len(q) THEN free ELSE Len(q)

Starts(q, slots, limit) == {q[i] : i \in 1..StartCount(q, slots, limit)}

\* Mutant: the entry started last is not shifted off the queue.
StillQueuedUnshifted(q, slots, limit) ==
  LET n == StartCount(q, slots, limit)
  IN  SubSeq(q, IF n = 0 THEN 1 ELSE n, Len(q))

StillQueued(q, slots, limit) == SubSeq(q, StartCount(q, slots, limit) + 1, Len(q))

\* drainLane for every lane of L, from queues q, active ids act, limits max,
\* generations gen and tasks in flight run.
DrainLanes(L, q, act, max, gen, run) ==
  LET begun == [l \in Lanes |->
                  IF l \in L THEN Starts(q[l], act[l], max[l]) ELSE {}]
  IN  /\ queue' = [l \in Lanes |->
                     IF l \in L THEN StillQueued(q[l], act[l], max[l]) ELSE q[l]]
      /\ active' = [l \in Lanes |-> act[l] \cup begun[l]]
      /\ running' = run \cup UNION {begun[l] : l \in Lanes}
      /\ taskGeneration' = [e \in Entries |->
           IF \E l \in Lanes : e \in begun[l]
           THEN gen[CHOOSE l \in Lanes : e \in begun[l]]
           ELSE taskGeneration[e]]

-----------------------------------------------------------------------------
\* A call while the gateway drains is rejected; the lane is not touched.
RefuseEnqueue ==
  /\ arrivals < MaxEntries
  /\ gatewayDraining
  /\ arrivals' = arrivals + 1
  /\ outcome' = [outcome EXCEPT ![arrivals + 1] = "refused"]
  /\ UNCHANGED <<gatewayDraining, queue, active, maxConcurrent, generation,
                 running, taskGeneration, laneOf, waiter>>

\* Mutant: the entry goes to the head of the lane.
EnqueueAtHead(l) ==
  /\ arrivals < MaxEntries
  /\ ~gatewayDraining
  /\ arrivals' = arrivals + 1
  /\ outcome' = [outcome EXCEPT ![arrivals + 1] = "pending"]
  /\ laneOf' = [laneOf EXCEPT ![arrivals + 1] = l]
  /\ DrainLanes({l}, [queue EXCEPT ![l] = <<arrivals + 1>> \o @],
                active, maxConcurrent, generation, running)
  /\ UNCHANGED <<gatewayDraining, maxConcurrent, generation, waiter>>

\* Any other call joins the tail of its lane, and the lane is drained.
EnqueueCommandInLane(l) ==
  /\ arrivals < MaxEntries
  /\ ~gatewayDraining
  /\ arrivals' = arrivals + 1
  /\ outcome' = [outcome EXCEPT ![arrivals + 1] = "pending"]
  /\ laneOf' = [laneOf EXCEPT ![arrivals + 1] = l]
  /\ DrainLanes({l}, [queue EXCEPT ![l] = Append(@, arrivals + 1)],
                active, maxConcurrent, generation, running)
  /\ UNCHANGED <<gatewayDraining, maxConcurrent, generation, waiter>>

\* completeTask: only a task of the lane's current generation gives its slot
\* back.
CompleteTask(e) ==
  LET l == laneOf[e]
  IN  IF taskGeneration[e] = generation[l]
      THEN [active EXCEPT ![l] = @ \ {e}]
      ELSE active

\* Mutant: the lane is pumped only when the task has resolved.
FinishTaskPumpOnSuccess(e, result) ==
  LET l == laneOf[e]
  IN  /\ e \in running
      /\ DrainLanes(IF taskGeneration[e] = generation[l] /\ result = "resolved"
                    THEN {l} ELSE {}, queue, CompleteTask(e),
                    maxConcurrent, generation, running \ {e})
      /\ outcome' = [outcome EXCEPT ![e] = result]
      /\ UNCHANGED <<gatewayDraining, maxConcurrent, generation, laneOf,
                     arrivals, waiter>>

\* task() of entry e settles: its slot is given back and the lane pumped if
\* the generation still matches, then the caller's promise settles.
FinishTask(e, result) ==
  LET l == laneOf[e]
      current == taskGeneration[e] = generation[l]
  IN  /\ e \in running
      /\ DrainLanes(IF current THEN {l} ELSE {}, queue, CompleteTask(e),
                    maxConcurrent, generation, running \ {e})
      /\ outcome' = [outcome EXCEPT ![e] = result]
      /\ UNCHANGED <<gatewayDraining, maxConcurrent, generation, laneOf,
                     arrivals, waiter>>

\* Mutant: the limit is taken as it is given.
UnclampedLimit(n) == n

ClampLimit(n) == IF n < 1 THEN 1 ELSE n

SetCommandLaneConcurrency(l, n) ==
  /\ maxConcurrent' = [maxConcurrent EXCEPT ![l] = ClampLimit(n)]
  /\ DrainLanes({l}, queue, active, maxConcurrent', generation, running)
  /\ UNCHANGED <<gatewayDraining, generation, laneOf, outcome, arrivals, waiter>>

\* Every queued entry is rejected; the tasks in flight are left alone.
ClearCommandLane(l) ==
  /\ queue[l] # <<>>
  /\ queue' = [queue EXCEPT ![l] = <<>>]
  /\ outcome' = [e \in Entries |->
                   IF \E i \in DOMAIN queue[l] : queue[l][i] = e
                   THEN "cleared" ELSE outcome[e]]
  /\ UNCHANGED <<gatewayDraining, active, maxConcurrent, generation, running,
                 taskGeneration, laneOf, arrivals, waiter>>

MarkGatewayDraining ==
  /\ gatewayDraining' = TRUE
  /\ UNCHANGED <<queue, active, maxConcurrent, generation, running,
                 taskGeneration, laneOf, outcome, arrivals, waiter>>

\* Mutant: the active ids of the old generation stay.
ResetKeepingSlots ==
  /\ \A l \in Lanes : generation[l] < MaxResets
  /\ gatewayDraining' = FALSE
  /\ generation' = [l \in Lanes |-> generation[l] + 1]
  /\ DrainLanes({l \in Lanes : queue[l] # <<>>}, queue, active,
                maxConcurrent, generation', running)
  /\ UNCHANGED <<maxConcurrent, laneOf, outcome, arrivals, waiter>>

\* Mutant: the lanes that hold entries are not drained after the reset.
ResetWithoutDrain ==
  /\ \A l \in Lanes : generation[l] < MaxResets
  /\ gatewayDraining' = FALSE
  /\ generation' = [l \in Lanes |-> generation[l] + 1]
  /\ active' = [l \in Lanes |-> {}]
  /\ UNCHANGED <<queue, maxConcurrent, running, taskGeneration, laneOf, outcome,
                 arrivals, waiter>>

\* Every lane moves to a new generation with no active task, then the lanes
\* that hold entries are drained.
ResetAllLanes ==
  /\ \A l \in Lanes : generation[l] < MaxResets
  /\ gatewayDraining' = FALSE
  /\ generation' = [l \in Lanes |-> generation[l] + 1]
  /\ DrainLanes({l \in Lanes : queue[l] # <<>>}, queue, [l \in Lanes |-> {}],
                maxConcurrent, generation', running)
  /\ UNCHANGED <<maxConcurrent, laneOf, outcome, arrivals, waiter>>

-----------------------------------------------------------------------------
(* waitForActiveTasks: a snapshot of the active ids, polled until none of  *)
(* them is active or the deadline has passed.  The first check is made by  *)
(* the call itself.  One call at a time, as the run loop makes them.       *)

ActiveIds == UNION {active[l] : l \in Lanes}

WaitForActiveTasks ==
  /\ waiter.status # "waiting"
  /\ waiter' = [status |-> IF ActiveIds = {} THEN "drained" ELSE "waiting",
                ids |-> ActiveIds]
  /\ UNCHANGED <<gatewayDraining, queue, active, maxConcurrent, generation,
                 running, taskGeneration, laneOf, outcome, arrivals>>

\* Mutant: the wait reports drained at its deadline.
PollReportsDrained ==
  /\ waiter.status = "waiting"
  /\ waiter' = [waiter EXCEPT !.status = "drained"]
  /\ UNCHANGED <<gatewayDraining, queue, active, maxConcurrent, generation,
                 running, taskGeneration, laneOf, outcome, arrivals>>

\* A poll that ends the wait: nothing of the snapshot is active, or something
\* is and the deadline has passed (which it may have at any poll).
PollActiveTasks ==
  /\ waiter.status = "waiting"
  /\ waiter' = [waiter EXCEPT !.status =
                  IF waiter.ids \cap ActiveIds = {} THEN "drained" ELSE "timedOut"]
  /\ UNCHANGED <<gatewayDraining, queue, active, maxConcurrent, generation,
                 running, taskGeneration, laneOf, outcome, arrivals>>

-----------------------------------------------------------------------------
Next ==
  \/ RefuseEnqueue
  \/ \E l \in Lanes : EnqueueCommandInLane(l)
  \/ \E e \in Entries, r \in Results : FinishTask(e, r)
  \/ \E l \in Lanes, n \in 0..MaxLimit : SetCommandLaneConcurrency(l, n)
  \/ \E l \in Lanes : ClearCommandLane(l)
  \/ MarkGatewayDraining
  \/ ResetAllLanes
  \/ WaitForActiveTasks
  \/ PollActiveTasks

Spec == Init /\ [][Next]_vars

\* A task is a promise that settles (an agent run is ended by its own
\* timeout), and the poll timer of waitForActiveTasks fires.
Fairness ==
  /\ \A e \in Entries : WF_vars(\E r \in Results : FinishTask(e, r))
  /\ WF_vars(PollActiveTasks)

FairSpec == Spec /\ Fairness

-----------------------------------------------------------------------------
(* Properties.                                                             *)

InQueue(e) == \E l \in Lanes : \E i \in DOMAIN queue[l] : queue[l][i] = e

\* The slots of a lane are exactly its tasks in flight of its current
\* generation: no task leaks its slot when it settles or fails, and a task
\* abandoned by resetAllLanes never gives back a slot that a newer task holds
\* (completeTask, the generation captured in the pump).
SlotsAreCurrentTasks ==
  \A l \in Lanes :
    active[l] = {e \in running : laneOf[e] = l /\ taskGeneration[e] = generation[l]}

\* No wakeup is lost: while entries wait in a lane all its slots are taken, so
\* a later call is never needed to get them started (the pump after every
\* enqueue, completion, change of limit and reset).
NoIdleLane ==
  \A l \in Lanes : queue[l] # <<>> => Cardinality(active[l]) >= maxConcurrent[l]

\* Every entry whose caller still waits is in one place: once in one queue, or
\* in flight; an entry in flight or queued has a caller that waits.  So no
\* call is forgotten and none runs twice, through clears and resets.
PendingIsSomewhere ==
  /\ \A l \in Lanes : \A i, j \in DOMAIN queue[l] :
       queue[l][i] = queue[l][j] => i = j
  /\ \A e \in Entries :
       /\ (outcome[e] = "pending") <=> (e \in running \/ InQueue(e))
       /\ ~(e \in running /\ InQueue(e))

\* A start never takes a lane past its limit, whatever the limit was when the
\* other tasks started (pump's loop condition).
StartsWithinLimit ==
  [][\A l \in Lanes :
       ~(active'[l] \subseteq active[l]) => Cardinality(active'[l]) <= maxConcurrent'[l]]_vars

\* The answer `drained` of waitForActiveTasks is true: of the tasks that held a
\* slot when it was called, only ones abandoned by a reset still run.
DrainReportSound ==
  waiter.status = "drained" =>
    \A e \in waiter.ids \cap running : taskGeneration[e] < generation[laneOf[e]]

\* Every call gets its answer: an accepted entry is at last run and settled or
\* cleared, also across a drain and a reset.
EveryCallSettles ==
  \A e \in Entries : (outcome[e] = "pending") ~> (outcome[e] \in Settled)

\* The queue keeps the contract of its callers (LaneContract).
Contract ==
  INSTANCE LaneContract WITH
    lane <- laneOf,
    status <- [e \in Entries |->
                 IF outcome[e] # "pending" THEN outcome[e]
                 ELSE IF e \in running THEN "running" ELSE "waiting"]

ImplementsContract == Contract!Spec

=============================================================================
