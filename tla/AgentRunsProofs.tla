---------------------------- MODULE AgentRunsProofs ----------------------------
(***************************************************************************)
(* Proofs about AgentRuns, for every set of lanes and sessions and every   *)
(* bound: the runs use the lanes as these allow, and what keeps two runs   *)
(* of a session apart is that the outer entry holds its slot for as long   *)
(* as the inner one is unanswered.                                         *)
(***************************************************************************)
EXTENDS AgentRuns, CommandLanesProofs

-----------------------------------------------------------------------------
(* The inductive invariant.                                                *)

\* Nothing is known of a call that has not been made; any other is for a session.
CallsSound ==
  \A e \in Entries :
    /\ e > arrivals => kind[e] = "none" /\ inner[e] = 0 /\ attempt[e] = "none"
    /\ kind[e] # "none" => session[e] \in Sessions

\* The entry of a session is in the lane of the session.
SessionCallsSound ==
  \A e \in Entries :
    kind[e] = "session" =>
      /\ wanted[e] \in {Main, Cron}
      /\ outcome[e] = "pending" => laneOf[e] = session[e]

\* A session's task is in flight as long as the call it made is unanswered.
NestingSound ==
  \A o \in Entries :
    inner[o] # 0 =>
      /\ inner[o] <= arrivals
      /\ kind[o] = "session" =>
           /\ kind[inner[o]] = "global" /\ session[inner[o]] = session[o]
           /\ outcome[inner[o]] = "pending" => o \in running

\* A call in a global lane was made by the task of a session.
GlobalCallsSound ==
  \A e \in Entries : kind[e] = "global" => \E o \in Entries : kind[o] = "session" /\ inner[o] = e

AttemptsSound ==
  \A e \in Entries : attempt[e] = "active" => e \in running /\ kind[e] = "global"

\* The limits stay as they were created, and were never exceeded.
OneSlotEach ==
  \A l \in Lanes : maxConcurrent[l] = 1 /\ Cardinality(active[l]) <= 1

RunsSound ==
  CallsSound /\ SessionCallsSound /\ NestingSound /\ GlobalCallsSound /\ AttemptsSound

RunsInv == IInv /\ RunsTypeOK /\ RunsSound /\ OneSlotEach /\ HandlesAreLive
LEMMA RunsTyped ==
  ASSUME RunsInv
  PROVE  /\ kind \in [Entries -> {"none", "cron", "session", "global"}]
         /\ session \in [Entries -> Sessions \cup {NoLane}]
         /\ wanted \in [Entries -> Lanes \cup {NoLane}]
         /\ inner \in [Entries -> 0..MaxEntries]
         /\ attempt \in [Entries -> {"none", "active", "done"}]
         /\ activeRuns \in [Sessions -> 0..MaxEntries]
         /\ running \in SUBSET Entries
         /\ \A x \in Entries : x \in Int
         /\ \A x \in Entries : inner[x] # 0 => inner[x] \in Entries
         /\ \A s \in Sessions : activeRuns[s] # 0 => activeRuns[s] \in Entries
<1>1. RunsTypeOK
  BY DEF RunsInv
<1>2. MaxEntries \in Nat
  BY BoundsAssumption
<1>3. \A x \in Entries : x \in Int
  BY <1>2 DEF Entries
<1>4. \A x \in Entries : inner[x] # 0 => inner[x] \in Entries
  BY <1>1, <1>2 DEF RunsTypeOK, Entries
<1>5. \A s \in Sessions : activeRuns[s] # 0 => activeRuns[s] \in Entries
  BY <1>1, <1>2 DEF RunsTypeOK, Entries
<1>6. running \in SUBSET Entries
  BY <1>1 DEF RunsTypeOK, TypeOK
<1>7. QED
  BY <1>1, <1>3, <1>4, <1>5, <1>6 DEF RunsTypeOK

-----------------------------------------------------------------------------
(* What the steps of the lanes leave alone.                                *)

\* The entry made by a call is numbered arrivals + 1; of the other entries none is
\* answered or leaves its task.
LEMMA CallFacts ==
  ASSUME RunsInv, NEW l \in Lanes, NEW k, NEW s, NEW w, Call(l, k, s, w)
  PROVE  /\ Next
         /\ arrivals + 1 \in Entries /\ arrivals \in Nat /\ arrivals' = arrivals + 1
         /\ running \subseteq running' /\ UNCHANGED maxConcurrent
         /\ \A x \in Entries : x # arrivals + 1 =>
              outcome'[x] = outcome[x] /\ laneOf'[x] = laneOf[x]
         /\ outcome'[arrivals + 1] = "pending" => laneOf'[arrivals + 1] = l
<1>1. /\ arrivals \in Nat /\ outcome \in [Entries -> Outcomes]
      /\ laneOf \in [Entries -> Lanes \cup {NoLane}]
  BY BoundsAssumption DEF RunsInv, IInv, TypeOK
<1>2. CASE EnqueueCommandInLane(l)
  <2>1. arrivals + 1 \in Entries
    BY <1>1, <1>2, BoundsAssumption DEF EnqueueCommandInLane, Entries
  <2>2. running \subseteq running'
    BY <1>2 DEF EnqueueCommandInLane, DrainLanes
  <2>3. QED
    BY <1>1, <1>2, <2>1, <2>2 DEF EnqueueCommandInLane, Next
<1>3. CASE RefuseEnqueue
  <2>1. arrivals + 1 \in Entries
    BY <1>1, <1>3, BoundsAssumption DEF RefuseEnqueue, Entries
  <2>2. QED
    BY <1>1, <1>3, <2>1 DEF RefuseEnqueue, Next
<1>4. QED
  BY <1>2, <1>3 DEF Call

\* No call is made, and only the tasks in gone end.
LanesGoOn(gone) ==
  /\ UNCHANGED <<arrivals, laneOf, maxConcurrent>>
  /\ running \ gone \subseteq running'
  /\ \A x \in Entries : outcome'[x] = "pending" => outcome[x] = "pending"

LEMMA LaneStepFacts ==
  ASSUME IInv
  PROVE  /\ \A e \in Entries, r \in Results : FinishTask(e, r) => LanesGoOn({e})
         /\ \A l \in Lanes : ClearCommandLane(l) => LanesGoOn({})
         /\ MarkGatewayDraining => LanesGoOn({})
         /\ ResetAllLanes => LanesGoOn({})
         /\ UNCHANGED vars => LanesGoOn({})
<1>1. outcome \in [Entries -> Outcomes]
  BY DEF IInv, TypeOK
<1>2. ASSUME NEW e \in Entries, NEW r \in Results, FinishTask(e, r)
      PROVE  LanesGoOn({e})
  <2>1. running \ {e} \subseteq running'
    BY <1>2 DEF FinishTask, DrainLanes
  <2>2. \A x \in Entries : outcome'[x] = "pending" => outcome[x] = "pending"
    BY <1>1, <1>2 DEF FinishTask, Results
  <2>3. UNCHANGED <<arrivals, laneOf, maxConcurrent>>
    BY <1>2 DEF FinishTask
  <2>4. QED
    BY <2>1, <2>2, <2>3 DEF LanesGoOn
<1>3. ASSUME NEW l \in Lanes, ClearCommandLane(l)
      PROVE  LanesGoOn({})
  BY <1>1, <1>3 DEF ClearCommandLane, LanesGoOn
<1>4. ASSUME MarkGatewayDraining
      PROVE  LanesGoOn({})
  BY <1>4 DEF MarkGatewayDraining, LanesGoOn
<1>5. ASSUME ResetAllLanes
      PROVE  LanesGoOn({})
  <2>1. running \subseteq running'
    BY <1>5 DEF ResetAllLanes, DrainLanes
  <2>2. QED
    BY <1>5, <2>1 DEF ResetAllLanes, LanesGoOn
<1>6. ASSUME UNCHANGED vars
      PROVE  LanesGoOn({})
  BY <1>6 DEF vars, LanesGoOn
<1>7. QED
  BY <1>2, <1>3, <1>4, <1>5, <1>6

-----------------------------------------------------------------------------
(* The actions of the runs, through the calls they make.                   *)

\* The call for a task of kind k and session s comes from outside, or is the nested call
\* of a task in flight.
Caller(k, s) ==
  \/ k # "global" /\ UNCHANGED inner
  \/ \E o \in running :
       /\ inner[o] = 0 /\ inner' = [inner EXCEPT ![o] = arrivals + 1]
       /\ \/ kind[o] = "session" /\ k = "global" /\ s = session[o]
          \/ kind[o] = "cron" /\ k = "session"

LEMMA CallKeepsRuns ==
  ASSUME RunsInv, TypeOK', NEW l \in Lanes, NEW k \in {"cron", "session", "global"},
         NEW s \in Sessions, NEW w \in Lanes \cup {NoLane}, Call(l, k, s, w),
         k = "session" => w \in {Main, Cron} /\ l = s,
         Caller(k, s), UNCHANGED <<attempt, activeRuns>>
  PROVE  RunsTypeOK' /\ RunsSound' /\ HandlesAreLive'
<1> DEFINE n == arrivals + 1
<1>1. /\ n \in Entries /\ arrivals \in Nat /\ arrivals' = n
      /\ running \subseteq running'
      /\ \A x \in Entries : x # n => outcome'[x] = outcome[x] /\ laneOf'[x] = laneOf[x]
      /\ outcome'[n] = "pending" => laneOf'[n] = l
  BY CallFacts
<1>2. /\ kind \in [Entries -> {"none", "cron", "session", "global"}]
      /\ session \in [Entries -> Sessions \cup {NoLane}]
      /\ wanted \in [Entries -> Lanes \cup {NoLane}]
      /\ inner \in [Entries -> 0..MaxEntries]
      /\ attempt \in [Entries -> {"none", "active", "done"}]
      /\ activeRuns \in [Sessions -> 0..MaxEntries]
      /\ running \in SUBSET Entries
      /\ \A x \in Entries : x \in Int
      /\ \A x \in Entries : inner[x] # 0 => inner[x] \in Entries
  BY RunsTyped
<1>3. /\ kind' = [kind EXCEPT ![n] = k] /\ session' = [session EXCEPT ![n] = s]
      /\ wanted' = [wanted EXCEPT ![n] = w]
      /\ attempt' = attempt /\ activeRuns' = activeRuns
  BY DEF Call
<1>4. kind[n] = "none" /\ inner[n] = 0 /\ attempt[n] = "none"
  BY <1>1 DEF RunsInv, RunsSound, CallsSound
<1>5. /\ \A x \in Entries : x # n => kind'[x] = kind[x] /\ session'[x] = session[x]
                                    /\ wanted'[x] = wanted[x]
      /\ kind'[n] = k /\ session'[n] = s /\ wanted'[n] = w
  BY <1>1, <1>2, <1>3
<1> HIDE DEF n
<1>6. /\ inner' \in [Entries -> 0..MaxEntries] /\ inner'[n] = 0
      /\ \A x \in Entries : inner[x] # 0 => inner'[x] = inner[x]
      /\ \A x \in Entries : inner'[x] # inner[x] =>
           /\ inner'[x] = n /\ x # n /\ x \in running
           /\ \/ kind[x] = "session" /\ k = "global" /\ s = session[x]
              \/ kind[x] = "cron" /\ k = "session"
      /\ k = "global" => \E x \in Entries : kind[x] = "session" /\ inner'[x] = n
  <2>1. CASE k # "global" /\ UNCHANGED inner
    BY <1>2, <1>4, <2>1
  <2>2. CASE \E o \in running :
               /\ inner[o] = 0 /\ inner' = [inner EXCEPT ![o] = n]
               /\ \/ kind[o] = "session" /\ k = "global" /\ s = session[o]
                  \/ kind[o] = "cron" /\ k = "session"
    <3>1. PICK o \in running :
               /\ inner[o] = 0 /\ inner' = [inner EXCEPT ![o] = n]
               /\ \/ kind[o] = "session" /\ k = "global" /\ s = session[o]
                  \/ kind[o] = "cron" /\ k = "session"
      BY <2>2
    <3>2. o \in Entries /\ o # n /\ n \in 0..MaxEntries
      BY <1>1, <1>2, <1>4, <3>1, BoundsAssumption DEF Entries
    <3>3. inner' \in [Entries -> 0..MaxEntries] /\ inner'[o] = n
          /\ \A x \in Entries : x # o => inner'[x] = inner[x]
      BY <1>2, <3>1, <3>2
    <3>4. QED
      BY <1>2, <1>4, <3>1, <3>2, <3>3
  <2>3. QED
    BY <2>1, <2>2 DEF Caller, n
<1>7. RunsTypeOK'
  BY <1>1, <1>2, <1>3, <1>6 DEF RunsTypeOK
<1>8. CallsSound'
  <2>1. ASSUME NEW e \in Entries, e > arrivals'
        PROVE  kind'[e] = "none" /\ inner'[e] = 0 /\ attempt'[e] = "none"
    <3>1. e > arrivals /\ e # n
      BY <1>1, <1>2, <2>1 DEF n
    <3>2. kind[e] = "none" /\ inner[e] = 0 /\ attempt[e] = "none"
      BY <3>1 DEF RunsInv, RunsSound, CallsSound
    <3>3. QED
      BY <1>3, <1>5, <1>6, <3>1, <3>2
  <2>2. QED
    BY <2>1, <1>5 DEF CallsSound, RunsInv, RunsSound
<1>9. SessionCallsSound'
  BY <1>1, <1>5 DEF SessionCallsSound, RunsInv, RunsSound
<1>10. NestingSound'
  <2> SUFFICES ASSUME NEW o \in Entries, inner'[o] # 0
               PROVE  /\ inner'[o] <= arrivals'
                      /\ kind'[o] = "session" =>
                           /\ kind'[inner'[o]] = "global" /\ session'[inner'[o]] = session'[o]
                           /\ outcome'[inner'[o]] = "pending" => o \in running'
    BY DEF NestingSound
  <2>1. CASE inner'[o] # inner[o]
    BY <1>1, <1>2, <1>5, <1>6, <2>1
  <2>2. CASE inner'[o] = inner[o]
    <3>1. o # n /\ inner[o] # 0 /\ inner[o] \in Entries
      BY <1>2, <1>4, <2>2
    <3>2. inner[o] <= arrivals /\ inner[o] # n
      BY <1>1, <1>2, <3>1 DEF n, RunsInv, RunsSound, NestingSound
    <3>3. kind'[o] = kind[o] /\ session'[o] = session[o] /\ kind'[inner[o]] = kind[inner[o]]
          /\ session'[inner[o]] = session[inner[o]] /\ outcome'[inner[o]] = outcome[inner[o]]
      BY <1>1, <1>5, <3>1, <3>2
    <3>4. inner[o] <= arrivals'
      BY <1>1, <1>2, <3>1, <3>2 DEF n
    <3>5. QED
      BY <1>1, <2>2, <3>1, <3>3, <3>4 DEF RunsInv, RunsSound, NestingSound
  <2>3. QED
    BY <2>1, <2>2
<1>11. GlobalCallsSound'
  <2> SUFFICES ASSUME NEW e \in Entries, kind'[e] = "global"
               PROVE  \E o \in Entries : kind'[o] = "session" /\ inner'[o] = e
    BY DEF GlobalCallsSound
  <2>1. CASE e = n
    BY <1>4, <1>5, <1>6, <2>1
  <2>2. CASE e # n
    <3>1. PICK o \in Entries : kind[o] = "session" /\ inner[o] = e
      BY <1>5, <2>2 DEF RunsInv, RunsSound, GlobalCallsSound
    <3>2. o # n /\ inner[o] # 0
      BY <1>4, <3>1, BoundsAssumption DEF Entries
    <3>3. QED
      BY <1>5, <1>6, <3>1, <3>2
  <2>3. QED
    BY <2>1, <2>2
<1>12. AttemptsSound'
  BY <1>1, <1>3, <1>4, <1>5 DEF AttemptsSound, RunsInv, RunsSound
<1>13. HandlesAreLive'
  <2> SUFFICES ASSUME NEW t \in Sessions, activeRuns[t] # 0
               PROVE  attempt[activeRuns[t]] = "active" /\ session'[activeRuns[t]] = t
    BY <1>3 DEF HandlesAreLive
  <2>1. activeRuns[t] \in Entries
    BY <1>2, BoundsAssumption DEF Entries
  <2>2. attempt[activeRuns[t]] = "active" /\ session[activeRuns[t]] = t
    BY DEF RunsInv, HandlesAreLive
  <2>3. QED
    BY <1>4, <1>5, <2>1, <2>2
<1>14. QED
  BY <1>7, <1>8, <1>9, <1>10, <1>11, <1>12, <1>13 DEF RunsSound

\* A step of the lanes alone: of the tasks that end none is in an attempt, and none waits
\* for a call of its own.
LEMMA LanesGoOnKeepsRuns ==
  ASSUME RunsInv, TypeOK', NEW gone \in SUBSET Entries, LanesGoOn(gone), UNCHANGED runVars,
         \A e \in gone :
           /\ attempt[e] # "active"
           /\ kind[e] = "session" => inner[e] # 0 /\ outcome[inner[e]] # "pending"
  PROVE  RunsTypeOK' /\ RunsSound' /\ HandlesAreLive'
<1>1. /\ kind' = kind /\ session' = session /\ wanted' = wanted /\ inner' = inner
      /\ attempt' = attempt /\ activeRuns' = activeRuns
  BY DEF runVars
<1>2. RunsTypeOK'
  BY <1>1 DEF RunsTypeOK, RunsInv
<1>3. CallsSound'
  BY <1>1 DEF LanesGoOn, CallsSound, RunsInv, RunsSound
<1>4. SessionCallsSound'
  BY <1>1 DEF LanesGoOn, SessionCallsSound, RunsInv, RunsSound
<1>5. NestingSound'
  <2> SUFFICES ASSUME NEW o \in Entries, inner[o] # 0
               PROVE  /\ inner[o] <= arrivals
                      /\ kind[o] = "session" =>
                           /\ kind[inner[o]] = "global" /\ session[inner[o]] = session[o]
                           /\ outcome'[inner[o]] = "pending" => o \in running'
    BY <1>1 DEF NestingSound, LanesGoOn
  <2>1. inner[o] \in Entries
    BY RunsTyped
  <2>2. QED
    BY <2>1 DEF LanesGoOn, NestingSound, RunsInv, RunsSound
<1>6. GlobalCallsSound'
  BY <1>1 DEF GlobalCallsSound, RunsInv, RunsSound
<1>7. AttemptsSound'
  BY <1>1 DEF LanesGoOn, AttemptsSound, RunsInv, RunsSound
<1>8. HandlesAreLive'
  BY <1>1 DEF HandlesAreLive, RunsInv
<1>9. QED
  BY <1>2, <1>3, <1>4, <1>5, <1>6, <1>7, <1>8 DEF RunsSound

\* An attempt begins or ends: the handle is the newest attempt's, or none.
LEMMA AttemptKeepsRuns ==
  ASSUME RunsInv, TypeOK', NEW e \in Entries,
         SetActiveEmbeddedRun(e) \/ ClearActiveEmbeddedRun(e)
  PROVE  RunsTypeOK' /\ RunsSound' /\ HandlesAreLive'
<1>1. /\ e \in running /\ kind[e] = "global" /\ session[e] \in Sessions
      /\ e <= arrivals /\ e \in 0..MaxEntries /\ e # 0 /\ arrivals \in Nat
  <2>1. e \in running /\ kind[e] = "global"
    BY DEF SetActiveEmbeddedRun, ClearActiveEmbeddedRun, RunsInv, RunsSound, AttemptsSound
  <2>2. e \in 0..MaxEntries /\ e # 0 /\ arrivals \in Nat
    BY BoundsAssumption DEF Entries, RunsInv, IInv, TypeOK
  <2>3. session[e] \in Sessions /\ ~(e > arrivals)
    BY <2>1 DEF RunsInv, RunsSound, CallsSound
  <2>4. QED
    BY <2>1, <2>2, <2>3
<1>2. /\ UNCHANGED <<arrivals, laneOf, outcome, running, kind, session, wanted, inner>>
      /\ attempt' \in [Entries -> {"none", "active", "done"}]
      /\ \A x \in Entries : x # e => attempt'[x] = attempt[x]
      /\ activeRuns' \in [Sessions -> 0..MaxEntries]
      /\ \A t \in Sessions : t # session[e] => activeRuns'[t] = activeRuns[t]
  <2>1. UNCHANGED <<arrivals, laneOf, outcome, running, kind, session, wanted, inner>>
    BY DEF SetActiveEmbeddedRun, ClearActiveEmbeddedRun, vars
  <2>2. PICK a \in {"active", "done"} : attempt' = [attempt EXCEPT ![e] = a]
    BY DEF SetActiveEmbeddedRun, ClearActiveEmbeddedRun
  <2>3. PICK h \in 0..MaxEntries : activeRuns' = [activeRuns EXCEPT ![session[e]] = h]
    <3>1. CASE SetActiveEmbeddedRun(e)
      BY <1>1, <3>1 DEF SetActiveEmbeddedRun
    <3>2. CASE ClearActiveEmbeddedRun(e) /\ activeRuns[session[e]] = e
      <4>1. 0 \in 0..MaxEntries
        BY BoundsAssumption
      <4>2. activeRuns' = [activeRuns EXCEPT ![session[e]] = 0]
        BY <3>2 DEF ClearActiveEmbeddedRun
      <4>3. QED
        BY <4>1, <4>2
    <3>3. CASE ClearActiveEmbeddedRun(e) /\ activeRuns[session[e]] # e
      BY <1>1, <3>3, RunsTyped DEF ClearActiveEmbeddedRun
    <3>4. QED
      BY <3>1, <3>2, <3>3
  <2>4. QED
    BY <1>1, <2>1, <2>2, <2>3, RunsTyped
<1>3. RunsTypeOK'
  BY <1>2, RunsTyped DEF RunsTypeOK
<1>4. CallsSound'
  BY <1>1, <1>2 DEF CallsSound, RunsInv, RunsSound
<1>5. SessionCallsSound' /\ NestingSound' /\ GlobalCallsSound'
  BY <1>2 DEF SessionCallsSound, NestingSound, GlobalCallsSound, RunsInv, RunsSound
<1>6. AttemptsSound'
  BY <1>1, <1>2 DEF AttemptsSound, RunsInv, RunsSound
<1>7. HandlesAreLive'
  <2> SUFFICES ASSUME NEW t \in Sessions, activeRuns'[t] # 0
               PROVE  attempt'[activeRuns'[t]] = "active" /\ session[activeRuns'[t]] = t
    BY <1>2 DEF HandlesAreLive
  <2>0. activeRuns[t] # 0 =>
          /\ activeRuns[t] \in Entries
          /\ attempt[activeRuns[t]] = "active" /\ session[activeRuns[t]] = t
    BY RunsTyped DEF RunsInv, HandlesAreLive
  <2>1. CASE t # session[e]
    BY <1>2, <2>0, <2>1
  <2>2. CASE t = session[e] /\ SetActiveEmbeddedRun(e)
    BY <1>1, <2>2, RunsTyped DEF SetActiveEmbeddedRun
  <2>3. CASE t = session[e] /\ ClearActiveEmbeddedRun(e)
    <3>1. activeRuns[t] # 0 /\ activeRuns[t] # e /\ activeRuns'[t] = activeRuns[t]
      BY <1>1, <2>3, RunsTyped DEF ClearActiveEmbeddedRun
    <3>2. QED
      BY <1>2, <2>0, <2>3, <3>1
  <2>4. QED
    BY <2>1, <2>2, <2>3
<1>8. QED
  BY <1>3, <1>4, <1>5, <1>6, <1>7 DEF RunsSound

-----------------------------------------------------------------------------
(* Every step.                                                             *)

\* A nested call is made for a session and goes to a lane.
LEMMA NestedCallFacts ==
  ASSUME RunsInv, NEW e \in Entries
  PROVE  /\ kind[e] # "none" => session[e] \in Sessions /\ session[e] \in Lanes
         /\ kind[e] = "session" => ResolveGlobalLane(wanted[e]) \in Lanes
         /\ NoLane \notin Sessions /\ {Main, Cron, Nested} \subseteq Lanes
BY LaneNamesAssumption, LanesAssumption
   DEF RunsInv, RunsSound, CallsSound, SessionCallsSound, ResolveGlobalLane

\* What the runs do to the lanes is a step of the lanes, or none; no limit is changed.
LEMMA RunsStepIsLaneStep ==
  ASSUME RunsInv, [RunsNext]_allVars
  PROVE  [Next]_vars /\ UNCHANGED maxConcurrent
<1>1. ASSUME NEW s \in Sessions, RunEmbeddedPiAgent(s, Main) \/ EnqueueCronRun(s)
      PROVE  Next /\ UNCHANGED maxConcurrent
  BY <1>1, CallFacts, LaneNamesAssumption DEF RunEmbeddedPiAgent, EnqueueCronRun
<1>2. ASSUME NEW e \in Entries, CronRunsAgent(e) \/ EnqueueGlobal(e)
      PROVE  Next /\ UNCHANGED maxConcurrent
  BY <1>2, CallFacts, NestedCallFacts DEF CronRunsAgent, EnqueueGlobal, NestedCallDue
<1>3. ASSUME NEW e \in Entries, SetActiveEmbeddedRun(e) \/ ClearActiveEmbeddedRun(e)
      PROVE  UNCHANGED vars
  BY <1>3 DEF SetActiveEmbeddedRun, ClearActiveEmbeddedRun
<1>4. ASSUME NEW e \in Entries, NEW r \in Results, FinishTask(e, r)
      PROVE  Next /\ UNCHANGED maxConcurrent
  BY <1>4 DEF FinishTask, Next
<1>5. ASSUME NEW e \in Entries, NEW r \in Results, FinishGlobal(e, r) \/ FinishCronRun(e, r)
      PROVE  Next /\ UNCHANGED maxConcurrent
  BY <1>4, <1>5 DEF FinishGlobal, FinishCronRun
<1>6. ASSUME NEW e \in Entries, FinishOuter(e)
      PROVE  Next /\ UNCHANGED maxConcurrent
  BY <1>4, <1>6 DEF FinishOuter, Results
<1>7. ASSUME NEW s \in Sessions, ClearSessionLane(s)
      PROVE  Next /\ UNCHANGED maxConcurrent
  BY <1>7, LaneNamesAssumption DEF ClearSessionLane, ClearCommandLane, Next
<1>8. CASE DrainForRestart \/ NextIteration
  BY <1>8 DEF DrainForRestart, NextIteration, MarkGatewayDraining, ResetAllLanes, Next
<1>9. CASE UNCHANGED allVars
  BY <1>9 DEF allVars, vars
<1>10. UNCHANGED vars => UNCHANGED maxConcurrent
  BY DEF vars
<1>11. QED
  BY <1>1, <1>2, <1>3, <1>5, <1>6, <1>7, <1>8, <1>9, <1>10 DEF RunsNext

LEMMA NextKeepsRuns ==
  ASSUME RunsInv, TypeOK', [RunsNext]_allVars
  PROVE  RunsTypeOK' /\ RunsSound' /\ HandlesAreLive'
<1> DEFINE Goal == RunsTypeOK' /\ RunsSound' /\ HandlesAreLive'
<1>1. ASSUME NEW s \in Sessions, RunEmbeddedPiAgent(s, Main)
      PROVE  Goal
  BY <1>1, CallKeepsRuns, LaneNamesAssumption DEF RunEmbeddedPiAgent, Caller
<1>2. ASSUME NEW s \in Sessions, EnqueueCronRun(s)
      PROVE  Goal
  BY <1>2, CallKeepsRuns, LaneNamesAssumption DEF EnqueueCronRun, Caller
<1>3. ASSUME NEW e \in Entries, CronRunsAgent(e)
      PROVE  Goal
  <2>1. Caller("session", session[e])
    BY <1>3 DEF CronRunsAgent, Caller
  <2>2. QED
    BY <1>3, <2>1, CallKeepsRuns, NestedCallFacts DEF CronRunsAgent
<1>4. ASSUME NEW e \in Entries, EnqueueGlobal(e)
      PROVE  Goal
  <2>1. Caller("global", session[e])
    BY <1>4 DEF EnqueueGlobal, NestedCallDue, Caller
  <2>2. QED
    BY <1>4, <2>1, CallKeepsRuns, NestedCallFacts DEF EnqueueGlobal, NestedCallDue
<1>5. ASSUME NEW e \in Entries, SetActiveEmbeddedRun(e) \/ ClearActiveEmbeddedRun(e)
      PROVE  Goal
  BY <1>5, AttemptKeepsRuns
<1>6. ASSUME NEW e \in Entries, NEW r \in Results, FinishTask(e, r), UNCHANGED runVars,
             attempt[e] # "active",
             kind[e] = "session" => inner[e] # 0 /\ outcome[inner[e]] # "pending"
      PROVE  Goal
  BY <1>6, LaneStepFacts, LanesGoOnKeepsRuns DEF RunsInv
<1>7. ASSUME NEW e \in Entries, attempt[e] = "active"
      PROVE  kind[e] = "global"
  BY <1>7 DEF RunsInv, RunsSound, AttemptsSound
<1>8. ASSUME NEW e \in Entries, NEW r \in Results, FinishGlobal(e, r) \/ FinishCronRun(e, r)
      PROVE  Goal
  BY <1>6, <1>7, <1>8 DEF FinishGlobal, FinishCronRun
<1>9. ASSUME NEW e \in Entries, FinishOuter(e)
      PROVE  Goal
  BY <1>6, <1>7, <1>9 DEF FinishOuter, Settled, Results
<1>10. LanesGoOn({}) /\ UNCHANGED runVars => Goal
  BY LanesGoOnKeepsRuns
<1>11. ASSUME NEW s \in Sessions, ClearSessionLane(s)
       PROVE  Goal
  BY <1>10, <1>11, LaneStepFacts, LaneNamesAssumption DEF ClearSessionLane, RunsInv
<1>12. CASE DrainForRestart \/ NextIteration
  BY <1>10, <1>12, LaneStepFacts DEF DrainForRestart, NextIteration, RunsInv
<1>13. CASE UNCHANGED allVars
  BY <1>10, <1>13, LaneStepFacts DEF allVars, RunsInv
<1>14. QED
  BY <1>1, <1>2, <1>3, <1>4, <1>5, <1>8, <1>9, <1>11, <1>12, <1>13 DEF RunsNext

LEMMA RunsInductive == RunsSpec => []RunsInv
<1>1. RunsInit => RunsInv
  <2> SUFFICES ASSUME RunsInit PROVE RunsInv
    OBVIOUS
  <2>1. IInv
    BY InitIInv DEF RunsInit
  <2>2. RunsTypeOK
    <3>1. 0 \in 0..MaxEntries
      BY BoundsAssumption
    <3>2. TypeOK
      BY <2>1 DEF IInv
    <3>3. QED
      BY <3>1, <3>2 DEF RunsInit, RunsTypeOK
  <2>3. RunsSound
    BY DEF RunsInit, RunsSound, CallsSound, SessionCallsSound, NestingSound, GlobalCallsSound,
           AttemptsSound
  <2>4. OneSlotEach
    BY FS_EmptySet DEF RunsInit, Init, OneSlotEach
  <2>5. HandlesAreLive
    BY DEF RunsInit, HandlesAreLive
  <2>6. QED
    BY <2>1, <2>2, <2>3, <2>4, <2>5 DEF RunsInv
<1>2. ASSUME RunsInv, [RunsNext]_allVars
      PROVE  RunsInv'
  <2>1. IInv' /\ StepFills
    BY <1>2, RunsStepIsLaneStep, NextKeepsIInv DEF RunsInv
  <2>2. RunsTypeOK' /\ RunsSound' /\ HandlesAreLive'
    BY <1>2, <2>1, NextKeepsRuns DEF IInv
  <2>3. OneSlotEach'
    <3>1. \A l \in Lanes : maxConcurrent'[l] = 1
      BY <1>2, RunsStepIsLaneStep DEF RunsInv, OneSlotEach
    <3>2. ASSUME NEW l \in Lanes, active'[l] \subseteq active[l]
          PROVE  Cardinality(active'[l]) <= 1
      <4>1. active[l] \in SUBSET Entries /\ active'[l] \in SUBSET Entries
        BY <1>2, <2>1 DEF RunsInv, IInv, TypeOK
      <4>2. /\ IsFiniteSet(active[l]) /\ Cardinality(active[l]) \in Nat
            /\ Cardinality(active'[l]) \in Nat
        BY <4>1, EntriesFinite
      <4>3. Cardinality(active'[l]) <= Cardinality(active[l])
        BY <3>2, <4>2, FS_Subset
      <4>4. QED
        BY <1>2, <4>2, <4>3 DEF RunsInv, OneSlotEach
    <3>3. QED
      BY <2>1, <3>1, <3>2 DEF StepFills, OneSlotEach
  <2>4. QED
    BY <2>1, <2>2, <2>3 DEF RunsInv
<1>3. QED
  BY <1>1, <1>2, PTL DEF RunsSpec

-----------------------------------------------------------------------------
\* The lanes under the agent runs behave as the lanes alone do: every theorem about
\* CommandLanes holds for the entries that runs make (run.ts, its two calls of
\* enqueueCommandInLane).
THEOREM LanesUnderRuns == RunsSpec => Spec
<1>1. RunsInit => Init
  BY DEF RunsInit
<1>2. RunsInv /\ [RunsNext]_allVars => [Next]_vars
  BY RunsStepIsLaneStep
<1>3. QED
  BY <1>1, <1>2, RunsInductive, PTL DEF RunsSpec, Spec

\* The entries of runs, their nested calls, attempts and handles are well typed.
THEOREM RunsTypes == RunsSpec => []RunsTypeOK
<1>1. RunsInv => RunsTypeOK
  BY DEF RunsInv
<1>2. QED
  BY <1>1, RunsInductive, PTL

\* The handle found for a session is of an attempt under way in it: steering and aborting
\* never reach a run that has ended (setActiveEmbeddedRun, clearActiveEmbeddedRun).
THEOREM HandlesLive == RunsSpec => []HandlesAreLive
<1>1. RunsInv => HandlesAreLive
  BY DEF RunsInv
<1>2. QED
  BY <1>1, RunsInductive, PTL

\* Two runs of a session are never under way together, but for one whose session slot was
\* taken by a reset: the two session entries would hold two slots of a lane that has one
\* (enqueueSession around enqueueGlobal in run.ts).
THEOREM OneRunPerSession == RunsSpec => []OneLiveRunPerSession
<1>1. ASSUME RunsInv
      PROVE  OneLiveRunPerSession
  <2> SUFFICES ASSUME NEW e \in Entries, NEW f \in Entries, InGlobalTask(e), InGlobalTask(f),
                      session[e] = session[f], e # f, ~Abandoned(e), ~Abandoned(f)
               PROVE  FALSE
    BY DEF OneLiveRunPerSession
  <2>1. ASSUME NEW g \in Entries, InGlobalTask(g), ~Abandoned(g)
        PROVE  \E o \in Entries : inner[o] = g /\ session[g] \in Lanes /\ o \in active[session[g]]
    <3>1. /\ g # 0 /\ g \in running /\ kind[g] = "global"
          /\ outcome[g] = "pending"
      BY <1>1, <2>1, BoundsAssumption DEF InGlobalTask, RunsInv, IInv, Sound, TasksSound, Entries
    <3>2. PICK o \in Entries : kind[o] = "session" /\ inner[o] = g
      BY <1>1, <3>1 DEF RunsInv, RunsSound, GlobalCallsSound
    <3>3. o \in running /\ session[o] = session[g]
      BY <1>1, <3>1, <3>2 DEF RunsInv, RunsSound, NestingSound
    <3>4. outcome[o] = "pending" /\ taskGeneration[o] <= generation[laneOf[o]]
      BY <1>1, <3>3 DEF RunsInv, IInv, Sound, TasksSound
    <3>5. laneOf[o] = session[g] /\ session[g] \in Lanes
      BY <1>1, <3>2, <3>3, <3>4, NestedCallFacts DEF RunsInv, RunsSound, SessionCallsSound
    <3>6. taskGeneration[o] \in Nat /\ generation[laneOf[o]] \in Nat
      BY <1>1, <3>5, BoundsAssumption DEF RunsInv, IInv, TypeOK
    <3>7. taskGeneration[o] = generation[laneOf[o]]
      BY <2>1, <3>2, <3>4, <3>6 DEF Abandoned
    <3>8. QED
      BY <1>1, <3>2, <3>3, <3>5, <3>7 DEF RunsInv, IInv, Sound, SlotsSound
  <2>2. PICK o \in Entries : inner[o] = e /\ session[e] \in Lanes /\ o \in active[session[e]]
    BY <2>1
  <2>3. PICK p \in Entries : inner[p] = f /\ p \in active[session[e]]
    BY <2>1
  <2>4. active[session[e]] \in SUBSET Entries /\ Cardinality(active[session[e]]) <= 1
    BY <1>1, <2>2 DEF RunsInv, IInv, TypeOK, OneSlotEach
  <2>5. Cardinality({o, p}) = 2
    <3>1. o # p /\ {o, p} = {o} \cup {p}
      BY <2>2, <2>3
    <3>2. IsFiniteSet({o}) /\ Cardinality({o}) = 1
      BY FS_Singleton
    <3>3. QED
      BY <3>1, <3>2, FS_AddElement
  <2>6. Cardinality({o, p}) <= Cardinality(active[session[e]])
    BY <2>2, <2>3, <2>4, EntriesFinite, FS_Subset
  <2>7. QED
    BY <2>4, <2>5, <2>6, EntriesFinite
<1>2. QED
  BY <1>1, RunsInductive, PTL

\* A handle disappears from its session only as its own attempt ends: the late end of an
\* abandoned run leaves the handle of a newer one (the identity check of
\* clearActiveEmbeddedRun).
THEOREM OwnerUnregisters == RunsSpec => OnlyOwnerUnregisters
<1>1. ASSUME RunsInv, [RunsNext]_allVars, NEW s \in Sessions,
             activeRuns[s] # 0, activeRuns'[s] = 0
      PROVE  attempt'[activeRuns[s]] = "done"
  <2>1. PICK e \in Entries : SetActiveEmbeddedRun(e) \/ ClearActiveEmbeddedRun(e)
    <3>1. activeRuns' # activeRuns
      BY <1>1
    <3>2. QED
      BY <1>1, <3>1 DEF RunsNext, allVars, runVars, RunEmbeddedPiAgent, EnqueueCronRun,
            CronRunsAgent, EnqueueGlobal, FinishGlobal, FinishOuter, FinishCronRun,
            ClearSessionLane, DrainForRestart, NextIteration
  <2>2. e # 0 /\ e \in running
    BY <2>1, BoundsAssumption DEF Entries, SetActiveEmbeddedRun, ClearActiveEmbeddedRun
  <2>3. CASE SetActiveEmbeddedRun(e)
    BY <1>1, <2>2, <2>3, RunsTyped DEF SetActiveEmbeddedRun
  <2>4. CASE ClearActiveEmbeddedRun(e)
    <3>1. s = session[e] /\ activeRuns[s] = e
      BY <1>1, <2>4, RunsTyped DEF ClearActiveEmbeddedRun
    <3>2. QED
      BY <1>1, <2>4, <3>1, RunsTyped DEF ClearActiveEmbeddedRun
  <2>5. QED
    BY <2>1, <2>3, <2>4
<1>2. RunsInv /\ [RunsNext]_allVars =>
        [\A s \in Sessions :
           (activeRuns[s] # 0 /\ activeRuns'[s] = 0) => attempt'[activeRuns[s]] = "done"]_allVars
  BY <1>1
<1>3. QED
  BY <1>2, RunsInductive, PTL DEF RunsSpec, OnlyOwnerUnregisters

=============================================================================
