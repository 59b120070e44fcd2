----------------------------- MODULE AgentRuns -----------------------------
(***************************************************************************)
(* Agent runs on top of the command lanes (pi-embedded-runner/run.ts,      *)
(* lanes.ts and runs.ts, cron/service/ops.ts).  A run is two nested        *)
(* entries: one in the lane of its session, whose task puts a second one   *)
(* in a global lane and waits for it.  A manual cron run is a third entry  *)
(* around these, in the cron lane.  The attempt inside the global entry    *)
(* registers a handle for its session, through which others steer, abort   *)
(* or wait for the run.                                                    *)
(*                                                                         *)
(* The session task calls enqueueGlobal synchronously, so no other action  *)
(* comes between the start of a session entry and its nested call: that is *)
(* what the guard Quiet says.                                              *)
(***************************************************************************)
EXTENDS CommandLanes

CONSTANTS
  Sessions,           \* the lanes session:<key>
  Main, Cron, Nested  \* the global lanes

ASSUME LaneNamesAssumption ==
  /\ Sessions \subseteq Lanes
  /\ {Main, Cron, Nested} \subseteq Lanes \ Sessions
  /\ Cardinality({Main, Cron, Nested}) = 3

VARIABLES
  kind,        \* [Entries -> {"none", "cron", "session", "global"}]
  session,     \* [Entries -> Sessions \cup {NoLane}]  the session it is for
  wanted,      \* [Entries -> Lanes \cup {NoLane}]  params.lane of the run
  inner,       \* [Entries -> 0..MaxEntries] the nested call it waits for, or 0
  attempt,     \* [Entries -> {"none", "active", "done"}] its latest attempt
  activeRuns   \* [Sessions -> 0..MaxEntries]  ACTIVE_EMBEDDED_RUNS, 0: no handle

runVars == <<kind, session, wanted, inner, attempt, activeRuns>>
allVars == <<vars, runVars>>

RunsTypeOK ==
  /\ TypeOK
  /\ kind \in [Entries -> {"none", "cron", "session", "global"}]
  /\ session \in [Entries -> Sessions \cup {NoLane}]
  /\ wanted \in [Entries -> Lanes \cup {NoLane}]
  /\ inner \in [Entries -> 0..MaxEntries]
  /\ attempt \in [Entries -> {"none", "active", "done"}]
  /\ activeRuns \in [Sessions -> 0..MaxEntries]

RunsInit ==
  /\ Init
  /\ kind = [e \in Entries |-> "none"]
  /\ session = [e \in Entries |-> NoLane]
  /\ wanted = [e \in Entries |-> NoLane]
  /\ inner = [e \in Entries |-> 0]
  /\ attempt = [e \in Entries |-> "none"]
  /\ activeRuns = [s \in Sessions |-> 0]

-----------------------------------------------------------------------------
\* Mutant: a run made by a cron job asks for the lane its job holds.
GlobalLaneAsAsked(lane) == lane

\* Cron jobs hold a slot of the cron lane, their runs go to the nested lane.
ResolveGlobalLane(lane) == IF lane = Cron THEN Nested ELSE lane

\* A nested call that the running code has yet to make, synchronously.
NestedCallDue(e) == e \in running /\ kind[e] = "session" /\ inner[e] = 0

Quiet == \A e \in Entries : ~NestedCallDue(e)

\* Bound: a run is requested only if its nested calls fit in Entries too.
NestedCallsToCome ==
  Cardinality({e \in Entries : kind[e] = "session" /\ inner[e] = 0 /\ outcome[e] = "pending"})
    + 2 * Cardinality({e \in Entries : kind[e] = "cron" /\ inner[e] = 0 /\ outcome[e] = "pending"})
Room(n) == arrivals + NestedCallsToCome + n <= MaxEntries

\* Mutant: the entry is filed under its lane instead of its session.
CallForLane(l, k, s, w) ==
  /\ EnqueueCommandInLane(l) \/ RefuseEnqueue
  /\ kind' = [kind EXCEPT ![arrivals + 1] = k]
  /\ session' = [session EXCEPT ![arrivals + 1] = l]
  /\ wanted' = [wanted EXCEPT ![arrivals + 1] = w]

\* enqueueCommandInLane(l) for a task of kind k, session s and params.lane w.
Call(l, k, s, w) ==
  /\ EnqueueCommandInLane(l) \/ RefuseEnqueue
  /\ kind' = [kind EXCEPT ![arrivals + 1] = k]
  /\ session' = [session EXCEPT ![arrivals + 1] = s]
  /\ wanted' = [wanted EXCEPT ![arrivals + 1] = w]

\* runEmbeddedPiAgent for session s, called with lane w.
RunEmbeddedPiAgent(s, w) ==
  /\ Quiet
  /\ Room(2)
  /\ Call(s, "session", s, w)
  /\ UNCHANGED <<inner, attempt, activeRuns>>

\* enqueueRun of the cron service: the job's run happens inside the entry.
EnqueueCronRun(s) ==
  /\ Quiet
  /\ Room(3)
  /\ Call(Cron, "cron", s, NoLane)
  /\ UNCHANGED <<inner, attempt, activeRuns>>

\* The cron entry reaches the isolated agent turn, for lane "cron".
CronRunsAgent(e) ==
  /\ Quiet
  /\ e \in running /\ kind[e] = "cron" /\ inner[e] = 0
  /\ Call(session[e], "session", session[e], Cron)
  /\ inner' = [inner EXCEPT ![e] = arrivals + 1]
  /\ UNCHANGED <<attempt, activeRuns>>

\* The session entry's task: enqueueGlobal, and wait for it.
EnqueueGlobal(e) ==
  /\ NestedCallDue(e)
  /\ Call(ResolveGlobalLane(wanted[e]), "global", session[e], NoLane)
  /\ inner' = [inner EXCEPT ![e] = arrivals + 1]
  /\ UNCHANGED <<attempt, activeRuns>>

-----------------------------------------------------------------------------
\* setActiveEmbeddedRun: the attempt replaces whatever handle is there.  A run
\* that failed over makes a further attempt.
SetActiveEmbeddedRun(e) ==
  /\ Quiet
  /\ e \in running /\ kind[e] = "global" /\ attempt[e] # "active"
  /\ attempt' = [attempt EXCEPT ![e] = "active"]
  /\ activeRuns' = [activeRuns EXCEPT ![session[e]] = e]
  /\ UNCHANGED <<vars, kind, session, wanted, inner>>

\* Mutant: the handle of the session is removed whoever owns it.
ClearWithoutIdentity(e) ==
  /\ Quiet
  /\ e \in running /\ attempt[e] = "active"
  /\ attempt' = [attempt EXCEPT ![e] = "done"]
  /\ activeRuns' = [activeRuns EXCEPT ![session[e]] = 0]
  /\ UNCHANGED <<vars, kind, session, wanted, inner>>

\* clearActiveEmbeddedRun: only the handle that is registered is removed.
ClearActiveEmbeddedRun(e) ==
  /\ Quiet
  /\ e \in running /\ attempt[e] = "active"
  /\ attempt' = [attempt EXCEPT ![e] = "done"]
  /\ activeRuns' = [activeRuns EXCEPT ![session[e]] = IF @ = e THEN 0 ELSE @]
  /\ UNCHANGED <<vars, kind, session, wanted, inner>>

\* The global entry's task settles: after an attempt, or without one.
FinishGlobal(e, r) ==
  /\ Quiet
  /\ kind[e] = "global" /\ attempt[e] # "active"
  /\ FinishTask(e, r)
  /\ UNCHANGED runVars

\* Mutant: the session task does not wait for the call it made.
FinishOuterAtOnce(e) ==
  /\ Quiet
  /\ kind[e] = "session" /\ inner[e] # 0
  /\ FinishTask(e, "resolved")
  /\ UNCHANGED runVars

\* A session entry settles as the call it waits for did.
FinishOuter(e) ==
  /\ Quiet
  /\ kind[e] = "session" /\ inner[e] # 0
  /\ outcome[inner[e]] \in Settled
  /\ FinishTask(e, IF outcome[inner[e]] = "resolved" THEN "resolved" ELSE "rejected")
  /\ UNCHANGED runVars

\* A cron entry settles when its run has, without a run if the job is not due
\* any more, or while its run goes on when the job's timeout wins the race.
FinishCronRun(e, r) ==
  /\ Quiet
  /\ kind[e] = "cron"
  /\ FinishTask(e, r)
  /\ UNCHANGED runVars

CronRunIsOver(e) == inner[e] # 0 /\ outcome[inner[e]] \in Settled

-----------------------------------------------------------------------------
\* An abort, a reset or interrupt mode clears the lane of a session.
ClearSessionLane(s) == Quiet /\ ClearCommandLane(s) /\ UNCHANGED runVars

\* The run loop drains for a restart and later starts the next iteration.
DrainForRestart == Quiet /\ ~gatewayDraining /\ MarkGatewayDraining /\ UNCHANGED runVars
NextIteration   == Quiet /\ gatewayDraining /\ ResetAllLanes /\ UNCHANGED runVars

RunsNext ==
  \/ \E s \in Sessions : RunEmbeddedPiAgent(s, Main)
  \/ \E s \in Sessions : EnqueueCronRun(s)
  \/ \E e \in Entries : CronRunsAgent(e)
  \/ \E e \in Entries : EnqueueGlobal(e)
  \/ \E e \in Entries : SetActiveEmbeddedRun(e)
  \/ \E e \in Entries : ClearActiveEmbeddedRun(e)
  \/ \E e \in Entries, r \in Results : FinishGlobal(e, r)
  \/ \E e \in Entries : FinishOuter(e)
  \/ \E e \in Entries, r \in Results : FinishCronRun(e, r)
  \/ \E s \in Sessions : ClearSessionLane(s)
  \/ DrainForRestart
  \/ NextIteration

RunsSpec == RunsInit /\ [][RunsNext]_allVars

\* Code that runs goes on: a nested call is made, an attempt ends (its timeout
\* sees to that), an answer is passed on.  The loop over attempts gives up
\* after MAX_RUN_LOOP_ITERATIONS: strong fairness of its end.  A job need not
\* have a timeout: nothing is assumed of it.
RunsFairness ==
  \A e \in Entries :
    /\ WF_allVars(EnqueueGlobal(e))
    /\ WF_allVars(CronRunsAgent(e))
    /\ WF_allVars(ClearActiveEmbeddedRun(e))
    /\ SF_allVars(\E r \in Results : FinishGlobal(e, r))
    /\ WF_allVars(FinishOuter(e))
    /\ WF_allVars(CronRunIsOver(e) /\ \E r \in Results : FinishCronRun(e, r))

FairRunsSpec == RunsSpec /\ RunsFairness

-----------------------------------------------------------------------------
(* Properties.                                                             *)

\* The run in global entry e lost its session slot to a reset.
Abandoned(e) ==
  \E o \in Entries :
    inner[o] = e /\ kind[o] = "session" /\ taskGeneration[o] < generation[laneOf[o]]

InGlobalTask(e) == e \in running /\ kind[e] = "global"

\* Two runs of a session are never under way together, unless a reset took the
\* session lane's slot from one of them (the nesting of enqueueSession and
\* enqueueGlobal in run.ts).
OneLiveRunPerSession ==
  \A e, f \in Entries :
    (InGlobalTask(e) /\ InGlobalTask(f) /\ session[e] = session[f] /\ e # f)
      => Abandoned(e) \/ Abandoned(f)

\* A handle that can be found is one of an attempt under way in that session:
\* steering or aborting a session never reaches a run that has ended, also
\* when an abandoned run ends after a newer one has registered (runs.ts).
HandlesAreLive ==
  \A s \in Sessions :
    activeRuns[s] # 0 => attempt[activeRuns[s]] = "active" /\ session[activeRuns[s]] = s

\* The handle of a run under way disappears only when that run ends or a newer
\* attempt of the session replaces it: the late end of an abandoned run leaves
\* it alone (the identity check of clearActiveEmbeddedRun).
OnlyOwnerUnregisters ==
  [][\A s \in Sessions :
       (activeRuns[s] # 0 /\ activeRuns'[s] = 0) => attempt'[activeRuns[s]] = "done"]_allVars

\* No run waits for ever on a slot held by the run that waits for it: every
\* requested run and cron job is answered, whatever lanes the nested calls use
\* (resolveGlobalLane), through drains and resets.
EveryRunSettles ==
  \A e \in Entries : (outcome[e] = "pending") ~> (outcome[e] \in Settled)

\* As the comment on resetAllLanes puts it: what is queued is preserved and
\* still executes after the restart; the drain refuses new work only.
AcceptedRunIsNotRefused ==
  \A e \in Entries : kind[e] = "session" /\ inner[e] # 0 => outcome[inner[e]] # "refused"

=============================================================================
