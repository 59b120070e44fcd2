-------------------------- MODULE GatewayRunLoopProofs --------------------------
(***************************************************************************)
(* Proofs about GatewayRunLoop, for every set of lanes and every bound:    *)
(* the run loop uses the lanes as their own specification allows, so all   *)
(* that is proved of them holds under it too; what it does to the lock and *)
(* to the drain flag follows from an invariant over its own variables.     *)
(***************************************************************************)
EXTENDS GatewayRunLoop, CommandLanesProofs

\* A drain that is about to begin keeps the process, and a restart under way keeps the
\* lanes closed to new work.
DrainSound ==
  /\ handler = "draining" => process = "alive"
  /\ action = "restart" /\ shuttingDown => gatewayDraining

\* The file is there only while the variable says so, or will; past its release the
\* handler and the loop have none, whatever the other one does.
LockSound ==
  /\ lockFile = "ours" => lock \/ handler = "reacquired"
  /\ loop = "removed" => lockFile # "ours"
  /\ handler \in {"removed", "released", "lockless", "reacquiring"} => lockFile # "ours"
  /\ handler \in {"released", "lockless", "reacquiring", "reacquired"} => ~lock
  /\ OrderlyExitFreesLock

\* Without an overlap of releases, the variable and the file agree but between a removal
\* and its continuation.
ReleasesApart ==
  ~overlapped /\ process = "alive" =>
    /\ loop \in Releasing \/ handler \in Releasing => lock
    /\ ~(loop \in Releasing /\ handler \in Releasing)
    /\ lock /\ loop # "removed" /\ handler # "removed" => lockFile = "ours"
    /\ handler = "reacquired" => lockFile = "ours"

LoopInv == GatewayTypeOK /\ DrainSound /\ LockSound /\ ReleasesApart

GatewayInv == IInv /\ LoopInv

-----------------------------------------------------------------------------
\* Whatever the run loop does to the lanes is a step of the lanes, or none.
LEMMA LoopStepIsLaneStep == [GatewayNext]_gatewayVars => [Next]_vars
<1> USE DEF Next
<1> SUFFICES ASSUME [GatewayNext]_gatewayVars
             PROVE  [Next]_vars
  OBVIOUS
<1>1. CASE \/ StartSucceeds \/ StartFails \/ LoopRemovesLockFile \/ LoopReleased
           \/ Stop \/ CloseServer \/ ForceExit \/ RemoveLockFile \/ Released
           \/ StopAfterClose \/ RespawnAfterClose \/ CreateLockFile \/ ReacquireFails
           \/ OtherGatewayStarts \/ OtherGatewayStops
  BY <1>1 DEF StartSucceeds, StartFails, LoopRemovesLockFile, LoopReleased, Stop,
              CloseServer, ForceExit, RemoveLockFile, Released, StopAfterClose,
              RespawnAfterClose, CreateLockFile, ReacquireFails, OtherGatewayStarts,
              OtherGatewayStops
<1>2. CASE Restart \/ DrainBegins \/ DrainEnds
  BY <1>2 DEF Restart, DrainBegins, DrainEnds
<1>3. CASE InProcessAfterClose \/ ReacquireLock
  BY <1>3 DEF InProcessAfterClose, ReacquireLock, WakeLoop
<1>4. CASE \E l \in Lanes : Request(l)
  BY <1>4 DEF Request
<1>5. CASE \E e \in Entries, r \in Results : TaskEnds(e, r)
  BY <1>5 DEF TaskEnds
<1>6. CASE UNCHANGED gatewayVars
  BY <1>6 DEF gatewayVars
<1>7. QED
  BY <1>1, <1>2, <1>3, <1>4, <1>5, <1>6 DEF GatewayNext, HandlerStep

\* The lanes of a gateway behave as the lanes alone do: every theorem about CommandLanes
\* holds through any number of restarts (run-loop.ts, its calls of command-queue.ts).
THEOREM LanesUnderRunLoop == GatewaySpec => Spec
<1>1. GatewayInit => Init
  BY DEF GatewayInit
<1>2. QED
  BY <1>1, LoopStepIsLaneStep, PTL DEF GatewaySpec, Spec

\* The drain flag is changed by the signal and by the reset only.
LEMMA DrainFlagFacts ==
  /\ MarkGatewayDraining => gatewayDraining'
  /\ \A l \in Lanes :
       EnqueueCommandInLane(l) \/ RefuseEnqueue => gatewayDraining' = gatewayDraining
  /\ \A e \in Entries, r \in Results :
       FinishTask(e, r) => gatewayDraining' = gatewayDraining
  /\ WaitForActiveTasks \/ PollActiveTasks => gatewayDraining' = gatewayDraining
  /\ UNCHANGED vars => gatewayDraining' = gatewayDraining
BY DEF MarkGatewayDraining, EnqueueCommandInLane, RefuseEnqueue, FinishTask,
       WaitForActiveTasks, PollActiveTasks, vars

\* The loop's own part of the invariant.
LEMMA LoopKeepsInv ==
  ASSUME LoopInv, TypeOK', [GatewayNext]_gatewayVars
  PROVE  LoopInv'
<1> USE DEF LoopInv, GatewayTypeOK, DrainSound, LockSound, OrderlyExitFreesLock,
            ReleasesApart, Releasing, Running
<1>1. CASE StartSucceeds
  <2>1. GatewayTypeOK'
    BY <1>1 DEF StartSucceeds
  <2>2. DrainSound'
    BY <1>1, DrainFlagFacts DEF StartSucceeds
  <2>3. LockSound'
    BY <1>1 DEF StartSucceeds
  <2>4. ReleasesApart'
    BY <1>1 DEF StartSucceeds
  <2>5. QED
    BY <2>1, <2>2, <2>3, <2>4
<1>2. CASE StartFails
  <2>1. GatewayTypeOK'
    BY <1>2 DEF StartFails, AfterFailedStart
  <2>2. DrainSound'
    BY <1>2, DrainFlagFacts DEF StartFails, AfterFailedStart
  <2>3. LockSound'
    BY <1>2 DEF StartFails, AfterFailedStart
  <2>4. ReleasesApart'
    BY <1>2 DEF StartFails, AfterFailedStart
  <2>5. QED
    BY <2>1, <2>2, <2>3, <2>4
<1>3. CASE LoopRemovesLockFile
  <2>1. GatewayTypeOK'
    BY <1>3 DEF LoopRemovesLockFile
  <2>2. DrainSound'
    BY <1>3, DrainFlagFacts DEF LoopRemovesLockFile
  <2>3. LockSound'
    BY <1>3 DEF LoopRemovesLockFile
  <2>4. ReleasesApart'
    BY <1>3 DEF LoopRemovesLockFile
  <2>5. QED
    BY <2>1, <2>2, <2>3, <2>4
<1>4. CASE LoopReleased
  <2>1. GatewayTypeOK'
    BY <1>4 DEF LoopReleased, AfterFailedStart
  <2>2. DrainSound'
    BY <1>4, DrainFlagFacts DEF LoopReleased, AfterFailedStart
  <2>3. LockSound'
    BY <1>4 DEF LoopReleased, AfterFailedStart
  <2>4. ReleasesApart'
    BY <1>4 DEF LoopReleased, AfterFailedStart
  <2>5. QED
    BY <2>1, <2>2, <2>3, <2>4
<1>5. CASE Stop
  BY <1>5, DrainFlagFacts DEF Stop
<1>6. CASE Restart
  BY <1>6, DrainFlagFacts DEF Restart
<1>7. CASE DrainBegins \/ DrainEnds
  <2>1. /\ handler \in {"draining", "waitingForTasks"}
        /\ handler' \in {"closing", "waitingForTasks"}
        /\ UNCHANGED <<loop, server, lock, lockFile, isFirstStart, shuttingDown>>
        /\ UNCHANGED <<action, process, overlapped, gatewayDraining>>
    BY <1>7, DrainFlagFacts DEF DrainBegins, DrainEnds
  <2>2. QED
    BY <2>1
<1>8. CASE CloseServer
  <2>1. /\ handler = "closing" /\ UNCHANGED <<loop, lock, lockFile, isFirstStart>>
        /\ UNCHANGED <<shuttingDown, action, process, gatewayDraining>>
        /\ server' = "down"
    BY <1>8, DrainFlagFacts DEF CloseServer
  <2>2. CASE lock
    <3>1. GatewayTypeOK'
      BY <1>8, <2>1, <2>2 DEF CloseServer
    <3>2. DrainSound'
      BY <1>8, <2>1, <2>2 DEF CloseServer
    <3>3. LockSound'
      BY <1>8, <2>1, <2>2 DEF CloseServer
    <3>4. ReleasesApart'
      BY <1>8, <2>1, <2>2 DEF CloseServer
    <3>5. QED
      BY <3>1, <3>2, <3>3, <3>4
  <2>3. CASE ~lock
    BY <1>8, <2>1, <2>3 DEF CloseServer
  <2>4. QED
    BY <2>2, <2>3
<1>9. CASE ForceExit
  <2>1. GatewayTypeOK'
    BY <1>9 DEF ForceExit
  <2>2. DrainSound'
    BY <1>9, DrainFlagFacts DEF ForceExit
  <2>3. LockSound'
    BY <1>9 DEF ForceExit
  <2>4. ReleasesApart'
    BY <1>9 DEF ForceExit
  <2>5. QED
    BY <2>1, <2>2, <2>3, <2>4
<1>10. CASE RemoveLockFile
  <2>1. GatewayTypeOK'
    BY <1>10 DEF RemoveLockFile
  <2>2. DrainSound'
    BY <1>10, DrainFlagFacts DEF RemoveLockFile
  <2>3. LockSound'
    BY <1>10 DEF RemoveLockFile
  <2>4. ReleasesApart'
    BY <1>10 DEF RemoveLockFile
  <2>5. QED
    BY <2>1, <2>2, <2>3, <2>4
<1>11. CASE Released
  <2>1. GatewayTypeOK'
    BY <1>11 DEF Released
  <2>2. DrainSound'
    BY <1>11, DrainFlagFacts DEF Released
  <2>3. LockSound'
    BY <1>11 DEF Released
  <2>4. ReleasesApart'
    BY <1>11 DEF Released
  <2>5. QED
    BY <2>1, <2>2, <2>3, <2>4
<1>12. CASE StopAfterClose
  BY <1>12, DrainFlagFacts DEF StopAfterClose
<1>13. CASE RespawnAfterClose
  BY <1>13, DrainFlagFacts DEF RespawnAfterClose
<1>14. CASE InProcessAfterClose
  <2>1. CASE handler = "released"
    BY <1>14, <2>1, DrainFlagFacts DEF InProcessAfterClose
  <2>2. CASE handler = "lockless"
    BY <1>14, <2>2 DEF InProcessAfterClose, WakeLoop
  <2>3. QED
    BY <1>14, <2>1, <2>2 DEF InProcessAfterClose
<1>15. CASE CreateLockFile
  <2>1. GatewayTypeOK'
    BY <1>15 DEF CreateLockFile
  <2>2. DrainSound'
    BY <1>15, DrainFlagFacts DEF CreateLockFile
  <2>3. LockSound'
    BY <1>15 DEF CreateLockFile
  <2>4. ReleasesApart'
    BY <1>15 DEF CreateLockFile
  <2>5. QED
    BY <2>1, <2>2, <2>3, <2>4
<1>16. CASE ReacquireLock
  BY <1>16 DEF ReacquireLock, WakeLoop
<1>17. CASE ReacquireFails
  BY <1>17, DrainFlagFacts DEF ReacquireFails
<1>18. CASE OtherGatewayStarts \/ OtherGatewayStops
  BY <1>18, DrainFlagFacts DEF OtherGatewayStarts, OtherGatewayStops
<1>19. CASE \E l \in Lanes : Request(l)
  BY <1>19, DrainFlagFacts DEF Request, loopVars
<1>20. CASE \E e \in Entries, r \in Results : TaskEnds(e, r)
  BY <1>20, DrainFlagFacts DEF TaskEnds, loopVars
<1>21. CASE UNCHANGED gatewayVars
  BY <1>21, DrainFlagFacts DEF gatewayVars, loopVars
<1>22. QED
  BY <1>1, <1>2, <1>3, <1>4, <1>5, <1>6, <1>7, <1>8, <1>9, <1>10, <1>11, <1>12, <1>13,
     <1>14, <1>15, <1>16, <1>17, <1>18, <1>19, <1>20, <1>21 DEF GatewayNext, HandlerStep

LEMMA GatewayInductive == GatewaySpec => []GatewayInv
<1>1. GatewayInit => GatewayInv
  <2>1. GatewayInit => IInv
    BY InitIInv DEF GatewayInit
  <2>2. GatewayInit /\ IInv => LoopInv
    BY DEF GatewayInit, IInv, LoopInv, GatewayTypeOK, DrainSound, LockSound,
           ReleasesApart, OrderlyExitFreesLock, Releasing
  <2>3. QED
    BY <2>1, <2>2 DEF GatewayInv
<1>2. ASSUME GatewayInv, [GatewayNext]_gatewayVars
      PROVE  GatewayInv'
  <2>1. IInv'
    BY <1>2, LoopStepIsLaneStep, NextKeepsIInv DEF GatewayInv
  <2>2. TypeOK'
    BY <2>1 DEF IInv
  <2>3. QED
    BY <1>2, <2>1, <2>2, LoopKeepsInv DEF GatewayInv
<1>3. QED
  BY <1>1, <1>2, PTL DEF GatewaySpec

-----------------------------------------------------------------------------
\* The state of the run loop is well typed; a shutdown is under way exactly while the
\* coroutine of request() is.
THEOREM GatewayTypes == GatewaySpec => []GatewayTypeOK
<1>1. GatewayInv => GatewayTypeOK
  BY DEF GatewayInv, LoopInv
<1>2. QED
  BY <1>1, GatewayInductive, PTL

\* A process that ended in order, or spawned its successor, has left no lock file of its
\* own, wherever the signal found the loop: the removal is awaited before the exit and
\* before the spawn, and nothing of the loop's brings the file back (releaseLockIfHeld,
\* handleStopAfterServerClose, handleRestartAfterServerClose).
THEOREM ExitFreesLock == GatewaySpec => []OrderlyExitFreesLock
<1>1. GatewayInv => OrderlyExitFreesLock
  BY DEF GatewayInv, LoopInv, LockSound
<1>2. QED
  BY <1>1, GatewayInductive, PTL

\* Only a file of this gateway is removed by a release, unless the loop and the handler
\* were in one together (releaseLockIfHeld has no exclusion of its own).
THEOREM OthersLockIsKept == GatewaySpec => OthersLockKept
<1>1. ASSUME GatewayInv, [GatewayNext]_gatewayVars, lockFile = "other",
             lockFile' # "other", ~overlapped
      PROVE  OtherGatewayStops
  <2>1. ~(Running /\ (loop = "releasing" \/ handler = "releasing"))
    BY <1>1 DEF Running, GatewayInv, LoopInv, ReleasesApart, Releasing
  <2>2. QED
    BY <1>1, <2>1
       DEF GatewayNext, HandlerStep, StartSucceeds, StartFails, LoopRemovesLockFile,
           LoopReleased, Stop, Restart, DrainBegins, DrainEnds, CloseServer, ForceExit,
           RemoveLockFile, Released, StopAfterClose, RespawnAfterClose,
           InProcessAfterClose, CreateLockFile, ReacquireLock, ReacquireFails,
           OtherGatewayStarts, Request, TaskEnds, gatewayVars, loopVars
<1>2. GatewayInv /\ [GatewayNext]_gatewayVars =>
        [lockFile = "other" /\ lockFile' # "other" =>
           OtherGatewayStops \/ overlapped]_gatewayVars
  BY <1>1
<1>3. QED
  BY <1>2, GatewayInductive, PTL DEF GatewaySpec, OthersLockKept

\* From a restart signal to the reset of the lanes no call is accepted.
THEOREM DrainAcceptsNothing == GatewaySpec => NothingAcceptedInDrain
<1>1. ASSUME GatewayInv, [GatewayNext]_gatewayVars, action = "restart",
             shuttingDown, shuttingDown', NEW e \in Entries, outcome[e] = "new"
      PROVE  outcome'[e] \in {"new", "refused"}
  <2>1. gatewayDraining
    BY <1>1 DEF GatewayInv, LoopInv, DrainSound
  <2>2. outcome \in [Entries -> Outcomes]
    BY <1>1 DEF GatewayInv, IInv, TypeOK
  <2>3. CASE RefuseEnqueue
    BY <1>1, <2>2, <2>3 DEF RefuseEnqueue
  <2>4. ASSUME NEW f \in Entries, NEW r \in Results, FinishTask(f, r)
        PROVE  outcome'[e] = "new"
    <3>1. f # e
      BY <1>1, <2>4 DEF FinishTask, GatewayInv, IInv, Sound, TasksSound
    <3>2. QED
      BY <1>1, <2>2, <2>4, <3>1 DEF FinishTask
  <2>5. ASSUME NEW l \in Lanes, ClearCommandLane(l)
        PROVE  outcome'[e] = "new"
    <3>1. ~ \E i \in DOMAIN queue[l] : queue[l][i] = e
      BY <1>1 DEF GatewayInv, IInv, TypeOK, Sound, QueuesSound
    <3>2. QED
      BY <1>1, <2>5, <3>1 DEF ClearCommandLane
  <2>6. CASE UNCHANGED outcome
    BY <1>1, <2>6
  <2>7. QED
    BY <1>1, <2>1, <2>3, <2>4, <2>5, <2>6, LoopStepIsLaneStep
       DEF Next, EnqueueCommandInLane, SetCommandLaneConcurrency, MarkGatewayDraining,
           ResetAllLanes, WaitForActiveTasks, PollActiveTasks, vars
<1>2. GatewayInv /\ [GatewayNext]_gatewayVars =>
        [action = "restart" /\ shuttingDown /\ shuttingDown' =>
           \A e \in Entries : outcome[e] = "new" => outcome'[e] \in {"new", "refused"}]_gatewayVars
  BY <1>1
<1>3. QED
  BY <1>2, GatewayInductive, PTL DEF GatewaySpec, NothingAcceptedInDrain

\* The loop goes from waiting to a start with its lock file back, or had no lock when the
\* handler came to the release, or releases overlapped.
THEOREM StartsWithLock == GatewaySpec => StartsWithLockUnlessReleased
<1>1. ASSUME GatewayInv, [GatewayNext]_gatewayVars, loop = "waiting", loop' = "starting"
      PROVE  lockFile' = "ours" \/ handler = "lockless" \/ overlapped
  <2>1. CASE InProcessAfterClose
    BY <1>1, <2>1 DEF InProcessAfterClose, WakeLoop
  <2>2. CASE ReacquireLock
    BY <1>1, <2>2 DEF ReacquireLock, GatewayInv, LoopInv, ReleasesApart, Running
  <2>3. CASE ~InProcessAfterClose /\ ~ReacquireLock
    BY <1>1, <2>3
       DEF GatewayNext, HandlerStep, StartSucceeds, StartFails, LoopRemovesLockFile,
           LoopReleased, AfterFailedStart, Stop, Restart, DrainBegins, DrainEnds,
           CloseServer, ForceExit, RemoveLockFile, Released, StopAfterClose,
           RespawnAfterClose, CreateLockFile, ReacquireFails, OtherGatewayStarts,
           OtherGatewayStops, Request, TaskEnds, gatewayVars, loopVars
  <2>4. QED
    BY <2>1, <2>2, <2>3
<1>2. GatewayInv /\ [GatewayNext]_gatewayVars =>
        [loop = "waiting" /\ loop' = "starting" =>
           lockFile' = "ours" \/ handler = "lockless" \/ overlapped]_gatewayVars
  BY <1>1
<1>3. QED
  BY <1>2, GatewayInductive, PTL DEF GatewaySpec, StartsWithLockUnlessReleased
=============================================================================
