--------------------------- MODULE GatewayRunLoop ---------------------------
(***************************************************************************)
(* The gateway's run loop (cli/gateway-cli/run-loop.ts) over the command   *)
(* lanes: start the server, wait for a restart, reset the lanes, start     *)
(* again; and beside it the handler of signals, which drains, closes the   *)
(* server, gives up the gateway lock and either ends the process or wakes  *)
(* the loop.  The handler runs between any two awaits of the loop, also    *)
(* while the loop awaits params.start() or the release of the lock.        *)
(*                                                                         *)
(* The lock is two things: the file (infra/gateway-lock.ts), removed while *)
(* releaseLockIfHeld awaits, and the loop's variable, set to null after    *)
(* the await.  Loop and handler may both be in a release.  Other gateways  *)
(* create the file when there is none; that they may also take it for that *)
(* of a dead owner is not modelled.                                        *)
(*                                                                         *)
(* Embedded runs are among the tasks of the lanes, so one wait stands for  *)
(* waitForActiveTasks and waitForActiveEmbeddedRuns.                       *)
(***************************************************************************)
EXTENDS CommandLanes

VARIABLES
  loop,          \* "starting": in params.start(); "releasing", "removed": in the release
                 \* after a failed start; "waiting": for restartResolver
  server,        \* "up" or "down" (the variable server is null)
  lock,          \* the variable lock is not null
  lockFile,      \* "ours", "other": of another gateway, or "none"
  isFirstStart,
  shuttingDown,
  handler,       \* where the coroutine of request() is
  action,        \* "restart" or "stop": what the last request asked for
  process,       \* "alive", "exit0", "exit1", "replaced": exited 0 for a successor
  overlapped     \* history: loop and handler were once in a release together

loopVars == <<loop, server, lock, lockFile, isFirstStart, shuttingDown, handler, action,
              process, overlapped>>
gatewayVars == <<vars, loopVars>>

\* A coroutine is in a release from the test of `lock` to the assignment of null.
Releasing == {"releasing", "removed"}

GatewayTypeOK ==
  /\ TypeOK
  /\ loop \in {"starting", "waiting"} \cup Releasing
  /\ server \in {"up", "down"} /\ lockFile \in {"ours", "other", "none"}
  /\ lock \in BOOLEAN /\ isFirstStart \in BOOLEAN /\ shuttingDown \in BOOLEAN
  /\ handler \in {"idle", "draining", "waitingForTasks", "closing", "lockless", "released",
                  "reacquiring", "reacquired"} \cup Releasing
  /\ action \in {"restart", "stop"}
  /\ process \in {"alive", "exit0", "exit1", "replaced"}
  /\ overlapped \in BOOLEAN
  /\ shuttingDown <=> handler # "idle"

\* Without a lock if several gateways are allowed (acquireGatewayLock returns null).
GatewayInit ==
  /\ Init
  /\ loop = "starting" /\ server = "down" /\ isFirstStart = TRUE
  /\ lock \in BOOLEAN /\ lockFile = (IF lock THEN "ours" ELSE "none")
  /\ shuttingDown = FALSE /\ handler = "idle" /\ action = "restart"
  /\ process = "alive" /\ overlapped = FALSE

\* Between markGatewayDraining and the wait there is no await.
Running == process = "alive" /\ handler # "draining"

-----------------------------------------------------------------------------
(* The loop.                                                               *)

StartSucceeds ==
  /\ Running /\ loop = "starting"
  /\ loop' = "waiting" /\ server' = "up" /\ isFirstStart' = FALSE
  /\ UNCHANGED <<vars, lock, lockFile, shuttingDown, handler, action, process, overlapped>>

\* A failure of the first start ends the process; after a later one it waits
\* for another restart.
AfterFailedStart ==
  IF isFirstStart THEN process' = "exit1" /\ UNCHANGED loop
                  ELSE loop' = "waiting" /\ UNCHANGED process

\* Either failure releases the lock first, if there is one.
StartFails ==
  /\ Running /\ loop = "starting"
  /\ server' = "down"
  /\ IF lock THEN /\ loop' = "releasing"
                  /\ overlapped' = (overlapped \/ handler \in Releasing)
                  /\ UNCHANGED process
             ELSE AfterFailedStart /\ UNCHANGED overlapped
  /\ UNCHANGED <<vars, lock, lockFile, isFirstStart, shuttingDown, handler, action>>

\* fs.rm with force: whosesoever file is there.
LoopRemovesLockFile ==
  /\ Running /\ loop = "releasing"
  /\ lockFile' = "none" /\ loop' = "removed"
  /\ UNCHANGED <<vars, server, lock, isFirstStart, shuttingDown, handler, action, process,
                 overlapped>>

\* Mutant: the variable is not set to null after the release.
LoopKeepsReleasedLock ==
  /\ Running /\ loop = "removed"
  /\ AfterFailedStart
  /\ UNCHANGED <<vars, server, lock, lockFile, isFirstStart, shuttingDown, handler, action,
                 overlapped>>

LoopReleased ==
  /\ Running /\ loop = "removed"
  /\ lock' = FALSE
  /\ AfterFailedStart
  /\ UNCHANGED <<vars, server, lockFile, isFirstStart, shuttingDown, handler, action,
                 overlapped>>

-----------------------------------------------------------------------------
(* request(): the handler of the signals.                                  *)

\* SIGTERM or SIGINT: to the closing of the server, without a drain.
Stop ==
  /\ Running /\ ~shuttingDown
  /\ shuttingDown' = TRUE /\ handler' = "closing" /\ action' = "stop"
  /\ UNCHANGED <<vars, loop, server, lock, lockFile, isFirstStart, process, overlapped>>

\* Mutant: new work is not refused during the drain.
RestartWithoutDraining ==
  /\ Running /\ ~shuttingDown
  /\ \A l \in Lanes : generation[l] < MaxResets
  /\ shuttingDown' = TRUE /\ handler' = "draining" /\ action' = "restart"
  /\ UNCHANGED <<vars, loop, server, lock, lockFile, isFirstStart, process, overlapped>>

\* An authorised SIGUSR1 (the bound on the resets bounds these too).
Restart ==
  /\ Running /\ ~shuttingDown
  /\ \A l \in Lanes : generation[l] < MaxResets
  /\ shuttingDown' = TRUE /\ handler' = "draining" /\ action' = "restart"
  /\ MarkGatewayDraining
  /\ UNCHANGED <<loop, server, lock, lockFile, isFirstStart, process, overlapped>>

\* With nothing active there is nothing to wait for.
DrainBegins ==
  /\ handler = "draining"
  /\ IF ActiveIds = {}
     THEN handler' = "closing" /\ UNCHANGED vars
     ELSE handler' = "waitingForTasks" /\ WaitForActiveTasks
  /\ UNCHANGED <<loop, server, lock, lockFile, isFirstStart, shuttingDown, action, process, overlapped>>

DrainEnds ==
  /\ Running /\ handler = "waitingForTasks"
  /\ PollActiveTasks
  /\ handler' = "closing"
  /\ UNCHANGED <<loop, server, lock, lockFile, isFirstStart, shuttingDown, action, process, overlapped>>

\* server?.close() returns or throws, and the timer is cleared; releaseLockIfHeld
\* then looks at the lock at once.
CloseServer ==
  /\ Running /\ handler = "closing"
  /\ server' = "down"
  /\ IF lock THEN /\ handler' = "releasing"
                  /\ overlapped' = (overlapped \/ loop \in Releasing)
             ELSE handler' = "lockless" /\ UNCHANGED overlapped
  /\ UNCHANGED <<vars, loop, lock, lockFile, isFirstStart, shuttingDown, action, process>>

\* The close takes too long.
ForceExit ==
  /\ Running /\ handler = "closing" /\ server = "up"
  /\ process' = "exit1"
  /\ UNCHANGED <<vars, loop, server, lock, lockFile, isFirstStart, shuttingDown, handler,
                 action, overlapped>>

RemoveLockFile ==
  /\ Running /\ handler = "releasing"
  /\ lockFile' = "none" /\ handler' = "removed"
  /\ UNCHANGED <<vars, loop, server, lock, isFirstStart, shuttingDown, action, process,
                 overlapped>>

Released ==
  /\ Running /\ handler = "removed"
  /\ lock' = FALSE /\ handler' = "released"
  /\ UNCHANGED <<vars, loop, server, lockFile, isFirstStart, shuttingDown, action, process,
                 overlapped>>

\* handleStopAfterServerClose, after its await of the release.
StopAfterClose ==
  /\ Running /\ handler \in {"released", "lockless"} /\ action = "stop"
  /\ process' = "exit0"
  /\ UNCHANGED <<vars, loop, server, lock, lockFile, isFirstStart, shuttingDown, handler,
                 action, overlapped>>

\* Mutant: the release is not awaited before the successor is spawned.
RespawnDuringRelease ==
  /\ Running /\ handler \in Releasing \cup {"released", "lockless"} /\ action = "restart"
  /\ process' = "replaced"
  /\ UNCHANGED <<vars, loop, server, lock, lockFile, isFirstStart, shuttingDown, handler,
                 action, overlapped>>

\* handleRestartAfterServerClose, after its await: the successor is spawned, or
\* the supervisor will start it.
RespawnAfterClose ==
  /\ Running /\ handler \in {"released", "lockless"} /\ action = "restart"
  /\ process' = "replaced"
  /\ UNCHANGED <<vars, loop, server, lock, lockFile, isFirstStart, shuttingDown, handler,
                 action, overlapped>>

\* Back to the loop: a loop that waits goes through onIteration to the next
\* start; restartResolver is unset or stale at any other time, and calling it
\* then does nothing.
WakeLoop ==
  /\ shuttingDown' = FALSE /\ handler' = "idle"
  /\ IF loop = "waiting"
     THEN loop' = "starting" /\ ResetAllLanes
     ELSE UNCHANGED <<loop, vars>>

\* Mutant: without a lock to take back the handler gives up.
RestartWithoutLockGivesUp ==
  /\ Running /\ action = "restart"
  /\ \/ handler = "released" /\ handler' = "reacquiring"
     \/ handler = "lockless" /\ handler' = "idle"
  /\ UNCHANGED <<vars, shuttingDown, loop, server, lock, lockFile, isFirstStart, action,
                 process, overlapped>>

\* No respawn (it failed or is disabled): an in-process restart, with the lock
\* taken back if this handler released one (hadLock).
InProcessAfterClose ==
  /\ Running /\ action = "restart"
  /\ \/ /\ handler = "released" /\ handler' = "reacquiring"
        /\ UNCHANGED <<vars, shuttingDown, loop>>
     \/ handler = "lockless" /\ WakeLoop
  /\ UNCHANGED <<server, lock, lockFile, isFirstStart, action, process, overlapped>>

\* acquireGatewayLock finds no file and creates its own, open(..., "wx").  File
\* operations come back in the order they end: a removal of the loop's that ended
\* before is continued before.
CreateLockFile ==
  /\ Running /\ handler = "reacquiring" /\ lockFile = "none" /\ loop # "removed"
  /\ lockFile' = "ours" /\ handler' = "reacquired"
  /\ UNCHANGED <<vars, loop, server, lock, isFirstStart, shuttingDown, action, process,
                 overlapped>>

\* Mutant: the loop is woken before the lock is taken back.
WakeBeforeLock ==
  /\ Running /\ handler \in {"reacquiring", "reacquired"}
  /\ lock' = TRUE
  /\ WakeLoop
  /\ UNCHANGED <<server, lockFile, isFirstStart, action, process, overlapped>>

\* Its await is over: the variable is set, and the loop woken.
ReacquireLock ==
  /\ Running /\ handler = "reacquired"
  /\ lock' = TRUE
  /\ WakeLoop
  /\ UNCHANGED <<server, lockFile, isFirstStart, action, process, overlapped>>

\* A timeout behind another gateway, or an error.
ReacquireFails ==
  /\ Running /\ handler = "reacquiring"
  /\ process' = "exit1"
  /\ UNCHANGED <<vars, loop, server, lock, lockFile, isFirstStart, shuttingDown, handler,
                 action, overlapped>>

-----------------------------------------------------------------------------
(* Other gateways, the successor among them.                               *)

OtherGatewayStarts ==
  /\ lockFile = "none" /\ lockFile' = "other"
  /\ UNCHANGED <<vars, loop, server, lock, isFirstStart, shuttingDown, handler, action,
                 process, overlapped>>

OtherGatewayStops ==
  /\ lockFile = "other" /\ lockFile' = "none"
  /\ UNCHANGED <<vars, loop, server, lock, isFirstStart, shuttingDown, handler, action,
                 process, overlapped>>

-----------------------------------------------------------------------------
(* The work in the lanes: calls come in through a server that is up.       *)

Request(l) ==
  /\ Running /\ server = "up"
  /\ EnqueueCommandInLane(l) \/ RefuseEnqueue
  /\ UNCHANGED loopVars

TaskEnds(e, r) == Running /\ FinishTask(e, r) /\ UNCHANGED loopVars

\* The coroutine of request(), one step from an await to the next.
HandlerStep ==
  \/ DrainBegins \/ DrainEnds
  \/ CloseServer \/ ForceExit
  \/ RemoveLockFile \/ Released
  \/ StopAfterClose \/ RespawnAfterClose \/ InProcessAfterClose
  \/ CreateLockFile \/ ReacquireLock \/ ReacquireFails

GatewayNext ==
  \/ StartSucceeds \/ StartFails
  \/ LoopRemovesLockFile \/ LoopReleased
  \/ Stop \/ Restart
  \/ HandlerStep
  \/ OtherGatewayStarts \/ OtherGatewayStops
  \/ \E l \in Lanes : Request(l)
  \/ \E e \in Entries, r \in Results : TaskEnds(e, r)

GatewaySpec == GatewayInit /\ [][GatewayNext]_gatewayVars

\* Every await of the handler comes back: the wait for tasks has a deadline,
\* closing the server has the force-exit timer, removing a file ends, and
\* taking the lock has a timeout.
FairGatewaySpec == GatewaySpec /\ WF_gatewayVars(HandlerStep)

-----------------------------------------------------------------------------
(* Properties.                                                             *)

\* A gateway with its port open, and no shutdown under way.
Serving == process = "alive" /\ server = "up" /\ ~shuttingDown

\* From the restart signal until the lanes are reset no call is accepted, so
\* none is killed by the restart that was not active or queued at the signal
\* (markGatewayDraining before the drain).
NothingAcceptedInDrain ==
  [][action = "restart" /\ shuttingDown /\ shuttingDown' =>
       \A e \in Entries : outcome[e] = "new" => outcome'[e] \in {"new", "refused"}]_gatewayVars

\* When a process ends in order, or has spawned its successor, its lock file is
\* gone, also when the signal came while a start was failing, the lock was being
\* taken back, or the loop was in a release of its own (the awaits of
\* releaseLockIfHeld before the spawn and the exit).
OrderlyExitFreesLock ==
  process \in {"exit0", "replaced"} => lockFile # "ours"

\* A release removes this gateway's file and never that of another gateway
\* that took the lock since (`lock` is tested before and set to null after the
\* removal) -- but for a loop and a handler that were in a release together.
OthersLockKept ==
  [][lockFile = "other" /\ lockFile' # "other" => OtherGatewayStops \/ overlapped]_gatewayVars

\* A restart starts the server with the lock file back, or had none to give up
\* when it came to the release, with the same exception.
StartsWithLockUnlessReleased ==
  [][loop = "waiting" /\ loop' = "starting" =>
       lockFile' = "ours" \/ handler = "lockless" \/ overlapped]_gatewayVars

\* Every shutdown that begins comes to an end: the process exits, or the
\* handler is free for the next signal.
ShutdownEnds == shuttingDown ~> (process # "alive" \/ ~shuttingDown)

\* As the comments say of the drain and of GatewayDrainingError: calls are
\* refused because the gateway is draining for a restart, not once it serves.
ServesAfterDrain == Serving => ~gatewayDraining

=============================================================================
