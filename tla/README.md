# Verification of the FoxFang gateway

FoxFang is a personal assistant: a gateway process takes messages from chat
channels, a web UI, cron jobs and other clients, runs an agent for each, and
sends the answers back. These modules model the parts of the gateway that decide
*which work runs when*, what becomes of it when the process restarts or dies, and
who may write the files that outlive it. Paths
below are relative to the repository's `src/`.

## 1. Inventory

The gateway is one Node.js process. A handler runs from one `await` to the next
without interruption, so the hard behaviours come from what is read before an
`await` and used after it, from timers, from restarts inside the process (old
coroutines live on next to new ones), from files shared with other processes and
from crashes.

| Component | State | Operations | Hard behaviours | Correct means |
|---|---|---|---|---|
| **Command lanes** `process/command-queue.ts` | per lane: queue, active task ids, limit, generation; flag `gatewayDraining` | enqueue, pump, completion, set limit, clear lane, mark draining, reset all, wait for active tasks | tasks of an older generation that settle late; limits changed under running tasks; a reset between start and completion | limit kept, no lost wake-up, each call answered once, in order |
| **Embedded agent runs** `agents/pi-embedded-runner/{run,lanes,runs}.ts` | map session id → handle | run (session lane, then global lane), register, unregister | nested waits on lanes of limited size; abandoned runs after a reset | one run per session, no self-deadlock, handles of live runs only |
| **Gateway run loop** `cli/gateway-cli/run-loop.ts` | server, lock, `shuttingDown`, resolver of the wait | start, stop, restart (drain, close, respawn or in-process) | signals while starting, failing starts, timers | every shutdown ends, lock and drain state fit the serving state |
| **Follow-up queue** `auto-reply/reply/queue/*`, `utils/queue-helpers.ts` | per session: items, dropped count, flag `draining`, settings; registry | enqueue, drop by policy, drain one by one / collect / summary, clear | everything happens during the await of a run: enqueue, overflow, clear, failure, end of the drain | order kept, drains exclusive, nothing lost, drains end |
| **Cron service** `cron/service/*` | job file, its copy in memory, `runningAtMs` markers, timer | tick, manual run, edit, start with catch-up, replacement by a reload | crash with markers set, the store reloaded under a run, a stopped service that goes on and is still called | a job runs once at a time, no due time is skipped, a due job runs |
| **Outbound delivery queue** `infra/outbound/delivery-queue-*.ts`, `deliver.ts` | one file per message | enqueue, send, acknowledge (rename, unlink), fail, recover | crash between any two steps, recovery beside live senders | accepted messages survive until sent or given up, a second delivery has a cause |
| **Session write lock** `agents/session-write-lock.ts` | lock file, map of held locks with counts | acquire, release, reclaim stale, watchdog | several processes, reused pids, check-then-remove, signals that the process survives | one writer per session file, no file blocks for ever |
| **Gateway lock, restart scheduler** `infra/gateway-lock.ts`, `infra/restart.ts` | lock file; timers and tokens of pending restarts | acquire, release; schedule, defer, emit | owner that is still starting; coalesced requests | one gateway per port; an asked restart happens |
| **Exec approvals, heartbeat wake** `gateway/exec-approval-manager.ts`, `infra/heartbeat-wake.ts` | pending records; pending wakes, flags | request, resolve, expire, consume; request, run, replace handler | decision against timer; handler replaced during a run | one outcome; no lost wake |
| Others (listed in `PROJECT.json`) | | reply dispatcher, channels, config reload, subagents, auth profiles, ACP, session store, plugins, UI | | |

How they interact: a message either starts a turn (`runReplyAgent`) or, while a run
of its session is active, goes to the **follow-up queue**, whose drain starts runs in
turn. Every run is a call of **embedded agent runs**, that is two nested entries of
the **command lanes**; a cron job is a third one around them. The **run loop** marks
the lanes draining, waits for them, closes the server, and resets the lanes at the
next iteration. Answers leave through the **delivery queue**; agents write their
transcripts under the **session write lock**.

## 2. Modules

| Module | Models | Proofs |
|---|---|---|
| `CommandLanes` | `process/command-queue.ts`, whole | `CommandLanesProofs` |
| `LaneContract` | abstract: what a caller of a lane may rely on | `LaneContractProofs` |
| `AgentRuns` | extends `CommandLanes` by runs, cron runs and handles | `AgentRunsProofs` |
| `GatewayRunLoop` | extends `CommandLanes` by the run loop | `GatewayRunLoopProofs` |
| `FollowupQueue`, `MCFollowupQueue` | follow-up queue of one session | `FollowupQueueProofs` |
| `DeliveryQueue` | outbound delivery queue: files, live deliveries, recoveries, crashes | `DeliveryQueueProofs` |
| `SessionWriteLock`, `MCSessionWriteLock` | lock file of one session between tasks and processes | `SessionWriteLockProofs` |
| `CronService` | cron jobs in their file, two services after each other, runs, edits | `CronServiceProofs` |

### CommandLanes

One action per exported function, plus the settling of a task. The pump loop of
`drainLane` runs without an await, so its effect (`DrainLanes`: the first
`StartCount` entries leave the queue, become active and get the lane's generation)
is part of each action that calls it, and the code's flag `draining` is FALSE
between actions. An entry is a number in order of arrival; the number also stands for
the id it gets at its start. `FinishTask` gives the slot back and pumps only if the
generation captured at the start is still the lane's. `outcome` is the promise of
the caller. A poll of `waitForActiveTasks` that changes nothing is not an action.

`LaneContract` knows only the caller's view: a call is refused, or waits and is
cleared or started once and settled once, and no entry starts past an older one of its
lane. `ImplementsContract` is the refinement `INSTANCE LaneContract WITH status <- ...`.

### AgentRuns

`RunEmbeddedPiAgent` puts a session entry into the lane `session:<key>`; when it
starts, its task calls `enqueueGlobal` at once (`EnqueueGlobal`). No other action
can come between, which is the guard `Quiet`. The global entry's attempts register
and remove the session's handle (`SetActiveEmbeddedRun`, `ClearActiveEmbeddedRun`);
a run may make several. A manual cron run holds an entry of the cron lane while its
run goes through session and global lane; the entry may also settle without a run (the
job is not due any more) or before its run does (the job's timeout).
`DrainForRestart` and `NextIteration` are what the run loop does to the lanes.
Simplified: one session id per session key, one agent call per cron job, and a run
asks for the lane `main` or `cron`.

### GatewayRunLoop

The loop is `starting` (awaits `params.start()`) or `waiting` (awaits the resolver), and
between them, after a failed start, in its release of the lock (`releasing`, `removed`);
`handler` is where the coroutine of `request()` is. All signals may come at any time
while `shuttingDown` is down. `CloseServer` also stands for a close that throws, since
the code goes on in `finally`. The lock is two things: `lockFile`, the file that other
gateways see, and `lock`, the loop's variable. `releaseLockIfHeld` tests the variable,
awaits the removal of the file and then sets the variable to null (`CloseServer`,
`RemoveLockFile`, `Released`); the loop does the same after a failed start
(`StartFails`, `LoopRemovesLockFile`, `LoopReleased`), and the two may be in it together
(`overlapped`). Only then does the handler end the process (`StopAfterClose`), hand over to
a successor (`RespawnAfterClose`), or restart inside the process, where it takes back what
it had released: first the file (`CreateLockFile`), then the variable (`ReacquireLock`).
Other gateways create and remove the file of their own between any two of these steps.
The lanes are those of `CommandLanes`, through the same actions. `DrainEnds` is the end of
both waits.

### FollowupQueue

Queues are objects: a drain keeps the one it began with while the registry
(`registered`) may drop or replace it. A round of the drain is cut at its awaits:
debounce → `Decide` → (`Collect`) → run → `FinishRun` or `FailRun`. What the `finally`
does, including scheduling itself again, is part of the step that ends the drain
(`EndDrain`). `take` is the number of items the code removes after the run, by
position. `fate` is a history of each message. `turn` is the run that makes messages
wait: one of a turn, which finalizes when it ends, or another one, which does not.
`IsRunActive` may answer either way while a follow-up run is going, since that run is
registered for only part of the time. The settings are those of each call, as in the
code. Left out: the drain callback (no caller passes `restartIfIdle`), prompts, session
ids rewritten by `refreshQueuedFollowupSession`, and summary lines beyond the cap.

### DeliveryQueue

The unit is a worker with one entry in hand: the live delivery of a message
(`deliverOutboundPayloads`), or a recovery. Every await is a step: the write of the
entry, the send, the rename of the acknowledgement, the removal of its marker, the read
and the write of `failDelivery`, the move to `failed/`. `Crash` may come between any
two; files stay. `StartGateway` begins a recovery with a snapshot (`todo`), after a
crash or inside a process whose deliveries go on. A recovery handles its entries in
any order, since the order of enqueuing says nothing of one message; other messages
appear as `HandleOther` (they are other files), which matters for the time budget.
The payloads of a message are one unit, but a send that reports an error may have
delivered something; under `bestEffort` the core swallows the error
(`SendSwallowsError`). `passed` remembers the entries a recovery found too early to retry.
A first write that fails is not modelled: the code then sends without an entry, and nothing
of the queue is left to say anything about.

### SessionWriteLock

`file` is the lock file with what its payload says of its process (`fate`: alive, dead,
or dead with its pid reused) and, as a history, who relies on it (`owner`: the task that
creates it, then the `HELD_LOCKS` entry of the process, then nobody). A task goes
through `open("wx")`, the write of the payload and the entry of the map; on `EEXIST` it
reads, judges (`Reclaims`) and, in a step of its own, removes. A removal takes
whatever file is there by then: `decided` remembers what was known at the decision.
Re-entrant holders share the entry and its count (`shares`); a release whose entry
was replaced does nothing. `Call` is the beginning of an acquire, which arms the watchdog
before its awaits. A termination signal in a process with other listeners of it
(`Listeners`: the gateway, whose run loop drains and closes first) removes the files and
empties the map while tasks and process go on (`SignalReleases`); elsewhere it ends the
process (`Exit`). `robbed` is a history of the tasks that hold, or are about to, without
their lock. The watchdog may find any held lock overdue as long as its timer is armed, and the release that empties the map stops it. `cleanStaleLockFiles`
is the third kind of remover; it takes an unreadable file for stale at any age, which
contenders do not. `startTimes` is chosen once: on Linux the payload also tells the
start time of its process.

### CronService

One job is followed; other jobs appear as choices (a tick that only has others to run, a
timer armed for them). The sections under `locked` are steps; runs happen between
them. `disk` is the file, `mem` the store of each service. `start` is four sections
(markers cleared, catch-up planned, its results applied, all slots recomputed and the
timer armed), a tick is collect → runs → apply → `finally`, a manual run is preflight → marker
→ run → merge over the reloaded store. Time is the last slot that passed; a recurring
job has every slot as its own. `next` and `mark` are the job's `nextRunAtMs` and
`runningAtMs`. `Replace` is a hot reload: `stop()` clears the timer of the old
service and nothing else, and calls go on reaching that service (`Serves`), since the
request context was built with it (`server.impl.ts:1184-1187`). Edits and runs of other
jobs save and recompute the store that the observed job is in (`AddOther`, `EditOther`,
`BeginOther`, `EndOther`). `causes` remembers why a property may fail: `cleared`, a marker
was taken from a job (disabled, or stuck); `unsaved`, the save of a tick failed; `overlap`,
a replaced service acts, because it was busy when it was replaced or takes a call that does
more than read. `looked` is when a start looked for missed slots of the job.
A crash forgets them, since the next start clears all markers. A process has one reload
here, and only the saves of ticks fail.

## 3. Runs

| Run | Shows | Bounds |
|---|---|---|
| `command_lanes` | types; slots are the current tasks; no lane idles with work; each pending call is in one place; `drained` is true when it is said; limits kept at every start; every call settles; the contract is implemented | 2 lanes, 3 calls, limits 0..2, 1 reset |
| `agent_runs` | runs of a session exclude each other unless one was abandoned by a reset; a handle is removed by its owner only; every run and job settles | 1 session, 3 global lanes, 5 entries (two runs, or a cron run and a run), slots 1, 1 reset |
| `run_loop` | an orderly exit or a respawn leaves no lock file behind; no other gateway's file is removed; nothing is accepted between the signal and the reset; a start without lock happens only after a failed one; every shutdown ends | 1 lane, 3 calls, 2 restarts |
| `followup_queue` | drains of a session do not overlap; waiting messages stay reachable; no queue idles while only turns make messages wait; order of delivery; a message is skipped only after an overflow during a run or by a summary's run; drains end | 3 messages, 2 queue objects, 1 failure, 3 settings |
| `delivery_queue` | an accepted message stays on disk until sent, aborted or given up; a second delivery has a cause; what is settled stays settled; a recovery leaves no entry that it loaded as it was | 1 message, 2 recoveries at once, 2 retries, any number of crashes |
| `session_write_lock` | tasks of two processes never hold together unless one of them was robbed of its lock; counts are the holders; a live lock is removed for named reasons only | 2 processes, 3 tasks, 1 death, signals to one, the clean-up of a third process |
| `lock_progress` | no lock file blocks the session for ever, whatever becomes of its owner | 1 task in each of 2 processes, 1 death, signals to one |
| `cron_service` | two runs of a job never overlap; a marker in the file has a run; a due slot is not replaced without a run; a due job runs | 3 kinds of job, 2 services, enabled or not, 2 slots, 2 events |

Four runs expect a violation; each is a finding in `PROJECT.json`:

| Run | What the counterexample shows |
|---|---|
| `accepted_run_refused` | a session entry that starts inside the drain has its nested call refused, so queued work is lost that the comment says is preserved |
| `serves_after_drain` | a restart handled while the server starts leaves a server that is up and refuses all work |
| `message_skipped` | items are removed by position after a run; an overflow during the run makes that the wrong ones |
| `running_job_run_again` | after a reload, `cron.run` reaches the replaced service, whose copy of the store has no marker, and accepts a job that the new one is running |

The passing properties beside them state what does hold, with each exception named,
because the code (not the model) has it:

- `OneLiveRunPerSession` names the reset as the only exception to one run per session:
  after an in-process restart a new run starts beside an abandoned one, although
  `docs/concepts/queue.md:20` says only one is active.
- `OthersLockKept` and `StartsWithLockUnlessReleased` except `overlapped`: a restart whose
  handler reaches its release while the loop is in its own removes the file by path once
  more, by then perhaps another gateway's.
- `StartsWithLockUnlessReleased` also names the failed start: after one, the next restart
  serves without the gateway lock (`run-loop.ts:88`, against `docs/gateway/gateway-lock.md`).
- `SkippedOnlyAfterOverflow` names the two ways to skip a message.
- `IdleQueueIsTended` excludes runs that are not turns: a message queued behind a run of
  the `agent` method waits in an idle queue (against the comment at `agent-runner.ts:246`).
- `DrainEnds` excludes `Stranded`: only dropped messages are left that no summary will
  tell, and the drain goes round for ever.
- `AcceptedIsKept` excludes the messages whose error was swallowed (`swallowed`): under
  `bestEffort` without `onError` a message of which nothing was sent is acknowledged
  (`deliver.ts:522`, against the comment above it).
- `DuplicateHasCause` allows a send without a record (`uncertain`: crash, failed rename,
  error after something went out) and two deliveries at once (`overlapped`: a recovery
  loads an entry whose live delivery or older recovery still has it).
  `SettledStaysSettled` needs the second exception too: `failDelivery` writes back what it
  read, and undoes an acknowledgement in between.
- `RecoveryAdvances` excepts entries whose backoff had not elapsed. Recovery happens once
  per start of the gateway, so an entry of a process that stays up waits as it is. An entry
  at the retry limit that is deferred for the time budget is counted up, not pruned, at
  that start.
- `WritersExclude` excludes writers that were robbed of the lock (`robbed`): by the
  watchdog, by a signal their process survived (a gateway that handles SIGTERM removes its
  lock files at once and closes afterwards), or by a removal of the file.
  `LiveRemovalHasCause` lists how the last comes about: a remover
  that had judged an earlier file, a file past its age, an unreadable file met by the
  starting gateway, and, without start times, a file that a task of the same process has
  not entered in the map yet.
- `NoFileBlocksForever` rests on contenders that come back, not on the watchdog, which a
  release or a signal can stop under an acquire that is on its way.
- `OneRunPerJob` excludes cleared markers and a replaced service that acts. The latter need
  not be called: one that is stopped while its start or a tick is under way arms its timer
  again at the end (`timer.ts:729`) and goes on, also after cron was disabled.
- `SlotNotSkipped` says what the end of `start` may give up (`GivesUp`). Its
  `recomputeNextRuns` (`ops.ts:124`) replaces past slots: those that passed after the start
  had looked for missed ones, during the catch-up, although `timer.ts:988-990` has just
  preserved them so that they "execute on a future tick instead of being silently advanced";
  that of a job that is taken or whose marker was cleared under its run; and that of a job
  at which the start did not look. Slots that it found missed are run or deferred. Adding a
  job (`ops.ts`, `add`) replaces past slots too.
- `DueJobRuns` and `MarkerHasRun` except results that could not be saved, and a replaced
  service that acts; they and `SlotNotSkipped` say nothing after that, since the stopped
  service saves its old copy of the store over what the new one wrote.

**Why the bounds are enough.** The hazards need: a task that survives a reset, a newer
task in its lane and one that waits (3 calls, 1 reset, limit 1 and 2); a second lane so
that a reset and a pump touch lanes that differ. A run of a session takes two entries
and a cron run three, so five entries give an abandoned run beside a new one and a cron
run beside a run; the lanes have the one slot that makes waiting circular if anything
does. The run loop's cases are reached by one restart while the last is still unfinished
and one failed start: two restarts. In the follow-up queue an overflow needs cap + 1
messages, a change of settings two, a cleared queue under a running drain a second object.
In the delivery queue files of different messages never meet, so one is followed; two
recoveries give a recovery beside a recovery, and one of them beside the live delivery;
two retries tell the first failure from the last. The lock needs two tasks in one process
(re-entrance, a release beside an acquire) and one in another, and one owner that dies;
its liveness is checked with one task in each process only, since the behaviours of three
are too many for a temporal check: there a signal, not a release, stops the watchdog under an
acquire. In
the cron service two slots are a due one and one that passes under a run; two events
give each pair of edit, manual run, reload, crash and failed save; the theorems of
section 4 cover more slots, more events and other values of `StuckAfter`.
Every bound is a constant used in a guard: `MaxEntries`, `MaxLimit`, `MaxResets`,
`MaxMessages`, `MaxQueues`, `MaxFailures`, `MaxDeaths`, `MaxTime`, `MaxEvents`; `Room` keeps space for nested calls. With the
bounds used up the systems stop, which is why deadlock is not checked: the code's own
idle states (nothing to do, no caller) are legal ends too.

**Fairness.**
- `CommandLanes`: a started task settles (agent runs have a timeout of their own), and
  the poll timer of `waitForActiveTasks` fires.
- `AgentRuns`: code that runs makes its next call; an attempt ends. The end of a run is
  strongly fair, because attempts may repeat but their loop is cut off after
  `MAX_RUN_LOOP_ITERATIONS`. The job timeout is *not* assumed, since jobs may have none;
  resets, drains and clears are not assumed either.
- `GatewayRunLoop`: each await of the handler comes back: the wait for tasks has a
  deadline, the close has the force-exit timer, removing the lock file ends and taking it
  has a timeout. Starting the server need not end, neither need the loop's own release, and no
  signal need come.
- `FollowupQueue`: the debounce timer fires, a follow-up run returns or throws, a turn
  ends. No message need come.
- `DeliveryQueue`: a live process goes on with what it has in hand: sends return or throw (a
  channel's own business, so an assumption), and a recovery takes its entries one after the
  other. The gateway need not be started again, and may die at any time.
- `SessionWriteLock`: tasks go on with what they began, the watchdog's timer fires, time
  passes. A holder need never release, and no signal need come.
- `CronService`: sections get their turn, an armed timer fires, a run settles (a job has
  a timeout unless its configuration turns it off). Time and events need not come.

## 4. Proofs

Each proof module proves `Init => I`, `I /\ [Next]_vars => I'` and `I => property` for an
inductive invariant `I`, with one lemma per action or group of like actions.

### CommandLanesProofs

For every finite set of lanes and all values of the bounds (`LanesAssumption`,
`BoundsAssumption`):

| Theorem | States |
|---|---|
| `TypeCorrect` | `[]TypeOK` |
| `SlotAccounting` | `[]SlotsAreCurrentTasks` |
| `NoCallLostOrDoubled` | `[]PendingIsSomewhere` |
| `NoLostWakeup` | `[]NoIdleLane` |
| `LimitKept` | `StartsWithinLimit` |

None of these invariants is inductive alone. The inductive invariant `IInv` is the type
invariant with `Sound` (what is queued and what is in flight, lane by lane: queues
in ascending order, of entries of that lane that wait and do not run; slots exactly the
tasks of the current generation) and `ArrivalsSound` (entries beyond `arrivals` are
untouched, so a new entry cannot already be somewhere). The pump is dealt with once:
`DrainLanesSound` shows that it keeps `Sound` from any lane state that has it, and
`DrainLanesFills` that a pumped lane has no entry left waiting beside a free slot and
passes no limit; they rest on `StartCountBounds`, `StillQueuedIsSuffix`,
`PumpSplitsQueue` and `StartsCardinality`. Each action then has its lemma
(`EnqueueKeepsIInv`, `FinishTaskKeepsIInv`, ...), combined in `NextKeepsIInv`.
A full lane stays full over the other steps, which gives `NoLostWakeup`.

### LaneContractProofs

From the same assumptions: `ContractImplemented` (`Spec => ImplementsContract`, the
refinement) and `DrainReportTrue` (`[]DrainReportSound`).

`StepKeepsContract` is what the contract says of one step, over the refinement
mapping: each entry makes a move of `Contract!Moves` or none, its lane is set by the step
that accepts it, and an entry that starts leaves no older one of its lane behind. The
last part is the pump's: what it takes from an ascending queue is older than what it
leaves (`PumpInOrder`, `PumpKeepsOrder`). Each action has its lemma, and
`StepImplements` turns the whole into a step or a stutter of the contract.
`DrainReportSound` is inductive once the tasks that the wait was asked about are known to
have been started (`SnapshotStarted`): a task in flight without a slot belongs to an older
generation (`SlotLostToReset`), and remains so since generations only grow
(`NextKeepsGenerations`) and no task starts twice.

### GatewayRunLoopProofs

`LanesUnderRunLoop` (`GatewaySpec => Spec`) says that the run loop uses the lanes as their own
specification allows: every theorem above holds through any number of restarts. Then
`GatewayTypes` (`GatewayTypeOK`), `ExitFreesLock` (`OrderlyExitFreesLock`), `OthersLockIsKept`
(`OthersLockKept`), `DrainAcceptsNothing` (`NothingAcceptedInDrain`) and `StartsWithLock`
(`StartsWithLockUnlessReleased`), with no assumption beyond those of the lanes.

The invariant `GatewayInv` adds to the lanes' `IInv` and the types what a restart and a
release know: a restart under way keeps `gatewayDraining` up, without which a call could
come in the middle of a drain; and where handler and loop are tells of variable and file
(a lock that is not held has no file of this process unless it is being taken back or was
removed by the other coroutine). The exit alone would say nothing of the file, which the
step before it removed.

### AgentRunsProofs

`LanesUnderRuns` (`RunsSpec => Spec`) does the same for runs. For every set of sessions
and lanes with distinct names (`LaneNamesAssumption`): `RunsTypes` (`RunsTypeOK`), `HandlesLive`
(`HandlesAreLive`), `OneRunPerSession` (`OneLiveRunPerSession`), `OwnerUnregisters`
(`OnlyOwnerUnregisters`).

Two global tasks of one session exclude each other because of their outer entries:
`GlobalCallsSound` says that each has one, `NestingSound` that the outer entry is in flight
while the inner one is unanswered, `SessionCallsSound` that it is in the session's lane,
and `OneSlotEach` that this lane has one slot. So if both outer entries are of the lane's
current generation they are the same entry, hence so are the inner ones; otherwise a
reset abandoned one. `AttemptsSound` ties handles to tasks in flight.

### FollowupQueueProofs

For every set of settings (`SettingsAssumption`), every routing of the messages
(`RoutingsAssumption`) and all bounds: `FollowupTypes` (`FollowupTypeOK`), `OneDrain`
(`OneDrainPerSession`), `WaitingReachable` (`WaitingIsReachable`), `IdleQueueTended`
(`IdleQueueIsTended`), `OrderKept` (`DeliveredInOrder`), `SkipsExplained`
(`SkippedOnlyAfterOverflow`).

`QueueInv` says that, unless a queue was cleared during its drain, only the registered
object is drained (`DrainsRegistered`), what waits by its fate waits in that object
(`WaitsInRegistered`), and the object is drained or holds nothing (`Tended`) unless a run
goes on that messages wait for. `WaitingIsReachable` alone would not be inductive: a
message in an object that is drained but not registered would be lost when that drain
ends, so the registered object must be the only one. The operators on a registry
(`ScheduleFollowupDrain`, `EndDrain`, `NextRound`, `GetFollowupQueue`, `Push`) have a lemma each,
and the steps of a drain share `DrainStepKeeps`. That the least free number
exists, which `GetFollowupQueue` chooses, is an instance of well-founded induction.

The two action properties share a second invariant, `PromptInv`. `PromptSound` says of each
object that the messages a run will take off it are those of the prompt, until an overflow;
that is what makes the removal by position harmless, and its failure explains every skipped
message. `OrderSound` says of the registered object that its items are in the order of
arrival and younger than all that was delivered, and that what stays behind a run is
younger than the batch the run was given, overflow or not: an overflow drops from the head,
so removal by position can only take too much. Each step preserves both and does what the
properties say of it (`StepSound`).

### CronServiceProofs

For every set of kinds of jobs and all bounds (`CronAssumption`, `AbsenceAssumption`: an
absent job is not a job): `CronTypes` (`CronTypeOK`), `NoDoubleRun` (`OneRunPerJob`),
`MarkersHaveRuns` (`MarkerHasRun`), `DueSlotsKept` (`SlotNotSkipped`).

`CronInv` relates markers and runs in both directions. `TakenIsMarked`: while no marker was
cleared under a run and no replaced service acted, a run that is taken is the only one, and
the job is marked in the file *and* in memory, or gone; so whoever wants to take the job
sees the marker, whichever copy is read. `MarkedIsTaken`: while every save succeeded and
no replaced service acted, what either copy marks is taken. `StartSound` and
`ReplacementSound` say what a service cannot do yet or any more: one that is starting has no runs
but the catch-up, one that was replaced when idle does nothing before a call reaches it,
which is then recorded (`ActingIsCurrent`). The maintenance of the
job (`Normalize`, the clearing of stuck markers, the recomputation of slots) is dealt with
as one relation between the job before and after, `Tended`.

The attempt to prove `OneRunPerJob` corrected the model: when the save of a run's
results fails after the same section had cleared a stuck marker in memory, that marker
is gone although nothing was written, and the history `causes` did not say so. The
counterexample needs three slots and three events, more than the run's bounds.

`SlotNotSkipped` needs `SlotInv` beside it. `Follows`: while no replaced service acts, a job
that waits for a slot in the file waits for the same one in memory, so a stale copy that is
saved moves nothing. `SlotSound`: the next slot lies after the last run, except that of a
failed one-shot, which is computed as the same slot again; without it the maintenance of an
idle tick, which replaces past slots that were run, could take an older run for that of the
slot. It rests on `RunSound` (an ended run ended after its start) and holds through
overlaps, crashes and merges. Every step of a service is a copy that keeps the slot, a
save that is explained, a failed save, or leaves file and memory alone (`CopySlot`, `SaveSlot`,
`UnsavedSlot`, `QuietSlot`). What the end of a start gives up rests on a third layer, `LookedInv`:
a slot that was past when the start looked for missed ones is taken by the catch-up, deferred to
a later slot, or no longer the job's (`LookedSound`).

### DeliveryQueueProofs

For every non-empty set of messages, any number of recoveries at once and every retry limit
(`DeliveryAssumption`): `DeliveryTypes` (`DeliveryTypeOK`), `NothingLost`
(`AcceptedIsKept`), `DuplicatesExplained` (`DuplicateHasCause`), `SettledForGood`
(`SettledStaysSettled`).

The properties speak of messages, the steps of workers. What links them is `Alone`: unless a
recovery overlapped with another delivery of the message, at most one worker or snapshot
has it. Given that, `SettledIsDone` (nobody is at work on a settled entry but to remove
its marker) and `SentIsRecorded` (whoever has a sent message acknowledges it, and does
as long as the entry is there) survive the step of any other worker. `KeptOrAccounted`
needs no such exception: what is about to be acknowledged was sent, aborted or
swallowed. `Known` bounds all this to accepted messages. The worker steps share
`WorkerMovesFacts`, the ends of a send `SendEndsKeeps`.

### SessionWriteLockProofs

For every set of processes and every finite set of tasks (`LockAssumption`,
`ValuesAssumption`): `LockTypes` (`LockTypeOK`), `CountsAreHolders` (`CountIsHolders`),
`MutualExclusion` (`WritersExclude`), `RemovalsExplained` (`LiveRemovalHasCause`).

`WritersRely` says that every task that creates or holds the lock relies on the file that is
there, unless it was robbed of it; since a file has one owner, a task or the entry of one
process, two writers of different processes cannot both rely on it. `OwnersSound` relates
the file's owner to what tasks do and to the process in the payload, which is what a death
looks at. `CountIsHolders` is part of the invariant, since an entry is there exactly if it
has holders; it rests on the library's facts about cardinalities. Removals by anyone are
dealt with once (`RemovalsKeep`), signals and deaths in lemmas of their own (`SignalKeeps`,
`DeathKeeps`).

`RemovalsExplained` rests on `KInv`: whoever decided on the file that is there has grounds
(`DecisionsGrounded`), and grounds once given remain as long as it is the same file
(`GroundsRemain`), through payloads, entries, ageing and deaths. That a contender has them
needs `OwnersLive`: the file of a dead process belongs to nobody, and one that a process
owns is in its map, so it cannot be taken for an orphan.

### Only model-checked

Liveness: `EveryCallSettles`, `EveryRunSettles`, `ShutdownEnds`, `DrainEnds`, `RecoveryAdvances`,
`NoFileBlocksForever`, `DueJobRuns`. They depend on fairness and ENABLED, of which the prover
cannot reason. Every other property of the passing runs is a theorem.

## 5. Plan

Done, in the order of importance: command lanes with their contract, runs, run loop,
follow-up queue, delivery queue, session write lock and cron service, each with the proofs of
its types, its safety invariants and its action properties. Next:

1. Lemmas that the liveness arguments rest on and that are safety: what the fair actions
   cannot undo, and what makes one of them possible (a queue that is drained and pending, an
   armed timer for a due job).
2. Candidates for models: gateway lock file (an owner whose port is free counts as dead)
   and restart scheduler, heartbeat wake, exec approvals; properties of a
   prompt's destination and of clearing during a drain for `FollowupQueue`.

Not modelled, and why: channel and provider plugins, UI, documentation and scripts are
I/O and presentation; auth profiles, config reload, node registry, subagents, ACP,
session store and process supervisor are separate subsystems of lower priority, listed
with their reasons in `PROJECT.json`. Within the modelled parts: diagnostics, wording,
wait warnings, steering and aborting of runs, the contents of messages, the parts of an outbound
message, the delivery of a cron job's result, and edits of the cron file by other programs.
Failures of files are modelled where the code handles them differently: a failed
acknowledgement, a failed payload of a lock, a failed save of a cron tick. Assumed to succeed
are the saves of a cron start, of a run on demand and of an edit, and in the delivery queue
the first write of an entry (without one the message is sent unqueued), the reads and writes of
`failDelivery` and the move to `failed/` of an entry that is there. Other gateways take the
gateway's lock file only when it is gone, and a process has one hot reload of cron.
