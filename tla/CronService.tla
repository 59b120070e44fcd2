------------------------------ MODULE CronService ------------------------------
(***************************************************************************)
(* The cron scheduler (cron/service): jobs kept in a file, a copy of it in *)
(* the memory of each service, a timer whose ticks run the due jobs, runs  *)
(* on demand, the catch-up of a starting service, and the edits of users.  *)
(* A change of the configuration replaces the running service by a new one *)
(* on the same file.  The old one finishes what it has in hand, and takes  *)
(* all calls as before: the gateway's request context keeps it.            *)
(*                                                                         *)
(* One job is observed.  Other jobs share the file, the sections and the   *)
(* timer with it and appear as choices ("others").  A section under locked *)
(* (one at a time per file, locked.ts) is one step.  Time is the number of *)
(* the last slot that passed: every recurring job has all slots.           *)
(***************************************************************************)
EXTENDS Naturals, FiniteSets

CONSTANTS
    Kinds,          \* kinds of schedule observed: subset of {"every", "cron", "at"}
    NoJob,          \* the job is not in the store
    NotLoaded,      \* state.store is not loaded yet
    StuckAfter,     \* STUCK_RUN_MS, in slots
    MaxTime,        \* bound: slots
    MaxEvents       \* bound: edits, runs on demand, replacements, crashes, failed saves

ASSUME CronAssumption ==
    /\ Kinds \subseteq {"every", "cron", "at"}
    /\ StuckAfter \in Nat /\ MaxTime \in Nat \ {0} /\ MaxEvents \in Nat

Services == {1, 2}                          \* the first one and its replacement
Workers  == {"catchup", "tick", "manual"}   \* what runs jobs in a service

VARIABLES
    now,            \* the last slot that passed
    disk,           \* the observed job in the store file, or NoJob
    mem,            \* service -> the job in state.store, or NotLoaded
    timer,          \* services whose state.timer is armed
    phase,          \* service -> progress of start()
    run,            \* service -> worker -> [stage, start, end] of the job's run
    current,        \* the service that the configuration started last
    cronEnabled,    \* service -> deps.cronEnabled
    causes,         \* history: "cleared", "overlap", "unsaved"
    looked,         \* history: service -> when its start looked for a missed slot of the job
    spent           \* bound

vars == <<now, disk, mem, timer, phase, run, current, cronEnabled, causes, looked, spent>>

None      == 0
Slots     == None..MaxTime + 1              \* slots past the bound are one
AtMost(n) == IF n > MaxTime THEN MaxTime + 1 ELSE n

IsJob(j) == j \notin {NoJob, NotLoaded}

Job == [kind : Kinds, enabled : BOOLEAN, at : Slots, next : Slots, mark : Slots,
        last : Slots, status : {"none", "ok", "error"}]

ASSUME AbsenceAssumption == NoJob \notin Job /\ NotLoaded \notin Job /\ NoJob # NotLoaded

\* queued: taken by a tick or the catch-up, behind other jobs; detached: and no longer an
\* object of state.store; others: only other jobs were taken; checked: preflight done.
Stages  == {"none", "begin", "checked", "others", "deferred", "queued", "detached",
            "executing", "ended", "closing"}
NoRun   == [stage |-> "none", start |-> None, end |-> None]
Active  == {"queued", "detached", "executing", "ended"}

CronTypeOK ==
    /\ now \in 1..MaxTime
    /\ disk \in Job \cup {NoJob}
    /\ IsJob(disk) /\ ~disk.enabled => disk.next = None
    /\ mem \in [Services -> Job \cup {NoJob, NotLoaded}]
    /\ timer \subseteq Services
    /\ phase \in [Services -> {"off", "clear", "plan", "planInterrupted", "catchup",
                               "arm", "started"}]
    /\ run \in [Services -> [Workers -> [stage : Stages, start : Slots, end : Slots]]]
    /\ current \in Services
    /\ cronEnabled \in [Services -> BOOLEAN]
    /\ causes \subseteq {"cleared", "overlap", "unsaved"}
    /\ looked \in [Services -> None..MaxTime]
    /\ spent \in 0..MaxEvents

NewJob(kind) == [kind |-> kind, enabled |-> TRUE, at |-> IF kind = "at" THEN 2 ELSE None,
                 next |-> 2, mark |-> None, last |-> None, status |-> "none"]

Init ==
    /\ now = 1
    /\ disk \in {NewJob(kind) : kind \in Kinds}
    /\ mem = [s \in Services |-> NotLoaded]
    /\ timer = {}
    /\ \E enabled \in BOOLEAN :
        /\ cronEnabled = [s \in Services |-> enabled]
        /\ phase = [s \in Services |-> IF s = 1 /\ enabled THEN "clear" ELSE "off"]
    /\ run = [s \in Services |-> [w \in Workers |-> NoRun]]
    /\ current = 1
    /\ causes = {} /\ looked = [s \in Services |-> None] /\ spent = 0

-------------------------------------------------------------------------------
(* Jobs (jobs.ts)                                                           *)

Past(j)  == j.next # None /\ now >= j.next
Due(j)   == IsJob(j) /\ j.enabled /\ Past(j)

\* computeJobNextRunAtMs, as of slot t.
ComputeNext(j, t) ==
    IF ~j.enabled \/ (j.kind = "at" /\ j.status = "ok" /\ j.at <= j.last) THEN None
    ELSE IF j.kind = "at" THEN j.at ELSE AtMost(t + 1)

\* normalizeJobTickState: a disabled job keeps neither slot nor marker, an old marker goes.
Stuck(j) == j.mark # None /\ now - j.mark > StuckAfter
Normalize(j) ==
    IF ~j.enabled THEN [j EXCEPT !.next = None, !.mark = None]
    ELSE IF Stuck(j) THEN [j EXCEPT !.mark = None] ELSE j

WithNext(j) == [j EXCEPT !.next = ComputeNext(j, now)]

\* recomputeNextRuns: a slot that is past is replaced, whether it was run or not.
Recompute(j) ==
    IF ~IsJob(j) THEN j
    ELSE LET n == Normalize(j)
         IN IF n.next = None \/ Past(n) THEN WithNext(n) ELSE n

\* Mutant: the maintenance replaces past slots too.
MaintainAll(j, recomputeExpired) == Recompute(j)

\* recomputeNextRunsForMaintenance: only one that was run, and only if asked for.
Maintain(j, recomputeExpired) ==
    IF ~IsJob(j) THEN j
    ELSE LET n == Normalize(j)
             executed == Past(n) /\ n.mark = None /\ n.last >= n.next
         IN IF n.next = None \/ (recomputeExpired /\ executed) THEN WithNext(n) ELSE n

\* What of Normalize took a marker off that may belong to a run under way.
ClearedBy(j) ==
    IF IsJob(j) /\ j.mark # None /\ Normalize(j).mark = None THEN {"cleared"} ELSE {}

\* applyJobResult: the jobs the run r can leave.  The result (it shows only here), the
\* kind of an error, the length of its backoff and deleteAfterRun are choices.
Applied(j, r) ==
    LET done(result) == [j EXCEPT !.mark = None, !.last = r.start, !.status = result]
        next(result, d) == [done(result) EXCEPT !.next = AtMost(r.end + d)]
        disabled(result) == [done(result) EXCEPT !.enabled = FALSE, !.next = None]
    IN IF ~IsJob(j) THEN {j}
       ELSE IF j.kind = "at" THEN {NoJob, disabled("ok"), next("error", 1), disabled("error")}
       ELSE IF ~j.enabled THEN {disabled("ok"), disabled("error")}
       ELSE {next("ok", 1), next("error", 1), next("error", 2)}

\* A one-shot that has a result.
Finished(j) == j.kind = "at" /\ j.status # "none"

\* isRunnableJob at startup: also a slot of the calendar passed since the last run (but for
\* an error's backoff, which may still be pending), never a one-shot that has a result.
Missed(j) ==
    IF ~IsJob(j) \/ ~j.enabled \/ j.mark # None THEN {FALSE}
    ELSE IF Finished(j)
         THEN {j.status = "error" /\ j.next > j.last /\ Past(j)}
    ELSE IF Past(j) THEN {TRUE}
    ELSE IF j.kind # "cron" \/ j.last = None \/ j.last >= now THEN {FALSE}
    ELSE IF j.status = "error" THEN BOOLEAN ELSE {TRUE}

-------------------------------------------------------------------------------
(* Services                                                                 *)

Loaded(s)   == IF mem[s] = NotLoaded THEN disk ELSE mem[s]
InMemory(s, j) == mem' = [mem EXCEPT ![s] = j]
Save(s, j)  == InMemory(s, j) /\ disk' = j
At(s, w, stage) == run[s][w].stage = stage
Goto(s, w, stage) == run' = [run EXCEPT ![s][w].stage = stage]
Ends(s, w)  == run' = [run EXCEPT ![s][w] = NoRun]
Start(s, p) == phase' = [phase EXCEPT ![s] = p]
\* Calls reach the service of the process start, replaced or not, disabled or not; start()
\* has queued its first section by then.
Serves(s)   == s = 1 /\ phase[s] # "clear"
Spend       == spent < MaxEvents /\ spent' = spent + 1

\* What is recorded of a call that does more than read: that a replaced service acts, on
\* its old copy of the store; and of the maintenance in it, that a marker goes.
Overlap(s)    == IF s = current THEN {} ELSE {"overlap"}
Touched(s, j) == IF s = current THEN ClearedBy(j) ELSE {"overlap"}

\* armTimer: other jobs may want a wake-up too.
ArmTimer(s, j) ==
    LET wakes == IsJob(j) /\ j.enabled /\ j.next # None
    IN timer' \in IF ~cronEnabled[s] THEN {timer \ {s}}
                  ELSE IF wakes THEN {timer \cup {s}}
                  ELSE {timer \cup {s}, timer \ {s}}

-------------------------------------------------------------------------------
(* start                                                                    *)

\* The markers found are taken for those of a process that died.
ClearMarkers(s) ==
    /\ phase[s] = "clear"
    /\ IF IsJob(Loaded(s)) /\ Loaded(s).mark # None
       THEN Save(s, [Loaded(s) EXCEPT !.mark = None]) /\ Start(s, "planInterrupted")
       ELSE InMemory(s, Loaded(s)) /\ Start(s, "plan") /\ UNCHANGED disk
    /\ UNCHANGED <<now, timer, run, current, cronEnabled, causes, looked, spent>>

\* planStartupCatchup: the job runs now, or is deferred behind others, or is not missed.
PlanStartupCatchup(s) ==
    /\ phase[s] \in {"plan", "planInterrupted"}
    /\ \E missed \in (IF phase[s] = "plan" THEN Missed(mem[s]) ELSE {FALSE}) :
        IF missed
        THEN \/ /\ Save(s, [mem[s] EXCEPT !.mark = now])
                /\ Goto(s, "catchup", "queued") /\ Start(s, "catchup")
             \/ /\ disk' = mem[s] /\ UNCHANGED mem
                /\ Goto(s, "catchup", "deferred") /\ Start(s, "catchup")
        ELSE \/ /\ disk' = mem[s] /\ UNCHANGED mem
                /\ Goto(s, "catchup", "others") /\ Start(s, "catchup")
             \/ Start(s, "arm") /\ UNCHANGED <<disk, mem, run>>
    /\ looked' = [looked EXCEPT ![s] =
            IF phase[s] = "plan" /\ IsJob(mem[s]) /\ mem[s].mark = None /\ ~Finished(mem[s])
            THEN now ELSE None]
    /\ UNCHANGED <<now, timer, current, cronEnabled, causes, spent>>

\* applyStartupCatchupOutcomes, without a reload.
ApplyStartupCatchup(s) ==
    LET r == run[s]["catchup"]
        outcomes == CASE r.stage = "ended"    -> Applied(mem[s], r)
                      [] r.stage = "deferred" ->
                            IF IsJob(mem[s]) /\ mem[s].enabled
                            THEN {[mem[s] EXCEPT !.next = AtMost(now + 1)]} ELSE {mem[s]}
                      [] OTHER                -> {mem[s]}
    IN
    /\ phase[s] = "catchup" /\ r.stage \in {"ended", "deferred", "others"}
    /\ \E j \in outcomes :
        /\ Save(s, Maintain(j, FALSE))
        /\ causes' = causes \cup ClearedBy(j)
    /\ Ends(s, "catchup") /\ Start(s, "arm")
    /\ UNCHANGED <<now, timer, current, cronEnabled, looked, spent>>

\* Mutant: the timer is armed only if a slot was replaced.
FinishStartArmingOnChange(s) ==
    /\ phase[s] = "arm"
    /\ IF Recompute(mem[s]) # mem[s]
       THEN Save(s, Recompute(mem[s])) /\ ArmTimer(s, Recompute(mem[s]))
       ELSE UNCHANGED <<mem, disk, timer>>
    /\ Start(s, "started") /\ looked' = [looked EXCEPT ![s] = None]
    /\ UNCHANGED <<now, run, current, cronEnabled, causes, spent>>

\* The last section of start: slots that passed meanwhile are replaced.
FinishStart(s) ==
    /\ phase[s] = "arm"
    /\ IF Recompute(mem[s]) # mem[s] THEN Save(s, Recompute(mem[s])) ELSE UNCHANGED <<mem, disk>>
    /\ causes' = causes \cup ClearedBy(mem[s])
    /\ ArmTimer(s, Recompute(mem[s]))
    /\ Start(s, "started") /\ looked' = [looked EXCEPT ![s] = None]
    /\ UNCHANGED <<now, run, current, cronEnabled, spent>>

-------------------------------------------------------------------------------
(* onTimer                                                                  *)

\* While a tick is under way the timer is armed again, and nothing else.
OnTimerBusy(s) ==
    /\ s \in timer /\ ~At(s, "tick", "none")
    /\ timer' = timer \cup {s}
    /\ UNCHANGED <<now, disk, mem, phase, run, current, cronEnabled, causes, looked, spent>>

OnTimer(s) ==
    /\ s \in timer /\ At(s, "tick", "none")
    /\ Goto(s, "tick", "begin")
    /\ UNCHANGED <<now, disk, mem, timer, phase, current, cronEnabled, causes, looked, spent>>

Runnable(j) == Due(j) /\ j.mark = None

\* The due jobs are marked in the file before any of them runs.  The save may fail.
CollectDue(s) ==
    /\ At(s, "tick", "begin") /\ Runnable(disk)
    /\ \/ /\ Save(s, [disk EXCEPT !.mark = now])
          /\ Goto(s, "tick", "queued")
          /\ UNCHANGED <<causes, looked, spent>>
       \/ /\ Spend /\ causes' = causes \cup {"unsaved"}
          /\ InMemory(s, [disk EXCEPT !.mark = now]) /\ UNCHANGED disk
          /\ Goto(s, "tick", "closing")
    /\ UNCHANGED <<now, timer, phase, current, cronEnabled, looked>>

\* Only other jobs are due, or none is.
CollectOthers(s) ==
    /\ At(s, "tick", "begin") /\ ~Runnable(disk)
    /\ \/ InMemory(s, disk) /\ Goto(s, "tick", "others") /\ UNCHANGED <<disk, causes>>
       \/ /\ Save(s, Maintain(disk, TRUE))
          /\ causes' = causes \cup ClearedBy(disk)
          /\ Goto(s, "tick", "closing")
    /\ UNCHANGED <<now, timer, phase, current, cronEnabled, looked, spent>>

\* The results are applied to the file as it is now.  The save may fail.
ApplyOutcomes(s) ==
    LET r == run[s]["tick"] IN
    /\ r.stage \in {"ended", "others"}
    /\ \E j \in (IF r.stage = "ended" THEN Applied(disk, r) ELSE {disk}) :
        LET m == Maintain(j, FALSE) IN
        \/ Save(s, m) /\ causes' = causes \cup ClearedBy(j) /\ UNCHANGED spent
        \/ /\ Spend /\ causes' = causes \cup ClearedBy(j) \cup {"unsaved"}
           /\ InMemory(s, m) /\ UNCHANGED disk
    /\ run' = [run EXCEPT ![s]["tick"] = [NoRun EXCEPT !.stage = "closing"]]
    /\ UNCHANGED <<now, timer, phase, current, cronEnabled, looked>>

\* The finally of the tick.
CloseTick(s) ==
    /\ At(s, "tick", "closing")
    /\ Ends(s, "tick")
    /\ ArmTimer(s, mem[s])
    /\ UNCHANGED <<now, disk, mem, phase, current, cronEnabled, causes, looked, spent>>

-------------------------------------------------------------------------------
(* Runs                                                                     *)

\* A tick sets the marker of its job to the start, in memory.
BeginRun(s, w) ==
    /\ run[s][w].stage \in {"queued", "detached"}
    /\ run' = [run EXCEPT ![s][w].stage = "executing", ![s][w].start = now]
    /\ IF w = "tick" /\ At(s, w, "queued") /\ IsJob(mem[s])
       THEN InMemory(s, [mem[s] EXCEPT !.mark = now]) ELSE UNCHANGED mem
    /\ UNCHANGED <<now, disk, timer, phase, current, cronEnabled, causes, looked, spent>>

\* executeJobCoreWithTimeout settles.
EndRun(s, w) ==
    /\ At(s, w, "executing")
    /\ run' = [run EXCEPT ![s][w].stage = "ended", ![s][w].end = now]
    /\ UNCHANGED <<now, disk, mem, timer, phase, current, cronEnabled, causes, looked, spent>>

\* inspectManualRunPreflight; its maintenance stays in memory.
Preflight(s, mode) ==
    LET j == Maintain(Loaded(s), FALSE) IN
    /\ Serves(s) /\ At(s, "manual", "none")
    /\ IF IsJob(j) /\ j.mark = None /\ (mode = "force" \/ Due(j))
       THEN /\ Spend
            /\ run' = [run EXCEPT ![s]["manual"] = [NoRun EXCEPT !.stage = "checked",
                                                                 !.start = now]]
            /\ causes' = causes \cup Touched(s, Loaded(s))
       ELSE /\ UNCHANGED <<run, spent>>
            /\ causes' = IF s = current THEN causes \cup ClearedBy(Loaded(s)) ELSE causes
    /\ InMemory(s, j)
    /\ UNCHANGED <<now, disk, timer, phase, current, cronEnabled, looked>>

\* Mutant: the marker is not saved before the run begins.
PrepareManualRunUnsaved(s) ==
    /\ At(s, "manual", "checked")
    /\ IF IsJob(mem[s]) /\ mem[s].mark = None
       THEN /\ InMemory(s, [mem[s] EXCEPT !.mark = run[s]["manual"].start])
            /\ Goto(s, "manual", "executing")
       ELSE Ends(s, "manual") /\ UNCHANGED mem
    /\ UNCHANGED <<now, disk, timer, phase, current, cronEnabled, causes, looked, spent>>

\* prepareManualRun: the job is looked at once more, marked and saved.
PrepareManualRun(s) ==
    /\ At(s, "manual", "checked")
    /\ IF IsJob(mem[s]) /\ mem[s].mark = None
       THEN /\ Save(s, [mem[s] EXCEPT !.mark = run[s]["manual"].start])
            /\ Goto(s, "manual", "executing")
       ELSE Ends(s, "manual") /\ UNCHANGED <<mem, disk>>
    /\ UNCHANGED <<now, timer, phase, current, cronEnabled, causes, looked, spent>>

\* Mutant: the reloaded job wins.
MergeKeepingReloaded(loaded, j) == IF j = NoJob THEN NoJob ELSE loaded

\* mergeManualRunSnapshotAfterReload: what the run left, over the reloaded job.
Merge(loaded, j) ==
    IF j = NoJob \/ loaded = NoJob THEN NoJob
    ELSE [j EXCEPT !.kind = loaded.kind, !.at = loaded.at]

\* finishPreparedManualRun: applied in memory, then the file is reloaded under it.  The
\* objects a tick still has in hand are then those of the former store.
Detached(r) == [r EXCEPT !.stage = IF @ = "queued" THEN "detached" ELSE @]

FinishManualRun(s) ==
    LET r == run[s]["manual"] IN
    /\ r.stage = "ended"
    /\ IF IsJob(mem[s])
       THEN /\ \E a \in Applied(mem[s], r) :
                LET m == Merge(disk, a) IN
                /\ Save(s, Maintain(m, TRUE))
                /\ ArmTimer(s, Maintain(m, TRUE))
                /\ causes' = causes \cup ClearedBy(m)
            /\ run' = [run EXCEPT ![s]["manual"] = NoRun,
                                  ![s]["tick"] = Detached(run[s]["tick"])]
       ELSE Ends(s, "manual") /\ UNCHANGED <<mem, disk, timer, causes>>
    /\ UNCHANGED <<now, phase, current, cronEnabled, looked, spent>>

-------------------------------------------------------------------------------
(* Calls of users                                                           *)

\* list, status: saved if the maintenance changed something.
Read(s) ==
    LET j == Maintain(Loaded(s), FALSE) IN
    /\ Serves(s)
    /\ IF j # Loaded(s)
       THEN Save(s, j) /\ causes' = causes \cup Touched(s, Loaded(s))
       ELSE InMemory(s, j) /\ UNCHANGED <<disk, causes>>
    /\ UNCHANGED <<now, timer, phase, run, current, cronEnabled, looked, spent>>

\* Mutant: a disabled job keeps its slot.
PatchedKeepingSlot(j, patch) ==
    IF patch = "disable" THEN [j EXCEPT !.enabled = FALSE, !.mark = None]
    ELSE WithNext([j EXCEPT !.enabled = patch = "enable" \/ @])

Patched(j, patch) ==
    LET p == [j EXCEPT !.enabled = CASE patch = "enable" -> TRUE
                                     [] patch = "disable" -> FALSE
                                     [] OTHER -> @,
                       !.at = IF j.kind = "at" /\ patch = "reschedule"
                              THEN AtMost(now + 1) ELSE @]
    IN IF p.enabled THEN WithNext(p) ELSE [p EXCEPT !.next = None, !.mark = None]

Update(s) ==
    /\ Serves(s) /\ IsJob(Loaded(s)) /\ Spend
    /\ \E patch \in {"enable", "disable", "reschedule"} :
        LET j == Patched(Loaded(s), patch) IN
        /\ Save(s, j)
        /\ ArmTimer(s, j)
        /\ causes' = causes \cup Overlap(s)
                            \cup (IF j.mark # Loaded(s).mark THEN {"cleared"} ELSE {})
    /\ UNCHANGED <<now, phase, run, current, cronEnabled, looked>>

\* Another job is added; with it the slots of all jobs are recomputed.  The removal of
\* another job does the same if the store had not been loaded.
AddOther(s) ==
    LET j == Recompute(Loaded(s)) IN
    /\ Serves(s) /\ Spend
    /\ Save(s, j)
    /\ ArmTimer(s, j)
    /\ causes' = causes \cup Touched(s, Loaded(s))
    /\ UNCHANGED <<now, phase, run, current, cronEnabled, looked>>

\* Another job is changed or removed: the store is saved as it is in memory.
EditOther(s) ==
    /\ Serves(s) /\ Spend
    /\ Save(s, Loaded(s))
    /\ ArmTimer(s, Loaded(s))
    /\ causes' = causes \cup Overlap(s)
    /\ UNCHANGED <<now, phase, run, current, cronEnabled, looked>>

\* Another job is run on demand: the preflight and the marker of the other job ...
BeginOther(s) ==
    LET j == Maintain(Loaded(s), FALSE) IN
    /\ Serves(s) /\ Spend
    /\ Save(s, j)
    /\ causes' = causes \cup Touched(s, Loaded(s))
    /\ UNCHANGED <<now, timer, phase, run, current, cronEnabled, looked>>

\* ... and its end, over the reloaded file.
EndOther(s) ==
    LET j == Maintain(disk, TRUE) IN
    /\ Serves(s) /\ mem[s] # NotLoaded /\ Spend
    /\ Save(s, j)
    /\ ArmTimer(s, j)
    /\ run' = [run EXCEPT ![s]["tick"] = Detached(run[s]["tick"])]
    /\ causes' = causes \cup Touched(s, disk)
    /\ UNCHANGED <<now, phase, current, cronEnabled, looked>>

Remove(s) ==
    /\ Serves(s) /\ IsJob(Loaded(s)) /\ Spend
    /\ Save(s, NoJob)
    /\ ArmTimer(s, NoJob)
    /\ causes' = causes \cup Overlap(s)
    /\ UNCHANGED <<now, phase, run, current, cronEnabled, looked>>

-------------------------------------------------------------------------------
(* Replacement, death, time                                                 *)

Busy(s) == phase[s] \notin {"off", "started"} \/ \E w \in Workers : ~At(s, w, "none")

\* A reload of the configuration: stop() of the old service clears its timer and no more;
\* the new one, which the configuration may disable, starts.  The request context is not
\* told (Serves).
Replace ==
    /\ current = 1 /\ Spend
    /\ current' = 2
    /\ timer' = timer \ {1}
    /\ \E enabled \in BOOLEAN :
        /\ cronEnabled' = [cronEnabled EXCEPT ![2] = enabled]
        /\ Start(2, IF enabled THEN "clear" ELSE "off")
    /\ causes' = IF Busy(1) THEN causes \cup {"overlap"} ELSE causes
    /\ UNCHANGED <<now, disk, mem, run, looked>>

\* The process dies and is started again; the file stays.
Crash ==
    /\ Spend
    /\ mem' = [s \in Services |-> NotLoaded]
    /\ timer' = {}
    /\ cronEnabled' = [s \in Services |-> cronEnabled[current]]
    /\ phase' = [s \in Services |-> IF s = 1 /\ cronEnabled[current] THEN "clear" ELSE "off"]
    /\ run' = [s \in Services |-> [w \in Workers |-> NoRun]]
    /\ current' = 1
    /\ causes' = {} /\ looked' = [s \in Services |-> None]
    /\ UNCHANGED <<now, disk>>

SlotPasses ==
    /\ now < MaxTime
    /\ now' = now + 1
    /\ UNCHANGED <<disk, mem, timer, phase, run, current, cronEnabled, causes, looked, spent>>

-------------------------------------------------------------------------------
StartStep(s) ==
    ClearMarkers(s) \/ PlanStartupCatchup(s) \/ ApplyStartupCatchup(s) \/ FinishStart(s)

TickStep(s) == CollectDue(s) \/ CollectOthers(s) \/ ApplyOutcomes(s) \/ CloseTick(s)

ManualStep(s) == PrepareManualRun(s) \/ FinishManualRun(s)

Next ==
    \/ \E s \in Services :
        \/ StartStep(s) \/ OnTimer(s) \/ OnTimerBusy(s) \/ TickStep(s) \/ ManualStep(s)
        \/ \E mode \in {"due", "force"} : Preflight(s, mode)
        \/ Read(s) \/ Update(s) \/ Remove(s)
        \/ AddOther(s) \/ EditOther(s) \/ BeginOther(s) \/ EndOther(s)
    \/ \E s \in Services, w \in Workers : BeginRun(s, w) \/ EndRun(s, w)
    \/ Replace \/ Crash \/ SlotPasses

Spec == Init /\ [][Next]_vars

\* Sections get their turn, an armed timer fires, and every run settles: jobs have a
\* timeout unless their own configuration turns it off.  Time need not pass.
Fairness ==
    \A s \in Services :
        /\ WF_vars(StartStep(s)) /\ WF_vars(OnTimer(s)) /\ WF_vars(TickStep(s))
        /\ WF_vars(ManualStep(s))
        /\ \A w \in Workers : WF_vars(BeginRun(s, w)) /\ WF_vars(EndRun(s, w))

FairSpec == Spec /\ Fairness

-------------------------------------------------------------------------------
\* Two runs of a job are never under way at once, unless the marker of one was cleared (the
\* job was disabled, or its run is older than STUCK_RUN_MS), or a replaced service acted:
\* it had work in hand when the new one began, or took a call afterwards.
OneRunPerJob ==
    \A s, t \in Services, v, w \in Workers :
        At(s, v, "executing") /\ At(t, w, "executing") /\ <<s, v>> # <<t, w>>
        => causes \cap {"cleared", "overlap"} # {}

\* The end of s's start gives up no slot but one that passed after the start had looked for
\* missed ones, or that of a job whose run is taken or whose marker was cleared under one.
\* It does not look at a job that was marked, nor at a one-shot that has a result.
GivesUp(s) ==
    /\ FinishStart(s)
    /\ \/ looked[s] = None \/ disk.next > looked[s]
       \/ \E w \in Workers : run[s][w].stage \in Active
       \/ "cleared" \in causes

\* A past-due slot of an enabled job is not given up without a run: the file's next slot
\* moves only in a step that applies a run's result, in the deferral of the job by a start,
\* at the end of a start as GivesUp says, when another job is added, or in a user's own
\* edit of the job.
SlotNotSkipped ==
    [][ (/\ Due(disk) /\ IsJob(disk') /\ disk'.enabled /\ disk'.next # disk.next
         /\ causes \cap {"unsaved", "overlap"} = {} /\ "overlap" \notin causes')
        => \/ \E s \in Services, w \in Workers : At(s, w, "ended") /\ ~At(s, w, "ended")'
           \/ \E s \in Services : At(s, "catchup", "deferred") /\ ApplyStartupCatchup(s)
           \/ \E s \in Services : GivesUp(s) \/ AddOther(s) \/ Update(s) ]_vars

\* The file marks the job as running only while a run of it is taken or under way, or its
\* marker is still to be cleared by a start: no job stays blocked by a run that is gone,
\* but for a result that could not be saved and for a replaced service that acted.
MarkerHasRun ==
    IsJob(disk) /\ disk.mark # None =>
        \/ \E s \in Services, w \in Workers : run[s][w].stage \in Active
        \/ phase[current] \in {"clear", "off"}
        \/ causes \cap {"unsaved", "overlap"} # {}

\* A due job is eventually run, disabled, removed or rescheduled, if the service that the
\* configuration started last is enabled and no replaced one acts.  A result that could
\* not be saved blocks it until its marker is stuck.
DueJobRuns ==
    (Due(disk) /\ cronEnabled[current] /\ causes \cap {"unsaved", "overlap"} = {})
    ~> (~Due(disk) \/ causes \cap {"unsaved", "overlap"} # {} \/ ~cronEnabled[current])

\* docs/automation/cron-jobs.md:666: cron.run, "If the job is already running", answers
\* "{ ok: true, ran: false, reason }": no run on demand is accepted while another run is
\* under way whose marker nobody cleared.
RunningJobIsNotRunAgain ==
    [][ \A s \in Services : At(s, "manual", "none") /\ At(s, "manual", "checked")' =>
            \/ "cleared" \in causes
            \/ \A t \in Services, w \in Workers : ~At(t, w, "executing") ]_vars
================================================================================
