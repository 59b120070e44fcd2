---------------------------- MODULE SessionWriteLock ----------------------------
(***************************************************************************)
(* The lock file of one session (agents/session-write-lock.ts): a file     *)
(* created exclusively whose payload names its process, a map HELD_LOCKS   *)
(* per process that counts the holders sharing the lock, a watchdog per    *)
(* process that releases a lock held for too long, contenders that remove  *)
(* a stale file, and the cleanup of a starting gateway.                    *)
(*                                                                         *)
(* Every await is a step.  Time is the flag "old" of a file (past staleMs) *)
(* and the freedom of the watchdog to find a lock overdue.                 *)
(***************************************************************************)
EXTENDS Naturals, FiniteSets

CONSTANTS
    Procs,          \* process slots: a process that dies is followed by another
    Tasks,          \* async tasks that take the lock
    ProcOf,         \* task -> its process
    Listeners,      \* the processes with other listeners of the termination signals
    Cleaner,        \* the startup cleanup, of a process that takes no lock here
    NoFile,         \* the lock file does not exist
    MaxDeaths       \* bound: processes that die

ASSUME LockAssumption ==
    /\ ProcOf \in [Tasks -> Procs] /\ Listeners \subseteq Procs
    /\ IsFiniteSet(Tasks) /\ Tasks \cap Procs = {} /\ Cleaner \notin Tasks \cup Procs
    /\ MaxDeaths \in Nat

\* Who may remove the file: a task, the watchdog of a process, the cleanup.
Actors == Tasks \cup Procs \cup {Cleaner}

VARIABLES
    startTimes,     \* the platform tells the start time of a process (Linux)
    file,           \* the lock file, or NoFile
    count,          \* process -> count of its HELD_LOCKS entry, 0 without one
    task,           \* task -> its progress through acquire and release
    shares,         \* tasks that hold through the present HELD_LOCKS entry
    armed,          \* processes whose watchdog timer runs
    watchdog,       \* processes whose watchdog is releasing a lock
    cleaner,        \* "idle", "listed", "removing"
    decided,        \* actor -> what it knows of the file it set out to remove
    robbed,         \* history: tasks that write, or are about to, without their lock
    deaths          \* bound

vars == <<startTimes, file, count, task, shares, armed, watchdog, cleaner, decided, robbed, deaths>>

\* A file belongs to the task creating it, then to the entry of its process, then,
\* being released or left behind, to nobody.  fate tells of the process in the payload:
\* alive, dead, or dead with its pid given to the next process of the slot.
Nobody == "nobody"
LockFile == [owner : Tasks \cup Procs \cup {Nobody}, proc : Procs, written : BOOLEAN,
             old : BOOLEAN, fate : {"alive", "dead", "reused"}]

ASSUME ValuesAssumption == Nobody \notin Tasks \cup Procs /\ NoFile \notin LockFile

Stages == {"idle", "called", "trying", "opened", "written", "waiting", "removing",
           "holding", "closing"}

LockTypeOK ==
    /\ startTimes \in BOOLEAN
    /\ file \in LockFile \cup {NoFile}
    /\ count \in [Procs -> 0..Cardinality(Tasks)]
    /\ task \in [Tasks -> Stages]
    /\ shares \subseteq {t \in Tasks : task[t] = "holding"}
    /\ armed \subseteq Procs /\ watchdog \subseteq Procs
    /\ cleaner \in {"idle", "listed", "removing"}
    /\ decided \in [Actors -> {"none", "empty", "unheld", "full", "former"}]
    /\ robbed \subseteq {t \in Tasks : task[t] \in {"opened", "written", "holding"}}
    /\ deaths \in 0..MaxDeaths

Init ==
    /\ startTimes \in BOOLEAN
    /\ file = NoFile
    /\ count = [p \in Procs |-> 0]
    /\ task = [t \in Tasks |-> "idle"]
    /\ shares = {} /\ armed = {} /\ watchdog = {} /\ cleaner = "idle"
    /\ decided = [a \in Actors |-> "none"]
    /\ robbed = {} /\ deaths = 0

-------------------------------------------------------------------------------
At(t, s)   == task[t] = s
Goto(t, s) == task' = [task EXCEPT ![t] = s]
Exists     == file # NoFile
Holders(p) == {t \in shares : ProcOf[t] = p}

\* The file of p's entry is still the one its holders rely on.
Intact(p) == Exists /\ file.owner = p

\* What an actor that reads the file now knows of it: it is gone, has no payload yet, is
\* not recorded as held yet, or none of these.
Seen == IF ~Exists THEN "former"
        ELSE IF ~file.written THEN "empty"
        ELSE IF file.owner \in Tasks THEN "unheld" ELSE "full"

\* The tasks whose lock the file is.
Relying == IF ~Exists THEN {}
           ELSE IF file.owner \in Tasks THEN {file.owner} ELSE Holders(file.owner)

\* What is known of a file whose path is removed is known of a former one.
Superseded == [x \in Actors |-> IF Exists /\ decided[x] # "none" THEN "former" ELSE decided[x]]

\* a removes whatever file has the path, and the tasks relying on it lose their lock.
RemoveFile(a) ==
    /\ file' = NoFile
    /\ decided' = [Superseded EXCEPT ![a] = "none"]
    /\ robbed' = robbed \cup (Relying \ {a})

\* t gives up a lock that it may have lost.
Forget(t) == robbed' = robbed \ {t}

-------------------------------------------------------------------------------
(* acquireSessionWriteLock                                                  *)

\* registerCleanupHandlers, at the start of every acquire.
EnsureWatchdogStarted(p) == armed' = armed \cup {p}

\* At the end of a release, if HELD_LOCKS is empty: also while an acquire is on its way.
StopIdleWatchdog(p) == armed' = IF count[p] = 0 THEN armed \ {p} ELSE armed

\* The call, up to the awaits of mkdir and realpath.
Call(t) ==
    /\ At(t, "idle")
    /\ Goto(t, "called")
    /\ EnsureWatchdogStarted(ProcOf[t])
    /\ UNCHANGED <<startTimes, file, count, shares, watchdog, cleaner, decided, robbed, deaths>>

\* A task joins the holders of its process's entry, also after its file was lost.
JoinHolders(t) ==
    /\ Goto(t, "holding")
    /\ shares' = shares \cup {t}
    /\ robbed' = IF Intact(ProcOf[t]) THEN robbed ELSE robbed \cup {t}
    /\ UNCHANGED <<startTimes, file, armed, watchdog, cleaner, decided, deaths>>

\* Mutant: the count of the entry stays as it is.
AcquireReentrantUncounted(t) ==
    /\ At(t, "called") /\ count[ProcOf[t]] > 0
    /\ JoinHolders(t)
    /\ UNCHANGED count

\* A reentrant acquire joins the entry of its process.
AcquireReentrant(t) ==
    /\ At(t, "called") /\ count[ProcOf[t]] > 0
    /\ count' = [count EXCEPT ![ProcOf[t]] = @ + 1]
    /\ JoinHolders(t)

\* No entry, or allowReentrant: false.
BeginAcquire(t) ==
    /\ At(t, "called")
    /\ Goto(t, "trying")
    /\ UNCHANGED <<startTimes, file, count, shares, armed, watchdog, cleaner, decided, robbed, deaths>>

\* open(lockPath, "wx")
OpenExclusive(t) ==
    /\ At(t, "trying") /\ ~Exists
    /\ file' = [owner |-> t, proc |-> ProcOf[t], written |-> FALSE, old |-> FALSE,
                fate |-> "alive"]
    /\ Goto(t, "opened")
    /\ UNCHANGED <<startTimes, count, shares, armed, watchdog, cleaner, decided, robbed, deaths>>

\* writeFile through the open handle, to the task's own file even if it was unlinked.
WritePayload(t) ==
    /\ At(t, "opened")
    /\ file' = IF Exists /\ file.owner = t THEN [file EXCEPT !.written = TRUE] ELSE file
    /\ Goto(t, "written")
    /\ UNCHANGED <<startTimes, count, shares, armed, watchdog, cleaner, decided, robbed, deaths>>

\* The write fails: the path is removed and the acquire throws.
WriteFails(t) ==
    /\ At(t, "opened")
    /\ file' = NoFile /\ decided' = Superseded
    /\ robbed' = (robbed \cup Relying) \ {t}
    /\ Goto(t, "idle")
    /\ UNCHANGED <<startTimes, count, shares, armed, watchdog, cleaner, deaths>>

\* HELD_LOCKS.set: an entry that is there already is replaced, with its holders.
SetHeld(t) ==
    LET p == ProcOf[t] IN
    /\ At(t, "written")
    /\ count' = [count EXCEPT ![p] = 1]
    /\ shares' = (shares \ Holders(p)) \cup {t}
    /\ file' = IF Exists /\ file.owner = t THEN [file EXCEPT !.owner = p] ELSE file
    /\ robbed' = robbed \cup Holders(p)
    /\ Goto(t, "holding")
    /\ UNCHANGED <<startTimes, armed, watchdog, cleaner, decided, deaths>>

\* inspectLockPayload: the process in the payload is gone, or the payload is too old.
ProcessGone == file.fate = "dead" \/ (file.fate = "reused" /\ startTimes)
Stale       == file.written /\ (ProcessGone \/ file.old)

\* shouldTreatAsOrphanSelfLock: the contender's own pid, without a start time, not held.
OrphanSelf(p) ==
    file.written /\ ~startTimes /\ file.proc = p /\ file.fate # "dead" /\ count[p] = 0

\* Mutants: a file without a payload is stale at any age; it is never stale.
ReclaimsUnwritten(t) == Stale \/ OrphanSelf(ProcOf[t]) \/ ~file.written
ReclaimsWritten(t)   == Stale \/ OrphanSelf(ProcOf[t])

\* shouldReclaimContendedLockFile: without a payload only the age of the file counts.
Reclaims(t) == Stale \/ OrphanSelf(ProcOf[t]) \/ (~file.written /\ file.old)

\* open finds the file (EEXIST); its payload is read and judged.
Contend(t) ==
    /\ At(t, "trying") /\ Exists
    /\ IF Reclaims(t)
       THEN Goto(t, "removing") /\ decided' = [decided EXCEPT ![t] = Seen]
       ELSE Goto(t, "waiting") /\ UNCHANGED decided
    /\ UNCHANGED <<startTimes, file, count, shares, armed, watchdog, cleaner, robbed, deaths>>

Reclaim(t) ==
    /\ At(t, "removing")
    /\ RemoveFile(t)
    /\ Goto(t, "trying")
    /\ UNCHANGED <<startTimes, count, shares, armed, watchdog, cleaner, deaths>>

Retry(t) ==
    /\ At(t, "waiting")
    /\ Goto(t, "trying")
    /\ UNCHANGED <<startTimes, file, count, shares, armed, watchdog, cleaner, decided, robbed, deaths>>

\* Mutant: the caller goes on without the lock.
ProceedsOnTimeOut(t) ==
    /\ At(t, "waiting")
    /\ Goto(t, "holding")
    /\ UNCHANGED <<startTimes, file, count, shares, armed, watchdog, cleaner, decided, robbed, deaths>>

TimeOut(t) ==
    /\ At(t, "waiting")
    /\ Goto(t, "idle")
    /\ UNCHANGED <<startTimes, file, count, shares, armed, watchdog, cleaner, decided, robbed, deaths>>

-------------------------------------------------------------------------------
(* Release                                                                  *)

\* The entry of p goes; a then closes the handle and removes the path.
DropEntry(p, a) ==
    /\ count' = [count EXCEPT ![p] = 0]
    /\ file' = IF Intact(p) THEN [file EXCEPT !.owner = Nobody] ELSE file
    /\ decided' = [decided EXCEPT ![a] = IF Intact(p) THEN "full" ELSE "former"]

\* Mutant: the entry found under the path is released, whoever it belongs to.
ReleaseAny(t) ==
    LET p == ProcOf[t] IN
    /\ At(t, "holding")
    /\ shares' = shares \ {t} /\ Forget(t)
    /\ IF count[p] = 1
       THEN DropEntry(p, t) /\ Goto(t, "closing")
       ELSE /\ count' = [count EXCEPT ![p] = @ - 1]
            /\ Goto(t, "idle")
            /\ UNCHANGED <<file, decided>>
    /\ UNCHANGED <<startTimes, armed, watchdog, cleaner, deaths>>

\* releaseHeldLock of a holder; it does nothing if the entry is not the holder's own.
Release(t) ==
    LET p == ProcOf[t] IN
    /\ At(t, "holding")
    /\ shares' = shares \ {t} /\ Forget(t)
    /\ IF t \in shares /\ count[p] = 1
       THEN DropEntry(p, t) /\ Goto(t, "closing")
       ELSE /\ count' = IF t \in shares THEN [count EXCEPT ![p] = @ - 1] ELSE count
            /\ Goto(t, "idle")
            /\ UNCHANGED <<file, decided>>
    /\ UNCHANGED <<startTimes, armed, watchdog, cleaner, deaths>>

Close(t) ==
    /\ At(t, "closing")
    /\ RemoveFile(t)
    /\ Goto(t, "idle")
    /\ StopIdleWatchdog(ProcOf[t])
    /\ UNCHANGED <<startTimes, count, shares, watchdog, cleaner, deaths>>

\* runLockWatchdogCheck: a lock held past maxHoldMs is released under its holders.
WatchdogForces(p) ==
    /\ p \in armed /\ count[p] > 0 /\ p \notin watchdog
    /\ DropEntry(p, p)
    /\ watchdog' = watchdog \cup {p}
    /\ shares' = shares \ Holders(p)
    /\ robbed' = robbed \cup Holders(p)
    /\ UNCHANGED <<startTimes, task, armed, cleaner, deaths>>

WatchdogCloses(p) ==
    /\ p \in watchdog
    /\ RemoveFile(p)
    /\ watchdog' = watchdog \ {p}
    /\ StopIdleWatchdog(p)
    /\ UNCHANGED <<startTimes, count, task, shares, cleaner, deaths>>

-------------------------------------------------------------------------------
(* cleanStaleLockFiles, by a starting gateway                               *)

CleanerLists ==
    /\ cleaner = "idle" /\ Exists
    /\ cleaner' = "listed"
    /\ UNCHANGED <<startTimes, file, count, task, shares, armed, watchdog, decided, robbed, deaths>>

\* A file that cannot be read, because it is empty or gone by now, is stale at any age.
CleanerFindsStale == ~Exists \/ ~file.written \/ Stale

CleanerReads ==
    /\ cleaner = "listed"
    /\ IF CleanerFindsStale
       THEN cleaner' = "removing" /\ decided' = [decided EXCEPT ![Cleaner] = Seen]
       ELSE cleaner' = "idle" /\ UNCHANGED decided
    /\ UNCHANGED <<startTimes, file, count, task, shares, armed, watchdog, robbed, deaths>>

CleanerRemoves ==
    /\ cleaner = "removing"
    /\ RemoveFile(Cleaner)
    /\ cleaner' = "idle"
    /\ UNCHANGED <<startTimes, count, task, shares, armed, watchdog, deaths>>

-------------------------------------------------------------------------------
(* Signals, time and death                                                  *)

\* handleTerminationSignal where others listen to the signal too, as the gateway's run
\* loop does: releaseAllLocksSync removes the path of a held lock, without a look at the
\* file, and the process goes on, with its holders.
SignalReleases(p) ==
    /\ p \in Listeners
    /\ IF count[p] > 0
       THEN /\ file' = NoFile /\ decided' = Superseded
            /\ robbed' = robbed \cup Holders(p) \cup Relying
       ELSE UNCHANGED <<file, decided, robbed>>
    /\ count' = [count EXCEPT ![p] = 0]
    /\ shares' = shares \ Holders(p)
    /\ armed' = armed \ {p}
    /\ UNCHANGED <<startTimes, task, watchdog, cleaner, deaths>>

Age ==
    /\ Exists /\ ~file.old
    /\ file' = [file EXCEPT !.old = TRUE]
    /\ UNCHANGED <<startTimes, count, task, shares, armed, watchdog, cleaner, decided, robbed, deaths>>

\* Everything the process had in memory is gone.
Dies(p) ==
    /\ deaths < MaxDeaths
    /\ deaths' = deaths + 1
    /\ count' = [count EXCEPT ![p] = 0]
    /\ task' = [t \in Tasks |-> IF ProcOf[t] = p THEN "idle" ELSE task[t]]
    /\ shares' = shares \ Holders(p)
    /\ armed' = armed \ {p}
    /\ watchdog' = watchdog \ {p}
    /\ UNCHANGED <<startTimes, cleaner>>

TasksOf(p) == {t \in Tasks : ProcOf[t] = p}

\* What it left on disk stays.
Crash(p) ==
    /\ Dies(p)
    /\ \E fate \in {"dead", "reused"} :
        file' = IF Exists /\ file.proc = p
                THEN [file EXCEPT !.owner = Nobody, !.fate = fate] ELSE file
    /\ decided' = [a \in Actors |-> IF a \in TasksOf(p) \cup {p} THEN "none" ELSE decided[a]]
    /\ robbed' = robbed \ TasksOf(p)

\* releaseAllLocksSync on "exit", or on a signal nobody else listens to.
Exit(p) ==
    /\ count[p] > 0
    /\ Dies(p)
    /\ file' = NoFile
    /\ decided' = [a \in Actors |-> IF a \in TasksOf(p) \cup {p} THEN "none" ELSE Superseded[a]]
    /\ robbed' = (robbed \cup Relying) \ TasksOf(p)

-------------------------------------------------------------------------------
TaskStep(t) ==
    \/ Call(t) \/ BeginAcquire(t) \/ OpenExclusive(t) \/ WritePayload(t)
    \/ WriteFails(t) \/ SetHeld(t) \/ Contend(t) \/ Reclaim(t) \/ Retry(t) \/ TimeOut(t)
    \/ Close(t)

ProcStep(p) ==
    WatchdogForces(p) \/ WatchdogCloses(p) \/ SignalReleases(p) \/ Crash(p) \/ Exit(p)

Next ==
    \/ \E t \in Tasks : TaskStep(t) \/ AcquireReentrant(t) \/ Release(t)
    \/ \E p \in Procs : ProcStep(p)
    \/ CleanerLists \/ CleanerReads \/ CleanerRemoves \/ Age

Spec == Init /\ [][Next]_vars

\* Tasks go on with an acquire and a release they began and idle tasks begin, the
\* watchdog runs and time passes.  Nothing is assumed of the holders: they may never
\* release.
Fairness ==
    /\ \A t \in Tasks : WF_vars(TaskStep(t))
    /\ \A p \in Procs : WF_vars(WatchdogForces(p)) /\ WF_vars(WatchdogCloses(p))
    /\ WF_vars(Age)

FairSpec == Spec /\ Fairness

-------------------------------------------------------------------------------
\* Two processes write to the session at once only while one of the writers has lost its
\* lock: to the watchdog, to a signal its process handled, or by the removal of its file
\* (for which LiveRemovalHasCause names the reasons).
WritersExclude ==
    \A t, u \in Tasks :
        ProcOf[t] # ProcOf[u] /\ At(t, "holding") /\ At(u, "holding") =>
            t \in robbed \/ u \in robbed

\* Who sets out to remove the file removes a live lock only for one of the reasons named:
\* it had decided on an earlier file, the lock is too old, the starting gateway found the
\* file before its payload, or, without start times, a task of the same process took the
\* file for an orphan before the lock was recorded as held.  (A failed write, a signal and
\* an exit remove the path without a look at the file.)
LiveRemovalHasCause ==
    [][ \A a \in Actors :
          (Exists /\ file' = NoFile /\ file.owner # Nobody
             /\ decided[a] # "none" /\ decided'[a] = "none")
          => \/ decided[a] = "former"
             \/ file.old
             \/ a = Cleaner /\ decided[a] = "empty"
             \/ a \in Tasks /\ decided[a] = "unheld" /\ ~startTimes /\ ProcOf[a] = file.proc ]_vars

\* The count of an entry is the number of tasks that will release it: it is not freed
\* under a holder, nor kept when the last one is done.
CountIsHolders == \A p \in Procs : count[p] = Cardinality(Holders(p))

\* No lock file blocks the session for ever, whether its owner hangs, died, or died
\* before it wrote the payload, as long as tasks go on contending for it.  The watchdog
\* alone does not give this: a release or a signal that ends while an acquire is on its
\* way stops the timer that the acquire started, and the lock is then held unwatched.
NoFileBlocksForever == []<>(\E t \in Tasks : At(t, "waiting")) => (Exists ~> ~Exists)
================================================================================
