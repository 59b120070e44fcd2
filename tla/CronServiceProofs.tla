--------------------------- MODULE CronServiceProofs ---------------------------
(***************************************************************************)
(* Proofs about CronService, for every set of kinds and every bound.  A    *)
(* run of the job and the marker of the job go together: the invariant     *)
(* says so in both directions, each under the condition that nothing       *)
(* happened which the code cannot prevent (causes).                        *)
(***************************************************************************)
EXTENDS CronService, TLAPS

-----------------------------------------------------------------------------
(* The inductive invariant.                                                *)

\* What a store can hold: a disabled job has no next slot.
Stored == {j \in Job \cup {NoJob} : IsJob(j) /\ ~j.enabled => j.next = None}

Marked(j) == IsJob(j) /\ j.mark # None
MarkedOrGone(j) == j = NoJob \/ Marked(j)

\* A run of the job that is taken, under way, or still to be applied.
Taken(s, w) == run[s][w].stage \in Active

\* A service that does nothing, unless it is called.
Idle(s) == s \notin timer /\ \A w \in Workers : At(s, w, "none")

JobsSound == disk \in Stored /\ mem \in [Services -> Stored \cup {NotLoaded}]

\* The start of a service: its store is loaded from the first section on, its timer is
\* not armed before, the catch-up is over when it ends, and so is what it looked at.
StartSound(s) ==
  /\ looked[s] # None => phase[s] \in {"catchup", "arm"}
  /\ phase[s] = "clear" => Idle(s) /\ mem[s] = NotLoaded
  /\ phase[s] \notin {"clear", "off"} => mem[s] # NotLoaded
  /\ phase[s] # "catchup" => At(s, "catchup", "none")
  /\ At(s, "manual", "checked") => run[s]["manual"].start # None

\* Service 2 has done nothing yet; a service that was replaced has nothing more to do,
\* unless it was busy then.
ReplacementSound ==
  /\ current = 1 => phase[2] = "off" /\ mem[2] = NotLoaded /\ Idle(2)
  /\ "overlap" \notin causes /\ current = 2 => phase[1] \in {"off", "started"} /\ Idle(1)

\* The run is the only one, and the job is marked in the file and in memory, or gone.
TakenIsMarked(s) ==
  \A w \in Workers :
    Taken(s, w) =>
      /\ MarkedOrGone(disk) /\ MarkedOrGone(mem[s])
      /\ \A v \in Workers : Taken(s, v) => v = w

\* The memory follows the file, and what either marks is taken.
MarkedIsTaken(s) ==
  /\ mem[s] # NotLoaded => (mem[s] = NoJob <=> disk = NoJob)
  /\ (phase[s] \notin {"clear", "off"} /\ (Marked(disk) \/ Marked(mem[s])))
       => \E w \in Workers : Taken(s, w)

\* As long as no marker was cleared under a run, and as long as every save succeeded.
MarkersSound ==
  /\ causes \cap {"cleared", "overlap"} = {} => TakenIsMarked(current)
  /\ causes \cap {"unsaved", "overlap"} = {} => MarkedIsTaken(current)

CronInv ==
  /\ CronTypeOK
  /\ JobsSound
  /\ \A s \in Services : StartSound(s)
  /\ ReplacementSound
  /\ MarkersSound

-----------------------------------------------------------------------------
(* What becomes of a job.                                                  *)

LEMMA Times ==
  ASSUME CronTypeOK
  PROVE  /\ now \in Nat /\ now # 0 /\ now \in Slots
         /\ None \in Slots
         /\ \A t \in Nat : AtMost(t) \in Slots
         /\ \A t \in Slots : t \in Nat
BY CronAssumption DEF CronTypeOK, Slots, None, AtMost

\* A job k that is j after some maintenance: of the marker it can only be said that it is
\* the same, or that it was seen to go.
Tended(j, k) ==
  /\ k \in Stored
  /\ k = NoJob <=> j = NoJob
  /\ Marked(k) => Marked(j)
  /\ Marked(j) => Marked(k) \/ ClearedBy(j) = {"cleared"}

LEMMA JobFacts ==
  /\ NoJob \in Stored /\ ~IsJob(NoJob) /\ ~IsJob(NotLoaded) /\ NotLoaded \notin Stored
  /\ NotLoaded \notin Job \cup {NoJob}
  /\ \A j \in Job : IsJob(j)
  /\ \A j \in Stored : j \in Job \cup {NoJob}
BY AbsenceAssumption DEF Stored, IsJob

LEMMA NormalizeFacts ==
  ASSUME CronTypeOK, NEW j \in Job
  PROVE  /\ Normalize(j) \in Job
         /\ Normalize(j).enabled = j.enabled
         /\ ~j.enabled => Normalize(j).next = None
         /\ Normalize(j).mark = j.mark \/ Normalize(j).mark = None
BY Times DEF Job, Normalize

LEMMA WithNextFacts ==
  ASSUME CronTypeOK, NEW j \in Job
  PROVE  /\ WithNext(j) \in Job
         /\ WithNext(j).enabled = j.enabled /\ WithNext(j).mark = j.mark
         /\ ~j.enabled => WithNext(j).next = None
<1>1. ComputeNext(j, now) \in Slots /\ (~j.enabled => ComputeNext(j, now) = None)
  BY Times DEF Job, ComputeNext
<1>2. QED
  BY <1>1 DEF Job, WithNext

LEMMA MaintenanceFacts ==
  ASSUME CronTypeOK, NEW j \in Job \cup {NoJob}
  PROVE  /\ Tended(j, Recompute(j))
         /\ \A b \in BOOLEAN : Tended(j, Maintain(j, b))
<1>1. CASE j = NoJob
  BY <1>1, JobFacts DEF Recompute, Maintain, Tended, Marked
<1>2. CASE j \in Job
  <2> DEFINE n == Normalize(j)
  <2>1. n \in Job /\ WithNext(n) \in Job /\ IsJob(j)
    BY <1>2, NormalizeFacts, WithNextFacts, JobFacts
  <2>2. ASSUME NEW k \in {n, WithNext(n)}
        PROVE  Tended(j, k)
    <3>1. k \in Stored
      BY <1>2, <2>1, NormalizeFacts, WithNextFacts DEF Stored
    <3>2. k # NoJob /\ IsJob(k) /\ j # NoJob
      BY <1>2, <2>1, JobFacts
    <3>3. k.mark = j.mark \/ (k.mark = None /\ n.mark = None)
      BY <1>2, <2>1, NormalizeFacts, WithNextFacts
    <3>4. QED
      BY <2>1, <3>1, <3>2, <3>3 DEF Tended, Marked, ClearedBy
  <2>3. Recompute(j) \in {n, WithNext(n)} /\ \A b \in BOOLEAN : Maintain(j, b) \in {n, WithNext(n)}
    BY <2>1 DEF Recompute, Maintain
  <2>4. QED
    BY <2>2, <2>3
<1>3. QED
  BY <1>1, <1>2

\* A result takes the marker off.
LEMMA AppliedFacts ==
  ASSUME CronTypeOK, NEW j \in Job \cup {NoJob}, NEW r, r.start \in Slots, r.end \in Slots,
         NEW a \in Applied(j, r)
  PROVE  a \in Job \cup {NoJob} /\ ~Marked(a) /\ (j = NoJob => a = NoJob)
<1>1. CASE j = NoJob
  BY <1>1, JobFacts DEF Applied, Marked
<1>2. CASE j \in Job
  <2>1. IsJob(j)
    BY <1>2, JobFacts
  <2>2. ASSUME NEW result \in {"ok", "error"}, NEW d \in {1, 2}
        PROVE  LET done == [j EXCEPT !.mark = None, !.last = r.start, !.status = result]
                   next == [done EXCEPT !.next = AtMost(r.end + d)]
                   disabled == [done EXCEPT !.enabled = FALSE, !.next = None]
               IN  /\ next \in Job /\ next.mark = None
                   /\ disabled \in Job /\ disabled.mark = None
    <3> DEFINE done == [j EXCEPT !.mark = None, !.last = r.start, !.status = result]
    <3>1. AtMost(r.end + d) \in Slots /\ None \in Slots
      BY Times
    <3>2. done \in Job /\ done.mark = None
      BY <1>2, <3>1 DEF Job
    <3> HIDE DEF done
    <3>3. /\ [done EXCEPT !.next = AtMost(r.end + d)] \in Job
          /\ [done EXCEPT !.next = AtMost(r.end + d)].mark = None
      BY <3>1, <3>2 DEF Job
    <3>4. /\ [done EXCEPT !.enabled = FALSE, !.next = None] \in Job
          /\ [done EXCEPT !.enabled = FALSE, !.next = None].mark = None
      BY <3>1, <3>2 DEF Job
    <3>5. QED
      BY <3>3, <3>4 DEF done
  <2>4. QED
    BY <1>2, <2>1, <2>2, JobFacts DEF Applied, Marked
<1>3. QED
  BY <1>1, <1>2

LEMMA MergeFacts ==
  ASSUME NEW loaded \in Job \cup {NoJob}, NEW a \in Job \cup {NoJob}, ~Marked(a)
  PROVE  Merge(loaded, a) \in Job \cup {NoJob} /\ ~Marked(Merge(loaded, a))
<1>1. CASE a = NoJob \/ loaded = NoJob
  BY <1>1, JobFacts DEF Merge, Marked
<1>2. CASE a \in Job /\ loaded \in Job
  <2>1. a # NoJob /\ loaded # NoJob /\ IsJob(a)
    BY <1>2, JobFacts
  <2>2. /\ [a EXCEPT !.kind = loaded.kind, !.at = loaded.at] \in Job
        /\ [a EXCEPT !.kind = loaded.kind, !.at = loaded.at].mark = a.mark
    BY <1>2 DEF Job
  <2>3. QED
    BY <2>1, <2>2 DEF Merge, Marked
<1>3. QED
  BY <1>1, <1>2

LEMMA PatchedFacts ==
  ASSUME CronTypeOK, NEW j \in Job, NEW patch \in {"enable", "disable", "reschedule"}
  PROVE  /\ Patched(j, patch) \in Stored /\ Patched(j, patch) \in Job
         /\ Patched(j, patch).mark \in {j.mark, None}
<1> DEFINE p == [j EXCEPT !.enabled = CASE patch = "enable" -> TRUE
                                        [] patch = "disable" -> FALSE
                                        [] OTHER -> @,
                          !.at = IF j.kind = "at" /\ patch = "reschedule"
                                 THEN AtMost(now + 1) ELSE @]
           q == [p EXCEPT !.next = None, !.mark = None]
<1>1. AtMost(now + 1) \in Slots
  BY Times
<1>2. p \in Job /\ p.mark = j.mark
  BY <1>1 DEF Job
<1>3. q \in Job /\ q.mark = None /\ q.next = None
  BY <1>2, Times DEF Job
<1>4. Patched(j, patch) = IF p.enabled THEN WithNext(p) ELSE q
  BY DEF Patched
<1> HIDE DEF p, q
<1>5. QED
  BY <1>2, <1>3, <1>4, WithNextFacts DEF Stored

\* What a start takes for missed is not marked.
LEMMA MissedFacts ==
  ASSUME NEW j, TRUE \in Missed(j)
  PROVE  IsJob(j) /\ ~Marked(j)
BY DEF Missed, Marked
-----------------------------------------------------------------------------
(* A step of one service.                                                  *)

\* The markers of one service, as MarkersSound asks it of the current one.
MarkersOf(s) ==
  /\ causes \cap {"cleared", "overlap"} = {} => TakenIsMarked(s)
  /\ causes \cap {"unsaved", "overlap"} = {} => MarkedIsTaken(s)

\* A step of s leaves the other service alone, and is one s may take.
Acts(s) ==
  \/ s = current \/ ~Idle(s) \/ phase[s] \notin {"off", "started"}
  \/ s = 1 /\ "overlap" \in causes'

StepOf(s) ==
  /\ Acts(s)
  /\ current' = current /\ causes \subseteq causes'
  /\ \A t \in Services \ {s} :
       /\ mem'[t] = mem[t] /\ phase'[t] = phase[t] /\ run'[t] = run[t]
       /\ looked'[t] = looked[t] /\ (t \in timer' <=> t \in timer)

\* A service that may act is the current one, or two of them overlap.
LEMMA ServiceStep ==
  ASSUME CronInv, NEW s \in Services, StepOf(s), CronTypeOK', JobsSound', StartSound(s)',
         s = current => MarkersOf(s)'
  PROVE  CronInv'
<1>1. current \in {1, 2} /\ s \in {1, 2} /\ Services = {1, 2}
  BY DEF CronInv, CronTypeOK, Services
<1>2. \A t \in Services \ {s} : StartSound(t)'
  BY DEF CronInv, StartSound, StepOf, Idle, At
<1>3. current = 1 => s = 1
  BY <1>1 DEF CronInv, ReplacementSound, StepOf, Acts
<1>4. "overlap" \notin causes' /\ current = 2 => s = 2
  BY <1>1 DEF CronInv, ReplacementSound, StepOf, Acts
<1>5. ReplacementSound'
  BY <1>1, <1>3, <1>4 DEF CronInv, ReplacementSound, StepOf, Idle, At
<1>6. s # current => "overlap" \in causes'
  BY <1>1, <1>3, <1>4
<1>7. MarkersSound'
  BY <1>6 DEF StepOf, MarkersOf, MarkersSound
<1>8. QED
  BY <1>2, <1>5, <1>7 DEF CronInv

RunRecord == [stage : Stages, start : Slots, end : Slots]

\* The run of worker w of service s is r now, the other runs are what they were.
RunIs(s, w, r) ==
  /\ run' \in [Services -> [Workers -> RunRecord]]
  /\ run'[s][w] = r
  /\ \A v \in Workers : v # w => run'[s][v] = run[s][v]
  /\ \A t \in Services : t # s => run'[t] = run[t]

LEMMA RunTyped ==
  ASSUME CronTypeOK, NEW s \in Services, NEW w \in Workers
  PROVE  /\ run[s][w] \in RunRecord /\ NoRun \in RunRecord
         /\ \A x \in Stages : [run[s][w] EXCEPT !.stage = x] \in RunRecord
         /\ \A x \in Stages : [run[s][w] EXCEPT !.stage = x].stage = x
<1>1. run[s][w] \in RunRecord
  BY DEF CronTypeOK, RunRecord
<1>2. NoRun \in RunRecord
  BY Times DEF RunRecord, NoRun, Stages
<1>3. QED
  BY <1>1, <1>2 DEF RunRecord

LEMMA RunUpdate ==
  ASSUME CronTypeOK, NEW s \in Services, NEW w \in Workers, NEW r \in RunRecord
  PROVE  run' = [run EXCEPT ![s][w] = r] => RunIs(s, w, r)
<1>1. run \in [Services -> [Workers -> RunRecord]]
  BY DEF CronTypeOK, RunRecord
<1>2. QED
  BY <1>1 DEF RunIs

LEMMA RunSteps ==
  ASSUME CronTypeOK, NEW s \in Services, NEW w \in Workers
  PROVE  /\ \A x \in Stages : Goto(s, w, x) => RunIs(s, w, [run[s][w] EXCEPT !.stage = x])
         /\ Ends(s, w) => RunIs(s, w, NoRun)
         /\ UNCHANGED run => RunIs(s, w, run[s][w])
<1>1. ASSUME NEW x \in Stages, Goto(s, w, x)
      PROVE  RunIs(s, w, [run[s][w] EXCEPT !.stage = x])
  <2>1. run' = [run EXCEPT ![s][w] = [run[s][w] EXCEPT !.stage = x]]
    BY <1>1 DEF Goto
  <2>2. QED
    BY <2>1, RunTyped, RunUpdate
<1>2. ASSUME Ends(s, w)
      PROVE  RunIs(s, w, NoRun)
  BY <1>2, RunTyped, RunUpdate DEF Ends
<1>3. ASSUME UNCHANGED run
      PROVE  RunIs(s, w, run[s][w])
  BY <1>3 DEF CronTypeOK, RunRecord, RunIs
<1>4. QED
  BY <1>1, <1>2, <1>3

\* The timer is armed or cleared for the service alone.
LEMMA TimerSteps ==
  ASSUME NEW s \in Services, NEW j, ArmTimer(s, j), timer \subseteq Services
  PROVE  timer' \subseteq Services /\ \A t \in Services : t # s => (t \in timer' <=> t \in timer)
BY DEF ArmTimer

\* The store of s is loaded, from the file if need be.
LEMMA LoadedFacts ==
  ASSUME JobsSound, NEW s \in Services
  PROVE  /\ Loaded(s) \in Stored /\ Loaded(s) \in Job \cup {NoJob} /\ Loaded(s) # NotLoaded
         /\ disk \in Stored /\ disk \in Job \cup {NoJob}
         /\ mem[s] # NotLoaded => Loaded(s) = mem[s] /\ mem[s] \in Stored
         /\ mem[s] = NotLoaded => Loaded(s) = disk
BY JobFacts DEF JobsSound, Loaded

Phases == {"off", "clear", "plan", "planInterrupted", "catchup", "arm", "started"}

\* The frame of a step of service s, with the types of what it leaves.
LocalStep(s) ==
  /\ Acts(s)
  /\ UNCHANGED <<now, current, cronEnabled>>
  /\ disk' \in Stored
  /\ looked' \in [Services -> None..MaxTime] /\ \A t \in Services \ {s} : looked'[t] = looked[t]
  /\ mem' \in [Services -> Stored \cup {NotLoaded}]
  /\ phase' \in [Services -> Phases]
  /\ timer' \subseteq Services
  /\ run' \in [Services -> [Workers -> RunRecord]]
  /\ causes \subseteq causes' /\ causes' \subseteq {"cleared", "overlap", "unsaved"}
  /\ spent' \in 0..MaxEvents
  /\ \A t \in Services \ {s} :
       /\ mem'[t] = mem[t] /\ phase'[t] = phase[t] /\ run'[t] = run[t]
       /\ t \in timer' <=> t \in timer

LEMMA LocalStepKeeps ==
  ASSUME CronInv, NEW s \in Services, LocalStep(s), StartSound(s)',
         s = current => MarkersOf(s)'
  PROVE  CronInv'
<1>1. JobsSound'
  BY DEF LocalStep, JobsSound
<1>2. disk' \in Job \cup {NoJob} /\ (IsJob(disk') /\ ~disk'.enabled => disk'.next = None)
  BY DEF LocalStep, Stored
<1>3. mem' \in [Services -> Job \cup {NoJob, NotLoaded}]
  BY JobFacts DEF LocalStep
<1>4. CronTypeOK'
  BY <1>2, <1>3 DEF LocalStep, CronInv, CronTypeOK, Phases, RunRecord
<1>5. StepOf(s)
  BY DEF LocalStep, StepOf
<1>6. QED
  BY <1>1, <1>4, <1>5, ServiceStep

\* The types of the variables that a step leaves alone.
LEMMA Unchanged ==
  ASSUME CronInv
  PROVE  /\ CronTypeOK /\ JobsSound
         /\ phase \in [Services -> Phases] /\ timer \subseteq Services
         /\ run \in [Services -> [Workers -> RunRecord]]
         /\ mem \in [Services -> Stored \cup {NotLoaded}] /\ disk \in Stored
         /\ causes \subseteq {"cleared", "overlap", "unsaved"}
         /\ spent \in 0..MaxEvents /\ looked \in [Services -> None..MaxTime]
         /\ {"catchup", "tick", "manual"} = Workers
BY DEF CronInv, CronTypeOK, JobsSound, Phases, RunRecord, Workers

\* Maintenance that leaves no marker behind a run without saying so.
LEMMA TendedFacts ==
  ASSUME NEW j, NEW k, Tended(j, k)
  PROVE  /\ Marked(k) => Marked(j)
         /\ MarkedOrGone(j) => MarkedOrGone(k) \/ "cleared" \in ClearedBy(j)
         /\ k = NoJob <=> j = NoJob
         /\ k \in Stored
BY DEF Tended, MarkedOrGone

LEMMA ClearedFacts == \A j : ClearedBy(j) \subseteq {"cleared"}
BY DEF ClearedBy

-----------------------------------------------------------------------------
(* The steps of a start.                                                   *)

LEMMA ClearMarkersKeeps ==
  ASSUME CronInv, NEW s \in Services, ClearMarkers(s)
  PROVE  CronInv'
<1>1. /\ phase[s] = "clear" /\ Idle(s) /\ mem[s] = NotLoaded /\ Loaded(s) = disk
      /\ disk \in Job \cup {NoJob}
  BY Unchanged, LoadedFacts DEF ClearMarkers, CronInv, StartSound
<1>2. PICK j \in Stored, p \in {"planInterrupted", "plan"} :
        /\ InMemory(s, j) /\ disk' = j /\ Start(s, p) /\ ~Marked(j)
  <2>1. CASE IsJob(disk) /\ disk.mark # None
    <3>1. /\ [disk EXCEPT !.mark = None] \in Job
          /\ [disk EXCEPT !.mark = None].mark = None
          /\ [disk EXCEPT !.mark = None].enabled = disk.enabled
          /\ [disk EXCEPT !.mark = None].next = disk.next
      BY <1>1, <2>1, JobFacts, Unchanged, Times DEF Job
    <3>2. [disk EXCEPT !.mark = None] \in Stored
      BY <2>1, <3>1, Unchanged DEF Stored
    <3>3. QED
      BY <1>1, <2>1, <3>1, <3>2 DEF ClearMarkers, Save, Marked
  <2>2. CASE ~(IsJob(disk) /\ disk.mark # None)
    BY <1>1, <2>2, Unchanged DEF ClearMarkers, Marked
  <2>3. QED
    BY <2>1, <2>2
<1>3. UNCHANGED <<now, timer, run, current, cronEnabled, causes, looked, spent>>
  BY DEF ClearMarkers
<1>4. mem'[s] = j /\ phase'[s] = p
  BY <1>2, Unchanged DEF InMemory, Start
<1>5. LocalStep(s)
  BY <1>1, <1>2, <1>3, Unchanged DEF LocalStep, Acts, InMemory, Start, Phases
<1>6. StartSound(s)'
  BY <1>1, <1>2, <1>3, <1>4, Unchanged, JobFacts DEF CronInv, StartSound, Idle, At
<1>7. MarkersOf(s)'
  <2>1. \A w \in Workers : ~Taken(s, w)'
    BY <1>1, <1>3 DEF Idle, At, Taken, Active
  <2>2. QED
    BY <1>2, <1>4, <2>1 DEF MarkersOf, TakenIsMarked, MarkedIsTaken
<1>8. QED
  BY <1>5, <1>6, <1>7, LocalStepKeeps

LEMMA GotoStep ==
  ASSUME CronInv, NEW s \in Services, NEW w \in Workers, NEW x \in Stages, Goto(s, w, x)
  PROVE  /\ RunIs(s, w, [run[s][w] EXCEPT !.stage = x])
         /\ run'[s][w].stage = x /\ run'[s][w].start = run[s][w].start
<1>1. RunIs(s, w, [run[s][w] EXCEPT !.stage = x])
  BY Unchanged, RunSteps
<1>2. run[s][w] \in RunRecord
  BY Unchanged
<1>3. QED
  BY <1>1, <1>2 DEF RunIs, RunRecord

LEMMA EndsStep ==
  ASSUME CronInv, NEW s \in Services, NEW w \in Workers, Ends(s, w)
  PROVE  RunIs(s, w, NoRun) /\ run'[s][w].stage = "none"
<1>1. RunIs(s, w, NoRun)
  BY Unchanged, RunSteps
<1>2. QED
  BY <1>1 DEF RunIs, NoRun

LEMMA MarkFacts ==
  ASSUME CronTypeOK, NEW j \in Stored, IsJob(j), NEW t \in Slots, t # None
  PROVE  LET k == [j EXCEPT !.mark = t] IN k \in Stored /\ Marked(k) /\ k # NoJob
<1>1. j \in Job
  BY JobFacts DEF Stored, IsJob
<1>2. /\ [j EXCEPT !.mark = t] \in Job /\ [j EXCEPT !.mark = t].mark = t
      /\ [j EXCEPT !.mark = t].enabled = j.enabled /\ [j EXCEPT !.mark = t].next = j.next
  BY <1>1 DEF Job
<1>3. QED
  BY <1>1, <1>2, JobFacts DEF Stored, Marked

LEMMA PlanStartupCatchupKeeps ==
  ASSUME CronInv, NEW s \in Services, PlanStartupCatchup(s)
  PROVE  CronInv'
<1>1. /\ phase[s] \in {"plan", "planInterrupted"} /\ At(s, "catchup", "none")
      /\ mem[s] \in Stored /\ mem[s] # NotLoaded
      /\ UNCHANGED <<now, timer, current, cronEnabled, causes, spent>>
      /\ looked' \in [Services -> None..MaxTime] /\ \A t \in Services \ {s} : looked'[t] = looked[t]
  <2>1. now \in None..MaxTime /\ None \in None..MaxTime
    BY Unchanged, CronAssumption DEF CronTypeOK, None
  <2>2. QED
    BY <2>1, Unchanged, LoadedFacts DEF PlanStartupCatchup, CronInv, StartSound
<1>2. s = current => MarkersOf(s)
  BY DEF CronInv, MarkersSound, MarkersOf
<1>3. /\ Acts(s) /\ "catchup" \in Workers /\ "manual" \in Workers
      /\ {"queued", "deferred", "others"} \subseteq Stages
  BY <1>1 DEF Acts, Workers, Stages
<1>4. CASE /\ TRUE \in Missed(mem[s])
           /\ Save(s, [mem[s] EXCEPT !.mark = now])
           /\ Goto(s, "catchup", "queued") /\ Start(s, "catchup")
  <2> DEFINE j == [mem[s] EXCEPT !.mark = now]
  <2>1. j \in Stored /\ Marked(j) /\ j # NoJob /\ IsJob(mem[s]) /\ ~Marked(mem[s])
    <3>1. IsJob(mem[s]) /\ ~Marked(mem[s])
      BY <1>4, MissedFacts
    <3>2. now \in Slots /\ now # None /\ CronTypeOK
      BY Unchanged, Times DEF None
    <3>3. QED
      BY <1>1, <3>1, <3>2, MarkFacts
  <2>2. ~MarkedOrGone(mem[s])
    BY <2>1, JobFacts DEF MarkedOrGone
  <2> HIDE DEF j
  <2>3. /\ mem' = [mem EXCEPT ![s] = j] /\ disk' = j /\ mem'[s] = j
        /\ phase' = [phase EXCEPT ![s] = "catchup"] /\ phase'[s] = "catchup"
    BY <1>4, Unchanged DEF Save, InMemory, Start, j
  <2>4. RunIs(s, "catchup", [run[s]["catchup"] EXCEPT !.stage = "queued"])
        /\ run'[s]["catchup"].stage = "queued"
    BY <1>3, <1>4, GotoStep
  <2>5. LocalStep(s)
    BY <1>1, <1>3, <2>1, <2>3, <2>4, Unchanged DEF LocalStep, RunIs, Phases
  <2>6. StartSound(s)'
    <3>1. mem'[s] # NotLoaded /\ run'[s]["manual"] = run[s]["manual"]
      BY <1>3, <2>1, <2>3, <2>4, JobFacts DEF RunIs
    <3>2. QED
      BY <2>3, <3>1 DEF StartSound, At, CronInv
  <2>7. ASSUME s = current PROVE MarkersOf(s)'
    <3>1. ASSUME causes \cap {"cleared", "overlap"} = {}
          PROVE  TakenIsMarked(s)'
      <4>1. \A w \in Workers : ~Taken(s, w)
        BY <1>2, <2>2, <2>7, <3>1 DEF MarkersOf, TakenIsMarked
      <4>2. \A w \in Workers : Taken(s, w)' => w = "catchup"
        BY <2>4, <4>1 DEF Taken, RunIs
      <4>3. QED
        BY <2>1, <2>3, <4>2 DEF TakenIsMarked, MarkedOrGone
    <3>2. MarkedIsTaken(s)'
      BY <1>3, <2>1, <2>3, <2>4 DEF MarkedIsTaken, Taken, Active
    <3>3. QED
      BY <1>1, <3>1, <3>2 DEF MarkersOf
  <2>8. QED
    BY <2>5, <2>6, <2>7, LocalStepKeeps
<1>5. ASSUME NEW x \in {"deferred", "others"},
             disk' = mem[s], UNCHANGED mem, Goto(s, "catchup", x), Start(s, "catchup")
      PROVE  CronInv'
  <2>1. phase' = [phase EXCEPT ![s] = "catchup"] /\ phase'[s] = "catchup"
    BY <1>5, Unchanged DEF Start
  <2>2. RunIs(s, "catchup", [run[s]["catchup"] EXCEPT !.stage = x])
        /\ run'[s]["catchup"].stage = x
    BY <1>3, <1>5, GotoStep
  <2>3. LocalStep(s)
    BY <1>1, <1>3, <1>5, <2>1, <2>2, Unchanged DEF LocalStep, RunIs, Phases
  <2>4. StartSound(s)'
    <3>1. run'[s]["manual"] = run[s]["manual"]
      BY <1>3, <2>2 DEF RunIs
    <3>2. QED
      BY <1>1, <1>5, <2>1, <3>1 DEF StartSound, At, CronInv
  <2>5. ASSUME s = current PROVE MarkersOf(s)'
    <3>1. \A w \in Workers : Taken(s, w)' <=> Taken(s, w)
      BY <1>1, <2>2 DEF Taken, RunIs, At, Active
    <3>2. TakenIsMarked(s) => TakenIsMarked(s)'
      BY <1>5, <3>1 DEF TakenIsMarked, MarkedOrGone, Marked
    <3>3. MarkedIsTaken(s) => MarkedIsTaken(s)'
      BY <1>1, <1>5, <3>1 DEF MarkedIsTaken, Marked
    <3>4. QED
      BY <1>1, <1>2, <2>5, <3>2, <3>3 DEF MarkersOf
  <2>6. QED
    BY <2>3, <2>4, <2>5, LocalStepKeeps
<1>6. CASE Start(s, "arm") /\ UNCHANGED <<disk, mem, run>>
  <2>1. phase' = [phase EXCEPT ![s] = "arm"] /\ phase'[s] = "arm"
    BY <1>6, Unchanged DEF Start
  <2>2. LocalStep(s)
    BY <1>1, <1>3, <1>6, <2>1, Unchanged DEF LocalStep, Phases
  <2>3. StartSound(s)'
    BY <1>1, <1>6, <2>1, Unchanged DEF StartSound, Idle, At, CronInv
  <2>4. s = current => MarkersOf(s)'
    BY <1>1, <1>2, <1>6, <2>1 DEF MarkersOf, TakenIsMarked, MarkedIsTaken, MarkedOrGone,
          Marked, Taken
  <2>5. QED
    BY <2>2, <2>3, <2>4, LocalStepKeeps
<1>7. QED
  BY <1>4, <1>5, <1>6 DEF PlanStartupCatchup

\* A step that puts k, made of the job j of the file or of the memory, into the memory
\* and perhaps the file, and takes and settles no run.
LEMMA CopyKeepsMarkers ==
  ASSUME CronInv, NEW s \in Services, s = current, NEW j \in {disk, mem[s]}, j # NotLoaded, NEW k,
         \/ disk' = k /\ mem'[s] = k
         \/ disk' = disk /\ mem'[s] = k /\ (k = NoJob <=> j = NoJob),
         Marked(k) => Marked(j),
         MarkedOrGone(j) => MarkedOrGone(k) \/ "cleared" \in causes',
         causes \subseteq causes',
         \A w \in Workers : Taken(s, w)' <=> Taken(s, w),
         phase'[s] \notin {"clear", "off"} => phase[s] \notin {"clear", "off"}
  PROVE  MarkersOf(s)'
<1>1. MarkersOf(s)
  BY DEF CronInv, MarkersSound, MarkersOf
<1>3. ASSUME causes' \cap {"cleared", "overlap"} = {}
      PROVE  TakenIsMarked(s)'
  <2>1. TakenIsMarked(s)
    BY <1>1, <1>3 DEF MarkersOf
  <2>2. ASSUME NEW w \in Workers, Taken(s, w)
        PROVE  MarkedOrGone(disk') /\ MarkedOrGone(mem'[s]) /\ \A v \in Workers : Taken(s, v) => v = w
    <3>1. MarkedOrGone(disk) /\ MarkedOrGone(mem[s]) /\ \A v \in Workers : Taken(s, v) => v = w
      BY <2>1, <2>2 DEF TakenIsMarked
    <3>2. MarkedOrGone(k)
      BY <1>3, <3>1
    <3>3. QED
      BY <3>1, <3>2
  <2>3. QED
    BY <2>2 DEF TakenIsMarked, MarkedOrGone, Marked
<1>4. ASSUME causes' \cap {"unsaved", "overlap"} = {}
      PROVE  MarkedIsTaken(s)'
  <2>1. MarkedIsTaken(s)
    BY <1>1, <1>4 DEF MarkersOf
  <2>2. mem'[s] # NotLoaded => (mem'[s] = NoJob <=> disk' = NoJob)
    BY <2>1 DEF MarkedIsTaken
  <2>3. ASSUME phase'[s] \notin {"clear", "off"}, Marked(disk') \/ Marked(mem'[s])
        PROVE  \E w \in Workers : Taken(s, w)'
    <3>1. Marked(disk) \/ Marked(mem[s])
      BY <2>3
    <3>2. QED
      BY <2>1, <2>3, <3>1 DEF MarkedIsTaken
  <2>4. QED
    BY <2>2, <2>3 DEF MarkedIsTaken, Marked
<1>5. QED
  BY <1>3, <1>4 DEF MarkersOf

\* A step that settles the run of w and leaves the job unmarked in the file and in memory,
\* or in memory only, with a failed save.
LEMMA ResultKeepsMarkers ==
  ASSUME CronInv, NEW s \in Services, s = current, NEW w \in Workers, Taken(s, w),
         ~Marked(mem'[s]),
         \/ disk' = mem'[s]
         \/ "unsaved" \in causes',
         causes \subseteq causes',
         \A v \in Workers : Taken(s, v)' => Taken(s, v) /\ v # w
  PROVE  MarkersOf(s)'
<1>1. MarkersOf(s)
  BY DEF CronInv, MarkersSound, MarkersOf
<1>2. ASSUME causes' \cap {"cleared", "overlap"} = {}
      PROVE  TakenIsMarked(s)'
  BY <1>1, <1>2 DEF MarkersOf, TakenIsMarked
<1>3. ASSUME causes' \cap {"unsaved", "overlap"} = {}
      PROVE  MarkedIsTaken(s)'
  BY <1>3 DEF MarkedIsTaken, Marked
<1>4. QED
  BY <1>2, <1>3 DEF MarkersOf

LEMMA ApplyStartupCatchupKeeps ==
  ASSUME CronInv, NEW s \in Services, ApplyStartupCatchup(s)
  PROVE  CronInv'
<1> DEFINE r == run[s]["catchup"]
<1>1. /\ phase[s] = "catchup" /\ r.stage \in {"ended", "deferred", "others"}
      /\ mem[s] \in Stored /\ mem[s] # NotLoaded /\ mem[s] \in Job \cup {NoJob}
      /\ UNCHANGED <<now, timer, current, cronEnabled, looked, spent>>
      /\ Ends(s, "catchup") /\ Start(s, "arm")
  BY Unchanged, LoadedFacts, JobFacts DEF ApplyStartupCatchup, CronInv, StartSound
<1>2. /\ Acts(s) /\ "catchup" \in Workers /\ "manual" \in Workers
      /\ r \in RunRecord /\ r.start \in Slots /\ r.end \in Slots
  BY <1>1, Unchanged DEF Acts, RunRecord
<1>3. PICK j : /\ Save(s, Maintain(j, FALSE))
               /\ causes' = causes \cup ClearedBy(j)
               /\ \/ r.stage = "ended" /\ j \in Applied(mem[s], r)
                  \/ r.stage # "ended" /\ j = mem[s]
                  \/ /\ r.stage # "ended" /\ IsJob(mem[s]) /\ mem[s].enabled
                     /\ j = [mem[s] EXCEPT !.next = AtMost(now + 1)]
  BY <1>1 DEF ApplyStartupCatchup
<1>4. /\ j \in Job \cup {NoJob}
      /\ r.stage = "ended" => ~Marked(j)
      /\ r.stage # "ended" => (Marked(j) <=> Marked(mem[s])) /\ (j = NoJob <=> mem[s] = NoJob)
  <2>1. CASE r.stage = "ended" /\ j \in Applied(mem[s], r)
    BY <1>1, <1>2, <2>1, Unchanged, AppliedFacts
  <2>2. CASE r.stage # "ended" /\ j = mem[s]
    BY <1>1, <2>2
  <2>3. CASE /\ r.stage # "ended" /\ IsJob(mem[s]) /\ mem[s].enabled
             /\ j = [mem[s] EXCEPT !.next = AtMost(now + 1)]
    <3>1. AtMost(now + 1) \in Slots
      BY Unchanged, Times
    <3>2. mem[s] \in Job /\ mem[s] # NoJob
      BY <1>1, <2>3, JobFacts
    <3>3. j \in Job /\ j.mark = mem[s].mark
      BY <2>3, <3>1, <3>2 DEF Job
    <3>4. IsJob(j) /\ j # NoJob
      BY <3>3, JobFacts
    <3>5. QED
      BY <2>3, <3>2, <3>3, <3>4 DEF Marked
  <2>4. QED
    BY <1>3, <2>1, <2>2, <2>3
<1> DEFINE k == Maintain(j, FALSE)
<1>5. Tended(j, k)
  BY <1>4, Unchanged, MaintenanceFacts
<1> HIDE DEF k
<1>6. /\ mem' = [mem EXCEPT ![s] = k] /\ mem'[s] = k /\ disk' = k /\ k \in Stored
      /\ phase' = [phase EXCEPT ![s] = "arm"] /\ phase'[s] = "arm"
      /\ k # NotLoaded
  BY <1>1, <1>3, <1>5, Unchanged, TendedFacts, JobFacts DEF Save, InMemory, Start, k
<1>7. /\ RunIs(s, "catchup", NoRun) /\ run'[s]["catchup"].stage = "none"
      /\ run'[s]["manual"] = run[s]["manual"]
  BY <1>1, <1>2, EndsStep DEF RunIs
<1>8. LocalStep(s)
  BY <1>1, <1>2, <1>3, <1>6, <1>7, Unchanged, ClearedFacts DEF LocalStep, RunIs, Phases
<1>9. StartSound(s)'
  BY <1>6, <1>7 DEF StartSound, At, CronInv
<1>10. ASSUME s = current PROVE MarkersOf(s)'
  <2>1. CASE r.stage = "ended"
    <3>1. Taken(s, "catchup") /\ ~Marked(mem'[s])
      BY <1>4, <1>5, <1>6, <2>1, TendedFacts DEF Taken, Active
    <3>2. \A v \in Workers : Taken(s, v)' => Taken(s, v) /\ v # "catchup"
      BY <1>7 DEF Taken, Active, RunIs
    <3>3. QED
      BY <1>2, <1>3, <1>6, <1>10, <3>1, <3>2, ResultKeepsMarkers
  <2>2. CASE r.stage # "ended"
    <3>1. \A w \in Workers : Taken(s, w)' <=> Taken(s, w)
      BY <1>1, <1>7, <2>2 DEF Taken, Active, RunIs
    <3>2. /\ Marked(k) => Marked(mem[s])
          /\ MarkedOrGone(mem[s]) => MarkedOrGone(k) \/ "cleared" \in causes'
      BY <1>3, <1>4, <1>5, <2>2, TendedFacts DEF MarkedOrGone
    <3>3. QED
      BY <1>1, <1>3, <1>6, <1>10, <3>1, <3>2, CopyKeepsMarkers
  <2>3. QED
    BY <2>1, <2>2
<1>11. QED
  BY <1>8, <1>9, <1>10, LocalStepKeeps

LEMMA FinishStartKeeps ==
  ASSUME CronInv, NEW s \in Services, FinishStart(s)
  PROVE  CronInv'
<1> DEFINE k == Recompute(mem[s])
<1>1. /\ phase[s] = "arm" /\ mem[s] \in Stored /\ mem[s] # NotLoaded /\ mem[s] \in Job \cup {NoJob}
      /\ UNCHANGED <<now, run, current, cronEnabled, spent>>
      /\ looked' = [looked EXCEPT ![s] = None]
      /\ causes' = causes \cup ClearedBy(mem[s])
      /\ ArmTimer(s, k) /\ Start(s, "started")
  BY Unchanged, LoadedFacts, JobFacts DEF FinishStart, CronInv, StartSound
<1>2. Tended(mem[s], k)
  BY <1>1, Unchanged, MaintenanceFacts
<1>3. mem' = [mem EXCEPT ![s] = k] /\ disk' \in {k, disk}
  BY Unchanged DEF FinishStart, Save, InMemory
<1> HIDE DEF k
<1>4. /\ mem'[s] = k /\ k \in Stored /\ k # NotLoaded
      /\ phase' = [phase EXCEPT ![s] = "started"] /\ phase'[s] = "started"
      /\ Acts(s)
  BY <1>1, <1>2, <1>3, Unchanged, TendedFacts, JobFacts DEF Start, Acts
<1>9. /\ looked'[s] = None /\ looked' \in [Services -> None..MaxTime]
      /\ \A t \in Services \ {s} : looked'[t] = looked[t]
  BY <1>1, Unchanged, CronAssumption DEF None
<1>5. LocalStep(s)
  BY <1>1, <1>3, <1>4, <1>9, Unchanged, ClearedFacts, TimerSteps DEF LocalStep, Phases
<1>6. StartSound(s)'
  BY <1>1, <1>4, <1>9 DEF StartSound, At, CronInv
<1>7. ASSUME s = current PROVE MarkersOf(s)'
  <2>1. \A w \in Workers : Taken(s, w)' <=> Taken(s, w)
    BY <1>1 DEF Taken
  <2>2. /\ Marked(k) => Marked(mem[s])
        /\ MarkedOrGone(mem[s]) => MarkedOrGone(k) \/ "cleared" \in causes'
        /\ k = NoJob <=> mem[s] = NoJob
    BY <1>1, <1>2, TendedFacts
  <2>3. QED
    BY <1>1, <1>3, <1>4, <1>7, <2>1, <2>2, CopyKeepsMarkers
<1>8. QED
  BY <1>5, <1>6, <1>7, LocalStepKeeps

-----------------------------------------------------------------------------
(* The steps of a tick.                                                    *)

\* A step in which worker w moves on without taking or settling a run.
LEMMA MoveKeeps ==
  ASSUME CronInv, NEW s \in Services, NEW w \in Workers, NEW r, RunIs(s, w, r),
         Acts(s), w = "catchup" => phase[s] = "catchup",
         r.stage \in Active <=> Taken(s, w),
         w = "manual" /\ r.stage = "checked" => r.start # None,
         phase[s] # "clear",
         timer' \subseteq Services,
         \A t \in Services : t # s => (t \in timer' <=> t \in timer),
         UNCHANGED <<now, disk, mem, phase, current, cronEnabled, causes, looked, spent>>
  PROVE  CronInv'
<1>1. LocalStep(s)
  BY Unchanged DEF LocalStep, RunIs
<1>2. "catchup" \in Workers /\ "manual" \in Workers
  BY Unchanged
<1>3. StartSound(s)'
  <2>1. phase[s] # "catchup" => At(s, "catchup", "none")'
    BY <1>2 DEF RunIs, At, CronInv, StartSound
  <2>2. At(s, "manual", "checked")' => run'[s]["manual"].start # None
    BY <1>2 DEF RunIs, At, CronInv, StartSound
  <2>3. phase[s] \notin {"clear", "off"} => mem[s] # NotLoaded
    BY DEF CronInv, StartSound
  <2>4. QED
    BY <2>1, <2>2, <2>3 DEF CronInv, StartSound
<1>4. ASSUME s = current PROVE MarkersOf(s)'
  <2>1. MarkersOf(s)
    BY <1>4 DEF CronInv, MarkersSound, MarkersOf
  <2>2. \A v \in Workers : Taken(s, v)' <=> Taken(s, v)
    BY DEF Taken, RunIs
  <2>3. QED
    BY <2>1, <2>2 DEF MarkersOf, TakenIsMarked, MarkedIsTaken, MarkedOrGone, Marked
<1>5. QED
  BY <1>1, <1>3, <1>4, LocalStepKeeps

LEMMA OnTimerKeeps ==
  ASSUME CronInv, NEW s \in Services, OnTimer(s) \/ OnTimerBusy(s)
  PROVE  CronInv'
<1>1. /\ s \in timer /\ "tick" \in Workers /\ "begin" \in Stages /\ phase[s] # "clear"
      /\ timer \subseteq Services
  BY Unchanged DEF OnTimer, OnTimerBusy, CronInv, StartSound, Idle, Stages
<1>2. CASE OnTimer(s)
  <2>1. RunIs(s, "tick", [run[s]["tick"] EXCEPT !.stage = "begin"])
        /\ run'[s]["tick"].stage = "begin"
    BY <1>1, <1>2, GotoStep DEF OnTimer
  <2>2. run'[s]["tick"] = [run[s]["tick"] EXCEPT !.stage = "begin"] /\ ~Taken(s, "tick")
    BY <1>2, <2>1 DEF OnTimer, At, RunIs, Taken, Active
  <2>3. QED
    BY <1>1, <1>2, <2>1, <2>2, MoveKeeps DEF OnTimer, Acts, Idle, Active
<1>3. CASE OnTimerBusy(s)
  <2>1. RunIs(s, "tick", run[s]["tick"])
    BY <1>1, <1>3, Unchanged, RunSteps DEF OnTimerBusy
  <2>2. QED
    BY <1>1, <1>3, <2>1, MoveKeeps DEF OnTimerBusy, Acts, Idle, Taken
<1>4. QED
  BY <1>2, <1>3

\* A worker that is at a stage of its own makes its service one that acts.
LEMMA WorkerActs ==
  ASSUME CronInv, NEW s \in Services, NEW w \in Workers, run[s][w].stage # "none"
  PROVE  Acts(s) /\ phase[s] # "clear" /\ (w = "catchup" => phase[s] = "catchup")
BY DEF Acts, Idle, At, CronInv, StartSound

LEMMA CollectDueKeeps ==
  ASSUME CronInv, NEW s \in Services, CollectDue(s)
  PROVE  CronInv'
<1> DEFINE j == [disk EXCEPT !.mark = now]
<1>1. /\ At(s, "tick", "begin") /\ Runnable(disk)
      /\ UNCHANGED <<now, timer, phase, current, cronEnabled, looked>>
      /\ mem' = [mem EXCEPT ![s] = j]
      /\ \/ /\ disk' = j /\ Goto(s, "tick", "queued") /\ UNCHANGED <<causes, looked, spent>>
         \/ /\ spent < MaxEvents /\ spent' = spent + 1
            /\ causes' = causes \cup {"unsaved"} /\ UNCHANGED disk
            /\ Goto(s, "tick", "closing")
  BY DEF CollectDue, Save, InMemory, Spend
<1>2. j \in Stored /\ Marked(j) /\ j # NoJob /\ ~MarkedOrGone(disk)
  <2>1. IsJob(disk) /\ ~MarkedOrGone(disk)
    BY <1>1, JobFacts DEF Runnable, Due, MarkedOrGone, Marked
  <2>2. now \in Slots /\ now # None /\ CronTypeOK /\ disk \in Stored
    BY Unchanged, Times DEF None
  <2>3. QED
    BY <2>1, <2>2, MarkFacts
<1> HIDE DEF j
<1>3. PICK x \in {"queued", "closing"} :
        /\ Goto(s, "tick", x)
        /\ x = "queued" => disk' = j
        /\ x = "closing" => UNCHANGED disk /\ "unsaved" \in causes'
  BY <1>1
<1>4. /\ "tick" \in Workers /\ "manual" \in Workers /\ "catchup" \in Workers
      /\ x \in Stages /\ causes \subseteq causes' /\ spent' \in 0..MaxEvents
  BY <1>1, Unchanged, CronAssumption DEF Stages
<1>5. RunIs(s, "tick", [run[s]["tick"] EXCEPT !.stage = x]) /\ run'[s]["tick"].stage = x
  BY <1>3, <1>4, GotoStep
<1>6. Acts(s) /\ phase[s] # "clear" /\ mem'[s] = j
  BY <1>1, <1>4, Unchanged, WorkerActs DEF At
<1>7. LocalStep(s)
  BY <1>1, <1>2, <1>3, <1>4, <1>5, <1>6, Unchanged DEF LocalStep, RunIs
<1>8. StartSound(s)'
  <2>1. run'[s]["catchup"] = run[s]["catchup"] /\ run'[s]["manual"] = run[s]["manual"]
    BY <1>4, <1>5 DEF RunIs
  <2>2. QED
    BY <1>1, <1>2, <1>6, <2>1, JobFacts DEF StartSound, At, CronInv
<1>9. ASSUME s = current PROVE MarkersOf(s)'
  <2>1. ASSUME causes \cap {"cleared", "overlap"} = {}
        PROVE  \A w \in Workers : ~Taken(s, w)
    BY <1>2, <1>9, <2>1 DEF CronInv, MarkersSound, TakenIsMarked
  <2>2. ASSUME causes' \cap {"cleared", "overlap"} = {}
        PROVE  TakenIsMarked(s)'
    <3>1. \A w \in Workers : Taken(s, w)' => w = "tick" /\ x = "queued"
      BY <1>4, <1>5, <2>1, <2>2 DEF Taken, RunIs, Active
    <3>2. QED
      BY <1>2, <1>3, <1>6, <3>1 DEF TakenIsMarked, MarkedOrGone
  <2>3. ASSUME causes' \cap {"unsaved", "overlap"} = {}
        PROVE  MarkedIsTaken(s)'
    <3>1. x = "queued"
      BY <1>3, <2>3
    <3>2. QED
      BY <1>2, <1>3, <1>4, <1>5, <1>6, <3>1 DEF MarkedIsTaken, Taken, Active
  <2>4. QED
    BY <2>2, <2>3 DEF MarkersOf
<1>10. QED
  BY <1>7, <1>8, <1>9, LocalStepKeeps

LEMMA CollectOthersKeeps ==
  ASSUME CronInv, NEW s \in Services, CollectOthers(s)
  PROVE  CronInv'
<1> DEFINE tended == Maintain(disk, TRUE)
<1>0. Tended(disk, tended)
  BY Unchanged, LoadedFacts, MaintenanceFacts
<1>1. PICK k \in {disk, tended}, x \in {"others", "closing"} :
        /\ mem' = [mem EXCEPT ![s] = k] /\ disk' \in {k, disk}
        /\ Goto(s, "tick", x) /\ causes \subseteq causes' /\ causes' \subseteq causes \cup {"cleared"}
        /\ k = disk \/ ClearedBy(disk) \subseteq causes'
  <2>1. CASE InMemory(s, disk) /\ Goto(s, "tick", "others") /\ UNCHANGED <<disk, causes>>
    BY <2>1 DEF InMemory
  <2>2. CASE /\ Save(s, tended)
             /\ causes' = causes \cup ClearedBy(disk)
             /\ Goto(s, "tick", "closing")
    <3>1. ClearedBy(disk) \subseteq {"cleared"}
      BY ClearedFacts
    <3> HIDE DEF tended
    <3>2. mem' = [mem EXCEPT ![s] = tended] /\ disk' = tended
      BY <2>2 DEF Save, InMemory
    <3>3. QED
      BY <2>2, <3>1, <3>2
  <2>3. QED
    BY <2>1, <2>2 DEF CollectOthers
<1> HIDE DEF tended
<1>2. /\ At(s, "tick", "begin") /\ UNCHANGED <<now, timer, phase, current, cronEnabled, looked, spent>>
  BY DEF CollectOthers
<1>3. /\ k \in Stored /\ k # NotLoaded /\ (k = NoJob <=> disk = NoJob)
      /\ Marked(k) => Marked(disk)
      /\ MarkedOrGone(disk) => MarkedOrGone(k) \/ "cleared" \in causes'
      /\ disk # NotLoaded
  <2>1. disk \in Stored
    BY Unchanged
  <2>2. QED
    BY <1>0, <1>1, <2>1, TendedFacts, JobFacts
<1>4. /\ "tick" \in Workers /\ "manual" \in Workers /\ "catchup" \in Workers /\ x \in Stages
  BY Unchanged DEF Stages
<1>5. RunIs(s, "tick", [run[s]["tick"] EXCEPT !.stage = x]) /\ run'[s]["tick"].stage = x
  BY <1>1, <1>4, GotoStep
<1>6. Acts(s) /\ phase[s] # "clear" /\ mem'[s] = k
  BY <1>1, <1>2, <1>4, Unchanged, WorkerActs DEF At
<1>7. LocalStep(s)
  BY <1>1, <1>2, <1>3, <1>4, <1>5, <1>6, Unchanged DEF LocalStep, RunIs
<1>8. StartSound(s)'
  <2>1. run'[s]["catchup"] = run[s]["catchup"] /\ run'[s]["manual"] = run[s]["manual"]
    BY <1>4, <1>5 DEF RunIs
  <2>2. QED
    BY <1>2, <1>3, <1>6, <2>1 DEF StartSound, At, CronInv
<1>9. ASSUME s = current PROVE MarkersOf(s)'
  <2>1. \A w \in Workers : Taken(s, w)' <=> Taken(s, w)
    BY <1>2, <1>5 DEF Taken, Active, RunIs, At
  <2>2. QED
    BY <1>1, <1>2, <1>3, <1>6, <1>9, <2>1, CopyKeepsMarkers
<1>10. QED
  BY <1>7, <1>8, <1>9, LocalStepKeeps

LEMMA ApplyOutcomesKeeps ==
  ASSUME CronInv, NEW s \in Services, ApplyOutcomes(s)
  PROVE  CronInv'
<1> DEFINE r == run[s]["tick"]
           closing == [NoRun EXCEPT !.stage = "closing"]
<1>1. /\ r.stage \in {"ended", "others"}
      /\ run' = [run EXCEPT ![s]["tick"] = closing]
      /\ UNCHANGED <<now, timer, phase, current, cronEnabled, looked>>
  BY DEF ApplyOutcomes
<1>2. /\ "tick" \in Workers /\ "manual" \in Workers /\ "catchup" \in Workers
      /\ CronTypeOK /\ disk \in Stored /\ disk \in Job \cup {NoJob} /\ disk # NotLoaded
      /\ r \in RunRecord /\ r.start \in Slots /\ r.end \in Slots
  BY Unchanged, LoadedFacts, JobFacts DEF RunRecord
<1>3. closing \in RunRecord /\ closing.stage = "closing"
  BY <1>2, RunTyped DEF RunRecord, Stages, NoRun
<1> HIDE DEF closing
<1>4. PICK j \in (IF r.stage = "ended" THEN Applied(disk, r) ELSE {disk}) :
        \/ /\ Save(s, Maintain(j, FALSE)) /\ causes' = causes \cup ClearedBy(j)
           /\ UNCHANGED spent
        \/ /\ Spend /\ causes' = causes \cup ClearedBy(j) \cup {"unsaved"}
           /\ InMemory(s, Maintain(j, FALSE)) /\ UNCHANGED disk
  BY DEF ApplyOutcomes
<1> DEFINE m == Maintain(j, FALSE)
<1>5. /\ j \in Job \cup {NoJob}
      /\ r.stage = "ended" => ~Marked(j)
      /\ r.stage # "ended" => j = disk
  BY <1>2, <1>4, AppliedFacts
<1>6. Tended(j, m)
  BY <1>2, <1>5, MaintenanceFacts
<1> HIDE DEF m
<1>7. m \in Stored /\ m # NotLoaded
  BY <1>6, TendedFacts, JobFacts
<1>8. /\ mem' = [mem EXCEPT ![s] = m]
      /\ disk' = m \/ (disk' = disk /\ "unsaved" \in causes')
      /\ causes \subseteq causes' /\ ClearedBy(j) \subseteq causes'
      /\ spent' \in 0..MaxEvents
  <2>1. spent \in 0..MaxEvents /\ MaxEvents \in Nat
    BY Unchanged, CronAssumption
  <2>2. \/ Save(s, m) /\ causes' = causes \cup ClearedBy(j) /\ UNCHANGED spent
        \/ /\ Spend /\ causes' = causes \cup ClearedBy(j) \cup {"unsaved"}
           /\ InMemory(s, m) /\ UNCHANGED disk
    BY <1>4 DEF m
  <2>3. QED
    BY <2>1, <2>2 DEF Save, InMemory, Spend
<1>9. causes' \subseteq {"cleared", "overlap", "unsaved"}
  BY <1>4, Unchanged, ClearedFacts
<1>10. RunIs(s, "tick", closing) /\ run'[s]["tick"].stage = "closing"
  <2>1. RunIs(s, "tick", closing)
    BY <1>1, <1>2, <1>3, RunUpdate
  <2>2. QED
    BY <1>3, <2>1 DEF RunIs
<1>11. Acts(s) /\ phase[s] # "clear" /\ mem'[s] = m
  BY <1>1, <1>2, <1>8, Unchanged, WorkerActs
<1>12. LocalStep(s)
  BY <1>1, <1>2, <1>7, <1>8, <1>9, <1>10, <1>11, Unchanged DEF LocalStep, RunIs
<1>13. StartSound(s)'
  <2>1. run'[s]["catchup"] = run[s]["catchup"] /\ run'[s]["manual"] = run[s]["manual"]
    BY <1>2, <1>10 DEF RunIs
  <2>2. QED
    BY <1>1, <1>7, <1>11, <2>1 DEF StartSound, At, CronInv
<1>14. ASSUME s = current PROVE MarkersOf(s)'
  <2>1. CASE r.stage = "ended"
    <3>1. Taken(s, "tick") /\ ~Marked(mem'[s])
      BY <1>5, <1>6, <1>11, <2>1, TendedFacts DEF Taken, Active
    <3>2. \A v \in Workers : Taken(s, v)' => Taken(s, v) /\ v # "tick"
      BY <1>10 DEF Taken, Active, RunIs
    <3>3. QED
      BY <1>2, <1>8, <1>11, <1>14, <3>1, <3>2, ResultKeepsMarkers
  <2>2. CASE r.stage = "others"
    <3>1. \A w \in Workers : Taken(s, w)' <=> Taken(s, w)
      BY <1>10, <2>2 DEF Taken, Active, RunIs
    <3>2. /\ j = disk /\ (m = NoJob <=> disk = NoJob)
          /\ Marked(m) => Marked(disk)
          /\ MarkedOrGone(disk) => MarkedOrGone(m) \/ "cleared" \in causes'
      BY <1>5, <1>6, <1>8, <2>2, TendedFacts
    <3>3. QED
      BY <1>1, <1>2, <1>8, <1>11, <1>14, <3>1, <3>2, CopyKeepsMarkers
  <2>3. QED
    BY <1>1, <2>1, <2>2
<1>15. QED
  BY <1>12, <1>13, <1>14, LocalStepKeeps

LEMMA CloseTickKeeps ==
  ASSUME CronInv, NEW s \in Services, CloseTick(s)
  PROVE  CronInv'
<1>1. /\ run[s]["tick"].stage = "closing" /\ Ends(s, "tick") /\ ArmTimer(s, mem[s])
      /\ UNCHANGED <<now, disk, mem, phase, current, cronEnabled, causes, looked, spent>>
  BY DEF CloseTick, At
<1>2. "tick" \in Workers /\ timer \subseteq Services
  BY Unchanged
<1>3. RunIs(s, "tick", NoRun)
  BY <1>1, <1>2, EndsStep
<1>4. timer' \subseteq Services /\ \A t \in Services : t # s => (t \in timer' <=> t \in timer)
  BY <1>1, <1>2, TimerSteps
<1>5. Acts(s) /\ phase[s] # "clear"
  BY <1>1, <1>2, WorkerActs
<1>6. ~Taken(s, "tick") /\ NoRun.stage \notin Active
  BY <1>1 DEF Taken, Active, NoRun
<1>7. QED
  BY <1>1, <1>2, <1>3, <1>4, <1>5, <1>6, MoveKeeps

-----------------------------------------------------------------------------
(* Runs.                                                                   *)

LEMMA EndRunKeeps ==
  ASSUME CronInv, NEW s \in Services, NEW w \in Workers, EndRun(s, w)
  PROVE  CronInv'
<1> DEFINE r == [run[s][w] EXCEPT !.stage = "ended", !.end = now]
<1>1. /\ run[s][w].stage = "executing" /\ run' = [run EXCEPT ![s][w] = r]
      /\ UNCHANGED <<now, disk, mem, timer, phase, current, cronEnabled, causes, looked, spent>>
  BY DEF EndRun, At
<1>2. r \in RunRecord /\ r.stage = "ended" /\ timer \subseteq Services
  <2>1. run[s][w] \in RunRecord /\ now \in Slots /\ timer \subseteq Services
    BY Unchanged, Times
  <2>2. QED
    BY <2>1 DEF RunRecord, Stages
<1> HIDE DEF r
<1>3. RunIs(s, w, r)
  BY <1>1, <1>2, Unchanged, RunUpdate
<1>4. Acts(s) /\ phase[s] # "clear" /\ (w = "catchup" => phase[s] = "catchup")
  BY <1>1, WorkerActs
<1>5. Taken(s, w) /\ r.stage \in Active
  BY <1>1, <1>2 DEF Taken, Active
<1>6. QED
  BY <1>1, <1>2, <1>3, <1>4, <1>5, MoveKeeps

LEMMA BeginRunKeeps ==
  ASSUME CronInv, NEW s \in Services, NEW w \in Workers, BeginRun(s, w)
  PROVE  CronInv'
<1> DEFINE r == [run[s][w] EXCEPT !.stage = "executing", !.start = now]
<1>1. /\ run[s][w].stage \in {"queued", "detached"} /\ run' = [run EXCEPT ![s][w] = r]
      /\ UNCHANGED <<now, disk, timer, phase, current, cronEnabled, causes, looked, spent>>
      /\ \/ IsJob(mem[s]) /\ mem' = [mem EXCEPT ![s] = [mem[s] EXCEPT !.mark = now]]
         \/ UNCHANGED mem
  BY DEF BeginRun, InMemory
<1>2. /\ r \in RunRecord /\ r.stage = "executing" /\ timer \subseteq Services
      /\ now \in Slots /\ now # None /\ CronTypeOK
  <2>1. /\ run[s][w] \in RunRecord /\ timer \subseteq Services
        /\ now \in Slots /\ now # None /\ CronTypeOK
    BY Unchanged, Times DEF None
  <2>2. QED
    BY <2>1 DEF RunRecord, Stages
<1> HIDE DEF r
<1>3. RunIs(s, w, r)
  BY <1>1, <1>2, RunUpdate
<1>4. Acts(s) /\ phase[s] # "clear" /\ (w = "catchup" => phase[s] = "catchup")
  BY <1>1, WorkerActs
<1>5. Taken(s, w) /\ \A v \in Workers : Taken(s, v)' <=> Taken(s, v)
  BY <1>1, <1>2, <1>3 DEF Taken, Active, RunIs
<1>6. CASE UNCHANGED mem
  BY <1>1, <1>2, <1>3, <1>4, <1>5, <1>6, MoveKeeps DEF Active
<1>7. CASE IsJob(mem[s]) /\ mem' = [mem EXCEPT ![s] = [mem[s] EXCEPT !.mark = now]]
  <2> DEFINE k == [mem[s] EXCEPT !.mark = now]
  <2>1. mem[s] \in Stored /\ mem[s] # NoJob
    BY <1>7, Unchanged, JobFacts
  <2>2. k \in Stored /\ Marked(k) /\ k # NoJob
    BY <1>2, <1>7, <2>1, MarkFacts
  <2> HIDE DEF k
  <2>3. mem' = [mem EXCEPT ![s] = k] /\ mem'[s] = k /\ k # NotLoaded
    BY <1>7, <2>2, Unchanged, JobFacts DEF k
  <2>4. LocalStep(s)
    BY <1>1, <1>2, <1>3, <1>4, <2>2, <2>3, Unchanged DEF LocalStep, RunIs
  <2>5. StartSound(s)'
    <3>1. "manual" \in Workers /\ "catchup" \in Workers
      BY Unchanged
    <3>2. phase[s] # "catchup" => At(s, "catchup", "none")'
      BY <1>3, <1>4, <3>1 DEF CronInv, StartSound, At, RunIs
    <3>3. At(s, "manual", "checked")' => run'[s]["manual"].start # None
      BY <1>2, <1>3, <3>1 DEF CronInv, StartSound, At, RunIs
    <3>4. QED
      BY <1>1, <1>4, <2>3, <3>2, <3>3 DEF CronInv, StartSound
  <2>6. ASSUME s = current PROVE MarkersOf(s)'
    <3>1. MarkersOf(s)
      BY <2>6 DEF CronInv, MarkersSound, MarkersOf
    <3>2. TakenIsMarked(s) => TakenIsMarked(s)'
      BY <1>1, <1>5, <2>2, <2>3 DEF TakenIsMarked, MarkedOrGone, Marked
    <3>3. MarkedIsTaken(s) => MarkedIsTaken(s)'
      BY <1>1, <1>5, <2>1, <2>2, <2>3, Unchanged, JobFacts DEF MarkedIsTaken
    <3>4. QED
      BY <1>1, <3>1, <3>2, <3>3 DEF MarkersOf
  <2>7. QED
    BY <2>4, <2>5, <2>6, LocalStepKeeps
<1>8. QED
  BY <1>1, <1>6, <1>7

\* A replaced service that is called only to read changes its copy of the store.
LEMMA ReplacedReads ==
  ASSUME CronInv, NEW s \in Services, s = 1, s # current, phase[s] # "clear", NEW k \in Stored,
         mem' = [mem EXCEPT ![s] = k],
         UNCHANGED <<now, disk, timer, phase, run, current, cronEnabled, causes, looked, spent>>
  PROVE  CronInv'
<1>1. /\ current = 2 /\ 2 \in Services /\ Services = {1, 2}
      /\ mem' \in [Services -> Stored \cup {NotLoaded}]
      /\ mem'[1] = k /\ mem'[2] = mem[2] /\ k # NotLoaded
  BY Unchanged, JobFacts DEF CronInv, CronTypeOK, Services
<1>2. CronTypeOK'
  BY <1>1, JobFacts DEF CronInv, CronTypeOK
<1>3. JobsSound'
  BY <1>1 DEF CronInv, JobsSound
<1>4. StartSound(1)' /\ StartSound(2)'
  BY <1>1 DEF CronInv, StartSound, Idle, At
<1>5. ReplacementSound'
  BY <1>1 DEF CronInv, ReplacementSound, Idle, At
<1>6. MarkersSound'
  BY <1>1 DEF CronInv, MarkersSound, TakenIsMarked, MarkedIsTaken, Taken
<1>7. QED
  BY <1>1, <1>2, <1>3, <1>4, <1>5, <1>6 DEF CronInv

LEMMA PreflightKeeps ==
  ASSUME CronInv, NEW s \in Services, NEW mode, Preflight(s, mode)
  PROVE  CronInv'
<1> DEFINE j == Loaded(s)
           k == Maintain(j, FALSE)
           r == [NoRun EXCEPT !.stage = "checked", !.start = now]
<1>1. /\ Serves(s) /\ s = 1 /\ phase[s] # "clear" /\ At(s, "manual", "none")
      /\ mem' = [mem EXCEPT ![s] = k]
      /\ UNCHANGED <<now, disk, timer, phase, current, cronEnabled, looked>>
      /\ \/ /\ Spend /\ run' = [run EXCEPT ![s]["manual"] = r]
            /\ causes' = causes \cup Touched(s, j)
         \/ /\ UNCHANGED <<run, spent>>
            /\ causes' = IF s = current THEN causes \cup ClearedBy(j) ELSE causes
  BY DEF Preflight, Serves, InMemory
<1>2. /\ j \in Job \cup {NoJob} /\ j \in {disk, mem[s]} /\ j # NotLoaded /\ Tended(j, k)
  BY Unchanged, LoadedFacts, MaintenanceFacts DEF Loaded
<1> HIDE DEF j, k
<1>3. /\ k \in Stored /\ k # NotLoaded /\ mem'[s] = k
      /\ Marked(k) => Marked(j)
      /\ k = NoJob <=> j = NoJob
      /\ causes \subseteq causes' /\ causes' \subseteq {"cleared", "overlap", "unsaved"}
      /\ s = current => (MarkedOrGone(j) => MarkedOrGone(k) \/ "cleared" \in causes')
  <2>1. causes \subseteq causes' /\ causes' \subseteq {"cleared", "overlap", "unsaved"}
        /\ (s = current => causes' = causes \cup ClearedBy(j))
    BY <1>1, Unchanged, ClearedFacts DEF Touched
  <2>2. QED
    BY <1>1, <1>2, <2>1, Unchanged, TendedFacts, JobFacts
<1>4. /\ "manual" \in Workers /\ "catchup" \in Workers /\ CronTypeOK
      /\ run[s]["manual"] \in RunRecord /\ spent \in 0..MaxEvents /\ MaxEvents \in Nat
  BY Unchanged, CronAssumption
<1>5. r \in RunRecord /\ r.stage = "checked" /\ r.start # None
  <2>1. NoRun \in RunRecord /\ now \in Slots /\ now # None
    BY <1>4, RunTyped, Times DEF None
  <2>2. QED
    BY <2>1 DEF RunRecord, Stages, NoRun
<1> HIDE DEF r
<1>6. PICK q : /\ RunIs(s, "manual", q) /\ spent' \in 0..MaxEvents
               /\ q = r \/ q = run[s]["manual"]
  <2>1. CASE Spend /\ run' = [run EXCEPT ![s]["manual"] = r]
    <3>1. spent' \in 0..MaxEvents
      BY <1>4, <2>1 DEF Spend
    <3>2. RunIs(s, "manual", r)
      BY <1>4, <1>5, <2>1, RunUpdate
    <3>3. QED
      BY <3>1, <3>2
  <2>2. CASE UNCHANGED <<run, spent>>
    BY <1>4, <2>2, RunSteps
  <2>3. QED
    BY <1>1, <2>1, <2>2
<1>7. CASE s # current /\ UNCHANGED <<run, spent>>
  <2>1. ~Spend
    BY <1>4, <1>7 DEF Spend
  <2>2. UNCHANGED <<now, disk, timer, phase, run, current, cronEnabled, causes, looked, spent>>
    BY <1>1, <1>7, <2>1
  <2>3. QED
    BY <1>1, <1>3, <1>7, <2>2, ReplacedReads
<1>8. CASE s = current \/ run' = [run EXCEPT ![s]["manual"] = r]
  <2>1. Acts(s)
    <3>1. CASE s = current
      BY <3>1 DEF Acts
    <3>2. CASE s # current /\ "overlap" \in causes'
      BY <1>1, <3>2 DEF Acts
    <3>3. CASE s # current /\ UNCHANGED run /\ run' = [run EXCEPT ![s]["manual"] = r]
      <4>1. RunIs(s, "manual", r)
        BY <1>4, <1>5, <3>3, RunUpdate
      <4>2. run[s]["manual"].stage = "none"
        BY <1>1 DEF At
      <4>3. QED
        BY <1>5, <3>3, <4>1, <4>2 DEF RunIs
    <3>4. QED
      BY <1>1, <1>8, <3>1, <3>2, <3>3 DEF Touched
  <2>2. LocalStep(s)
    BY <1>1, <1>3, <1>6, <2>1, Unchanged DEF LocalStep, RunIs
  <2>3. StartSound(s)'
    <3>1. run'[s]["catchup"] = run[s]["catchup"] /\ run'[s]["manual"] = q
      BY <1>4, <1>6 DEF RunIs
    <3>2. QED
      BY <1>1, <1>3, <1>5, <1>6, <3>1 DEF StartSound, At, CronInv
  <2>4. ASSUME s = current PROVE MarkersOf(s)'
    <3>1. \A w \in Workers : Taken(s, w)' <=> Taken(s, w)
      BY <1>1, <1>5, <1>6 DEF Taken, Active, RunIs, At
    <3>2. QED
      BY <1>1, <1>2, <1>3, <2>4, <3>1, CopyKeepsMarkers
  <2>5. QED
    BY <2>2, <2>3, <2>4, LocalStepKeeps
<1>9. QED
  BY <1>1, <1>7, <1>8

LEMMA PrepareManualRunKeeps ==
  ASSUME CronInv, NEW s \in Services, PrepareManualRun(s)
  PROVE  CronInv'
<1>1. /\ run[s]["manual"].stage = "checked" /\ run[s]["manual"].start # None
      /\ UNCHANGED <<now, timer, phase, current, cronEnabled, causes, looked, spent>>
      /\ "manual" \in Workers /\ "catchup" \in Workers /\ "executing" \in Stages
  BY Unchanged DEF PrepareManualRun, At, CronInv, StartSound, Stages
<1>2. Acts(s) /\ phase[s] # "clear" /\ ~Taken(s, "manual") /\ timer \subseteq Services
  BY <1>1, Unchanged, WorkerActs DEF Taken, Active
<1>3. CASE Ends(s, "manual") /\ UNCHANGED <<mem, disk>>
  <2>1. RunIs(s, "manual", NoRun)
    BY <1>1, <1>3, EndsStep
  <2>2. NoRun.stage = "none"
    BY DEF NoRun
  <2>3. QED
    BY <1>1, <1>2, <1>3, <2>1, <2>2, MoveKeeps DEF Active
<1>4. CASE /\ IsJob(mem[s]) /\ mem[s].mark = None
           /\ Save(s, [mem[s] EXCEPT !.mark = run[s]["manual"].start])
           /\ Goto(s, "manual", "executing")
  <2> DEFINE j == [mem[s] EXCEPT !.mark = run[s]["manual"].start]
  <2>1. /\ mem[s] \in Stored /\ ~MarkedOrGone(mem[s])
        /\ run[s]["manual"].start \in Slots /\ CronTypeOK
    BY <1>1, <1>4, Unchanged, JobFacts DEF MarkedOrGone, Marked, RunRecord
  <2>2. j \in Stored /\ Marked(j) /\ j # NoJob
    BY <1>1, <1>4, <2>1, MarkFacts
  <2> HIDE DEF j
  <2>3. mem' = [mem EXCEPT ![s] = j] /\ disk' = j /\ mem'[s] = j /\ j # NotLoaded
    BY <1>4, <2>2, Unchanged, JobFacts DEF Save, InMemory, j
  <2>4. RunIs(s, "manual", [run[s]["manual"] EXCEPT !.stage = "executing"])
        /\ run'[s]["manual"].stage = "executing"
    BY <1>1, <1>4, GotoStep
  <2>5. LocalStep(s)
    BY <1>1, <1>2, <2>2, <2>3, <2>4, Unchanged DEF LocalStep, RunIs
  <2>6. StartSound(s)'
    <3>1. run'[s]["catchup"] = run[s]["catchup"]
      BY <1>1, <2>4 DEF RunIs
    <3>2. QED
      BY <1>1, <1>2, <2>3, <2>4, <3>1 DEF StartSound, At, CronInv
  <2>7. ASSUME s = current PROVE MarkersOf(s)'
    <3>1. ASSUME causes \cap {"cleared", "overlap"} = {}
          PROVE  TakenIsMarked(s)'
      <4>1. \A w \in Workers : ~Taken(s, w)
        BY <2>1, <2>7, <3>1 DEF CronInv, MarkersSound, TakenIsMarked
      <4>2. \A w \in Workers : Taken(s, w)' => w = "manual"
        BY <2>4, <4>1 DEF Taken, RunIs
      <4>3. QED
        BY <2>2, <2>3, <4>2 DEF TakenIsMarked, MarkedOrGone
    <3>2. MarkedIsTaken(s)'
      BY <1>1, <2>2, <2>3, <2>4 DEF MarkedIsTaken, Taken, Active
    <3>3. QED
      BY <1>1, <3>1, <3>2 DEF MarkersOf
  <2>8. QED
    BY <2>5, <2>6, <2>7, LocalStepKeeps
<1>5. QED
  BY <1>3, <1>4 DEF PrepareManualRun

LEMMA FinishManualRunKeeps ==
  ASSUME CronInv, NEW s \in Services, FinishManualRun(s)
  PROVE  CronInv'
<1> DEFINE r == run[s]["manual"]
           tick == run[s]["tick"]
<1>1. r.stage = "ended" /\ UNCHANGED <<now, phase, current, cronEnabled, looked, spent>>
  BY DEF FinishManualRun
<1>2. /\ "manual" \in Workers /\ "catchup" \in Workers /\ "tick" \in Workers /\ CronTypeOK
      /\ disk \in Job \cup {NoJob} /\ timer \subseteq Services
      /\ r \in RunRecord /\ r.start \in Slots /\ r.end \in Slots /\ tick \in RunRecord
      /\ NoRun \in RunRecord /\ NoRun.stage = "none"
  BY Unchanged, LoadedFacts, RunTyped DEF RunRecord, NoRun
<1>3. Acts(s) /\ phase[s] # "clear" /\ Taken(s, "manual")
  BY <1>1, <1>2, WorkerActs DEF Taken, Active
<1>4. CASE ~IsJob(mem[s])
  <2>1. Ends(s, "manual") /\ UNCHANGED <<mem, disk, timer, causes>>
    BY <1>4 DEF FinishManualRun
  <2>2. RunIs(s, "manual", NoRun)
    BY <1>2, <2>1, EndsStep
  <2>3. LocalStep(s)
    BY <1>1, <1>3, <2>1, <2>2, Unchanged DEF LocalStep, RunIs
  <2>4. StartSound(s)'
    <3>1. run'[s]["catchup"] = run[s]["catchup"] /\ run'[s]["manual"].stage = "none"
      BY <1>2, <2>2 DEF RunIs
    <3>2. QED
      BY <1>1, <1>3, <2>1, <3>1 DEF StartSound, At, CronInv
  <2>5. ASSUME s = current PROVE MarkersOf(s)'
    <3>1. MarkersOf(s)
      BY <2>5 DEF CronInv, MarkersSound, MarkersOf
    <3>2. \A w \in Workers : Taken(s, w)' => Taken(s, w)
      BY <1>2, <2>2 DEF Taken, RunIs, Active
    <3>3. TakenIsMarked(s) => TakenIsMarked(s)'
      BY <2>1, <3>2 DEF TakenIsMarked, MarkedOrGone, Marked
    <3>4. MarkedIsTaken(s) => MarkedIsTaken(s)'
      <4>1. phase[s] \notin {"clear", "off"} => mem[s] # NotLoaded
        BY DEF CronInv, StartSound
      <4>2. mem[s] # NotLoaded => mem[s] = NoJob
        BY <1>4 DEF IsJob
      <4>3. QED
        BY <1>1, <2>1, <4>1, <4>2, JobFacts DEF MarkedIsTaken, Marked
    <3>5. QED
      BY <2>1, <3>1, <3>3, <3>4 DEF MarkersOf
  <2>6. QED
    BY <2>3, <2>4, <2>5, LocalStepKeeps
<1>5. CASE IsJob(mem[s])
  <2>1. PICK a \in Applied(mem[s], r) :
          LET m == Merge(disk, a) IN
            /\ Save(s, Maintain(m, TRUE)) /\ ArmTimer(s, Maintain(m, TRUE))
            /\ causes' = causes \cup ClearedBy(m)
    BY <1>5 DEF FinishManualRun
  <2>2. run' = [run EXCEPT ![s]["manual"] = NoRun, ![s]["tick"] = Detached(tick)]
    BY <1>5 DEF FinishManualRun
  <2> DEFINE m == Merge(disk, a)
             k == Maintain(m, TRUE)
  <2>3. mem[s] \in Stored /\ mem[s] \in Job \cup {NoJob}
    BY <1>5, Unchanged, JobFacts
  <2>4. a \in Job \cup {NoJob} /\ ~Marked(a)
    BY <1>2, <2>1, <2>3, AppliedFacts
  <2>5. m \in Job \cup {NoJob} /\ ~Marked(m)
    BY <1>2, <2>4, MergeFacts
  <2>6. Tended(m, k) /\ ClearedBy(m) \subseteq {"cleared"}
    BY <1>2, <2>5, MaintenanceFacts, ClearedFacts
  <2>7. /\ Save(s, k) /\ ArmTimer(s, k) /\ causes' = causes \cup ClearedBy(m)
    BY <2>1
  <2> HIDE DEF m, k
  <2>8. /\ mem' = [mem EXCEPT ![s] = k] /\ disk' = k /\ mem'[s] = k
        /\ k \in Stored /\ k # NotLoaded /\ ~Marked(k)
    BY <2>5, <2>6, <2>7, Unchanged, TendedFacts, JobFacts DEF Save, InMemory
  <2>9. timer' \subseteq Services /\ \A t \in Services : t # s => (t \in timer' <=> t \in timer)
    BY <1>2, <2>7, TimerSteps
  <2>10. Detached(tick) \in RunRecord /\ (Detached(tick).stage \in Active <=> tick.stage \in Active)
    BY <1>2 DEF Detached, RunRecord, Stages, Active
  <2>11. /\ run' \in [Services -> [Workers -> RunRecord]]
         /\ run'[s]["manual"] = NoRun /\ run'[s]["tick"] = Detached(tick)
         /\ run'[s]["catchup"] = run[s]["catchup"]
         /\ \A t \in Services : t # s => run'[t] = run[t]
    BY <1>2, <2>2, <2>10, Unchanged
  <2>12. LocalStep(s)
    BY <1>1, <1>3, <2>6, <2>7, <2>8, <2>9, <2>11, Unchanged DEF LocalStep
  <2>13. StartSound(s)'
    BY <1>1, <1>2, <1>3, <2>8, <2>11 DEF StartSound, At, CronInv
  <2>14. ASSUME s = current PROVE MarkersOf(s)'
    <3>1. \A v \in Workers : Taken(s, v)' => Taken(s, v) /\ v # "manual"
      BY <1>2, <2>10, <2>11, Unchanged DEF Taken, Active
    <3>2. causes \subseteq causes'
      BY <2>7
    <3>3. QED
      BY <1>2, <1>3, <2>8, <2>14, <3>1, <3>2, ResultKeepsMarkers
  <2>15. QED
    BY <2>12, <2>13, <2>14, LocalStepKeeps
<1>6. QED
  BY <1>4, <1>5

-----------------------------------------------------------------------------
(* The calls of users.                                                     *)

\* A call that leaves k, made of the job j, in memory and perhaps in the file, and has
\* nothing to do with a run of the job.  If it reaches a replaced service, services overlap.
LEMMA CallKeeps ==
  ASSUME CronInv, NEW s \in Services, Serves(s), NEW k \in Stored,
         NEW j \in {disk, mem[s]}, j # NotLoaded,
         s = current \/ "overlap" \in causes',
         mem' = [mem EXCEPT ![s] = k],
         disk' = k,
         s = current => /\ Marked(k) => Marked(j)
                        /\ MarkedOrGone(j) => MarkedOrGone(k) \/ "cleared" \in causes',
         causes \subseteq causes', causes' \subseteq {"cleared", "overlap", "unsaved"},
         timer' \subseteq Services,
         \A t \in Services : t # s => (t \in timer' <=> t \in timer),
         spent' \in 0..MaxEvents,
         run' \in [Services -> [Workers -> RunRecord]],
         \A t \in Services \ {s} : run'[t] = run[t],
         \A w \in Workers : w # "tick" => run'[s][w] = run[s][w],
         Taken(s, "tick")' <=> Taken(s, "tick"),
         UNCHANGED <<now, phase, current, cronEnabled, looked>>
  PROVE  CronInv'
<1>1. /\ mem'[s] = k /\ k # NotLoaded /\ s = 1 /\ phase[s] # "clear"
      /\ "manual" \in Workers /\ "catchup" \in Workers
  BY Unchanged, JobFacts DEF Serves
<1>2. LocalStep(s)
  BY <1>1, Unchanged DEF LocalStep, Acts
<1>3. StartSound(s)'
  BY <1>1 DEF StartSound, At, CronInv
<1>4. ASSUME s = current PROVE MarkersOf(s)'
  <2>1. \A w \in Workers : Taken(s, w)' <=> Taken(s, w)
    BY DEF Taken
  <2>2. QED
    BY <1>1, <1>4, <2>1, CopyKeepsMarkers
<1>5. QED
  BY <1>2, <1>3, <1>4, LocalStepKeeps

LEMMA SpendFacts ==
  ASSUME CronInv, Spend
  PROVE  spent' \in 0..MaxEvents
BY Unchanged, CronAssumption DEF Spend

\* What is recorded of a call.
LEMMA TouchedFacts ==
  ASSUME CronInv, NEW s \in Services, NEW j
  PROVE  /\ s = current => Overlap(s) = {} /\ Touched(s, j) = ClearedBy(j)
         /\ s # current => Overlap(s) = {"overlap"} /\ Touched(s, j) = {"overlap"}
         /\ causes \cup Overlap(s) \subseteq {"cleared", "overlap", "unsaved"}
         /\ causes \cup Touched(s, j) \subseteq {"cleared", "overlap", "unsaved"}
BY Unchanged, ClearedFacts DEF Overlap, Touched

\* A call that saves what is in memory after some maintenance of it.
LEMMA MaintainingCallKeeps ==
  ASSUME CronInv, NEW s \in Services, Serves(s), NEW k, Tended(Loaded(s), k),
         Save(s, k), causes' = causes \cup Touched(s, Loaded(s)), spent' \in 0..MaxEvents,
         timer' \subseteq Services,
         \A t \in Services : t # s => (t \in timer' <=> t \in timer),
         UNCHANGED <<now, phase, run, current, cronEnabled, looked>>
  PROVE  CronInv'
<1> DEFINE j == Loaded(s)
<1>1. /\ mem' = [mem EXCEPT ![s] = k] /\ disk' = k /\ k \in Stored
      /\ j \in {disk, mem[s]} /\ j # NotLoaded
  BY Unchanged, LoadedFacts, TendedFacts DEF Save, InMemory, Loaded
<1>2. /\ s = current \/ "overlap" \in causes'
      /\ causes \subseteq causes' /\ causes' \subseteq {"cleared", "overlap", "unsaved"}
      /\ s = current => (MarkedOrGone(j) => MarkedOrGone(k) \/ "cleared" \in causes')
      /\ Marked(k) => Marked(j)
  BY TouchedFacts, TendedFacts
<1> HIDE DEF j
<1>3. Taken(s, "tick")' <=> Taken(s, "tick")
  BY DEF Taken
<1>4. QED
  BY <1>1, <1>2, <1>3, Unchanged, CallKeeps

LEMMA ReadKeeps ==
  ASSUME CronInv, NEW s \in Services, Read(s)
  PROVE  CronInv'
<1> DEFINE j == Loaded(s)
           k == Maintain(j, FALSE)
<1>1. /\ Serves(s) /\ Tended(j, k) /\ j \in Stored
      /\ UNCHANGED <<now, timer, phase, run, current, cronEnabled, looked, spent>>
  BY Unchanged, LoadedFacts, MaintenanceFacts DEF Read
<1>2. CASE k # j
  BY <1>1, <1>2, Unchanged, MaintainingCallKeeps DEF Read
<1>3. CASE k = j
  <2>1. mem' = [mem EXCEPT ![s] = j] /\ UNCHANGED <<disk, causes>>
    BY <1>3 DEF Read, InMemory
  <2>2. CASE s # current
    BY <1>1, <2>1, <2>2, ReplacedReads DEF Serves
  <2>3. CASE s = current
    <3>1. mem'[s] = j /\ j # NotLoaded /\ j \in {disk, mem[s]} /\ phase[s] # "clear"
      BY <1>1, <2>1, Unchanged, LoadedFacts DEF Serves, Loaded
    <3>2. LocalStep(s)
      BY <1>1, <2>1, <2>3, Unchanged DEF LocalStep, Acts
    <3>3. StartSound(s)'
      BY <1>1, <3>1 DEF StartSound, At, CronInv
    <3>4. \A w \in Workers : Taken(s, w)' <=> Taken(s, w)
      BY <1>1 DEF Taken
    <3> HIDE DEF j
    <3>5. MarkersOf(s)'
      BY <1>1, <2>1, <2>3, <3>1, <3>4, CopyKeepsMarkers
    <3>6. QED
      BY <3>2, <3>3, <3>5, LocalStepKeeps
  <2>4. QED
    BY <2>2, <2>3
<1>4. QED
  BY <1>2, <1>3

LEMMA AddOtherKeeps ==
  ASSUME CronInv, NEW s \in Services, AddOther(s)
  PROVE  CronInv'
<1>1. Serves(s) /\ Tended(Loaded(s), Recompute(Loaded(s)))
  BY Unchanged, LoadedFacts, MaintenanceFacts DEF AddOther
<1>2. /\ timer' \subseteq Services
      /\ \A t \in Services : t # s => (t \in timer' <=> t \in timer)
      /\ spent' \in 0..MaxEvents
  BY Unchanged, TimerSteps, SpendFacts DEF AddOther
<1>3. QED
  BY <1>1, <1>2, MaintainingCallKeeps DEF AddOther

LEMMA BeginOtherKeeps ==
  ASSUME CronInv, NEW s \in Services, BeginOther(s)
  PROVE  CronInv'
<1>1. Serves(s) /\ Tended(Loaded(s), Maintain(Loaded(s), FALSE))
  BY Unchanged, LoadedFacts, MaintenanceFacts DEF BeginOther
<1>2. QED
  BY <1>1, Unchanged, SpendFacts, MaintainingCallKeeps DEF BeginOther

LEMMA EditOtherKeeps ==
  ASSUME CronInv, NEW s \in Services, EditOther(s)
  PROVE  CronInv'
<1> DEFINE j == Loaded(s)
<1>1. /\ Serves(s) /\ mem' = [mem EXCEPT ![s] = j] /\ disk' = j /\ j \in Stored
      /\ j \in {disk, mem[s]} /\ j # NotLoaded
      /\ UNCHANGED <<now, phase, run, current, cronEnabled, looked>>
  BY Unchanged, LoadedFacts DEF EditOther, Save, InMemory, Loaded
<1>2. /\ timer' \subseteq Services
      /\ \A t \in Services : t # s => (t \in timer' <=> t \in timer)
      /\ spent' \in 0..MaxEvents
  BY Unchanged, TimerSteps, SpendFacts DEF EditOther
<1>3. /\ s = current \/ "overlap" \in causes'
      /\ causes \subseteq causes' /\ causes' \subseteq {"cleared", "overlap", "unsaved"}
  BY TouchedFacts DEF EditOther
<1> HIDE DEF j
<1>4. Taken(s, "tick")' <=> Taken(s, "tick")
  BY <1>1 DEF Taken
<1>5. QED
  BY <1>1, <1>2, <1>3, <1>4, Unchanged, CallKeeps

LEMMA EndOtherKeeps ==
  ASSUME CronInv, NEW s \in Services, EndOther(s)
  PROVE  CronInv'
<1> DEFINE k == Maintain(disk, TRUE)
           tick == run[s]["tick"]
<1>1. /\ Serves(s) /\ mem' = [mem EXCEPT ![s] = k] /\ disk' = k
      /\ causes' = causes \cup Touched(s, disk)
      /\ run' = [run EXCEPT ![s]["tick"] = Detached(tick)]
      /\ UNCHANGED <<now, phase, current, cronEnabled, looked>>
      /\ Tended(disk, k) /\ disk # NotLoaded /\ "tick" \in Workers
  BY Unchanged, LoadedFacts, MaintenanceFacts, JobFacts DEF EndOther, Save, InMemory
<1>2. /\ timer' \subseteq Services
      /\ \A t \in Services : t # s => (t \in timer' <=> t \in timer)
      /\ spent' \in 0..MaxEvents
  BY Unchanged, TimerSteps, SpendFacts DEF EndOther
<1>3. /\ s = current \/ "overlap" \in causes'
      /\ causes \subseteq causes' /\ causes' \subseteq {"cleared", "overlap", "unsaved"}
      /\ s = current => (MarkedOrGone(disk) => MarkedOrGone(k) \/ "cleared" \in causes')
      /\ Marked(k) => Marked(disk)
      /\ k \in Stored
  BY <1>1, TouchedFacts, TendedFacts
<1>4. /\ Detached(tick) \in RunRecord /\ (Detached(tick).stage \in Active <=> tick.stage \in Active)
  <2>1. tick \in RunRecord
    BY <1>1, Unchanged
  <2>2. QED
    BY <2>1 DEF Detached, RunRecord, Stages, Active
<1>5. RunIs(s, "tick", Detached(tick))
  BY <1>1, <1>4, Unchanged, RunUpdate
<1> HIDE DEF k
<1>6. QED
  BY <1>1, <1>2, <1>3, <1>4, <1>5, CallKeeps DEF RunIs, Taken

LEMMA UpdateKeeps ==
  ASSUME CronInv, NEW s \in Services, Update(s)
  PROVE  CronInv'
<1>1. /\ Serves(s) /\ IsJob(Loaded(s)) /\ Spend
      /\ UNCHANGED <<now, phase, run, current, cronEnabled, looked>>
  BY DEF Update
<1>2. PICK patch \in {"enable", "disable", "reschedule"} :
        LET k == Patched(Loaded(s), patch)
        IN  /\ mem' = [mem EXCEPT ![s] = k] /\ disk' = k /\ ArmTimer(s, k)
            /\ causes' = causes \cup Overlap(s)
                              \cup (IF k.mark # Loaded(s).mark THEN {"cleared"} ELSE {})
  BY DEF Update, Save, InMemory
<1> DEFINE j == Loaded(s)
           k == Patched(Loaded(s), patch)
<1>3. /\ j \in Job /\ j \in {disk, mem[s]} /\ j # NotLoaded
  BY <1>1, Unchanged, LoadedFacts, JobFacts DEF Loaded
<1>4. k \in Stored /\ IsJob(k) /\ k.mark \in {j.mark, None}
  BY <1>3, Unchanged, PatchedFacts, JobFacts
<1>5. /\ mem' = [mem EXCEPT ![s] = k] /\ disk' = k /\ ArmTimer(s, k)
      /\ causes' = causes \cup Overlap(s) \cup (IF k.mark # j.mark THEN {"cleared"} ELSE {})
  BY <1>2
<1> HIDE DEF j, k
<1>6. /\ Marked(k) => Marked(j)
      /\ MarkedOrGone(j) => MarkedOrGone(k) \/ "cleared" \in causes'
      /\ causes \subseteq causes' /\ causes' \subseteq {"cleared", "overlap", "unsaved"}
      /\ s = current \/ "overlap" \in causes'
  <2>1. IsJob(j) /\ j # NoJob
    BY <1>3, JobFacts
  <2>2. QED
    BY <1>4, <1>5, <2>1, TouchedFacts DEF Marked, MarkedOrGone
<1>7. /\ timer' \subseteq Services
      /\ \A t \in Services : t # s => (t \in timer' <=> t \in timer)
      /\ spent' \in 0..MaxEvents
  BY <1>1, <1>5, Unchanged, TimerSteps, SpendFacts
<1>8. Taken(s, "tick")' <=> Taken(s, "tick")
  BY <1>1 DEF Taken
<1>9. QED
  BY <1>1, <1>3, <1>4, <1>5, <1>6, <1>7, <1>8, Unchanged, CallKeeps

LEMMA RemoveKeeps ==
  ASSUME CronInv, NEW s \in Services, Remove(s)
  PROVE  CronInv'
<1>1. /\ Serves(s) /\ mem' = [mem EXCEPT ![s] = NoJob] /\ disk' = NoJob
      /\ ArmTimer(s, NoJob) /\ Spend /\ causes' = causes \cup Overlap(s)
      /\ UNCHANGED <<now, phase, run, current, cronEnabled, looked>>
  BY DEF Remove, Save, InMemory
<1>2. /\ NoJob \in Stored /\ ~Marked(NoJob) /\ MarkedOrGone(NoJob) /\ disk # NotLoaded
      /\ s = current \/ "overlap" \in causes'
      /\ causes \subseteq causes' /\ causes' \subseteq {"cleared", "overlap", "unsaved"}
  BY <1>1, JobFacts, Unchanged, TouchedFacts DEF Marked, MarkedOrGone
<1>3. /\ timer' \subseteq Services
      /\ \A t \in Services : t # s => (t \in timer' <=> t \in timer)
      /\ spent' \in 0..MaxEvents
  BY <1>1, Unchanged, TimerSteps, SpendFacts
<1>4. Taken(s, "tick")' <=> Taken(s, "tick")
  BY <1>1 DEF Taken
<1>5. QED
  BY <1>1, <1>2, <1>3, <1>4, Unchanged, CallKeeps

-----------------------------------------------------------------------------
(* Replacement, death, time.                                               *)

LEMMA ReplaceKeeps ==
  ASSUME CronInv, Replace
  PROVE  CronInv'
<1>1. /\ current = 1 /\ current' = 2 /\ timer' = timer \ {1}
      /\ UNCHANGED <<now, disk, mem, run, looked>>
      /\ Services = {1, 2} /\ 1 \in Services /\ 2 \in Services
  BY DEF Replace, Services
<1>2. PICK enabled \in BOOLEAN :
        /\ cronEnabled' = [cronEnabled EXCEPT ![2] = enabled]
        /\ phase' = [phase EXCEPT ![2] = IF enabled THEN "clear" ELSE "off"]
  BY DEF Replace, Start
<1>3. causes' = IF Busy(1) THEN causes \cup {"overlap"} ELSE causes
  BY DEF Replace
<1>4. mem[2] = NotLoaded /\ Idle(2) /\ looked[2] = None
  BY <1>1 DEF CronInv, ReplacementSound, StartSound
<1>5. /\ phase'[1] = phase[1] /\ phase'[2] \in {"clear", "off"}
      /\ phase' \in [Services -> Phases]
  BY <1>1, <1>2, Unchanged DEF Phases
<1>6. spent' \in 0..MaxEvents
  BY SpendFacts DEF Replace
<1>7. CronTypeOK'
  BY <1>1, <1>2, <1>3, <1>5, <1>6 DEF CronInv, CronTypeOK, Phases
<1>8. JobsSound'
  BY <1>1 DEF CronInv, JobsSound
<1>9. \A s \in Services : StartSound(s)'
  <2>1. StartSound(1)'
    BY <1>1, <1>5 DEF CronInv, StartSound, Idle, At
  <2>2. StartSound(2)'
    BY <1>1, <1>4, <1>5, Unchanged DEF StartSound, Idle, At
  <2>3. QED
    BY <1>1, <2>1, <2>2
<1>10. ReplacementSound'
  BY <1>1, <1>3, <1>5 DEF ReplacementSound, Busy, Idle, At
<1>11. MarkersSound'
  BY <1>1, <1>4, <1>5 DEF MarkersSound, TakenIsMarked, MarkedIsTaken, Taken, Idle, At, Active
<1>12. QED
  BY <1>7, <1>8, <1>9, <1>10, <1>11 DEF CronInv

LEMMA CrashKeeps ==
  ASSUME CronInv, Crash
  PROVE  CronInv'
<1>1. /\ current' = 1 /\ timer' = {} /\ causes' = {} /\ UNCHANGED <<now, disk>>
      /\ mem' = [s \in Services |-> NotLoaded]
      /\ run' = [s \in Services |-> [w \in Workers |-> NoRun]]
      /\ cronEnabled' = [s \in Services |-> cronEnabled[current]]
      /\ phase' = [s \in Services |-> IF s = 1 /\ cronEnabled[current] THEN "clear" ELSE "off"]
      /\ looked' = [s \in Services |-> None]
      /\ Services = {1, 2} /\ spent' \in 0..MaxEvents
  BY SpendFacts DEF Crash, Services
<1>2. \A s \in Services : Idle(s)'
  BY <1>1 DEF Idle, At, NoRun
<1>3. CronTypeOK'
  <2>1. run' \in [Services -> [Workers -> RunRecord]]
    BY <1>1, Unchanged, Times DEF RunRecord, NoRun, Stages
  <2>2. cronEnabled' \in [Services -> BOOLEAN]
    BY <1>1 DEF CronInv, CronTypeOK
  <2>3. None \in None..MaxTime
    BY CronAssumption DEF None
  <2>4. QED
    BY <1>1, <2>1, <2>2, <2>3 DEF CronInv, CronTypeOK, RunRecord
<1>4. JobsSound'
  BY <1>1 DEF CronInv, JobsSound
<1>5. \A s \in Services : StartSound(s)'
  BY <1>1, <1>2, Unchanged DEF StartSound, Idle, At
<1>6. ReplacementSound'
  BY <1>1, <1>2 DEF ReplacementSound
<1>7. MarkersSound'
  BY <1>1, <1>2 DEF MarkersSound, TakenIsMarked, MarkedIsTaken, Taken, Idle, At, Active
<1>8. QED
  BY <1>3, <1>4, <1>5, <1>6, <1>7 DEF CronInv

LEMMA SlotPassesKeeps ==
  ASSUME CronInv, SlotPasses \/ UNCHANGED vars
  PROVE  CronInv'
<1>1. /\ now' \in 1..MaxTime
      /\ UNCHANGED <<disk, mem, timer, phase, run, current, cronEnabled, causes, looked, spent>>
  BY CronAssumption DEF CronInv, CronTypeOK, SlotPasses, vars
<1>2. CronTypeOK'
  BY <1>1 DEF CronInv, CronTypeOK
<1>3. JobsSound' /\ ReplacementSound' /\ MarkersSound' /\ \A s \in Services : StartSound(s)'
  BY <1>1 DEF CronInv, JobsSound, ReplacementSound, MarkersSound, TakenIsMarked, MarkedIsTaken,
     Taken, StartSound, Idle, At
<1>4. QED
  BY <1>2, <1>3 DEF CronInv

-----------------------------------------------------------------------------
(* The theorems.                                                           *)

LEMMA InitCronInv == Init => CronInv
<1> SUFFICES ASSUME Init PROVE CronInv
  OBVIOUS
<1>1. PICK kind \in Kinds : disk = NewJob(kind)
  BY DEF Init
<1>2. 2 \in Slots /\ None \in Slots
  BY CronAssumption DEF Slots, None
<1>3. disk \in Job /\ disk.enabled /\ disk.mark = None
  BY <1>1, <1>2, CronAssumption DEF Job, NewJob
<1>4. disk \in Stored /\ disk # NoJob
  BY <1>3, JobFacts DEF Stored
<1>5. \A s \in Services : Idle(s)
  BY DEF Init, Idle, At, NoRun
<1>6. CronTypeOK
  <2>1. NoRun \in RunRecord
    BY <1>2 DEF RunRecord, NoRun, Stages
  <2>2. 1 \in 1..MaxTime /\ 0 \in 0..MaxEvents /\ None \in None..MaxTime
    BY CronAssumption DEF None
  <2>3. QED
    BY <1>3, <2>1, <2>2 DEF Init, CronTypeOK, RunRecord, Services
<1>7. JobsSound
  BY <1>4 DEF Init, JobsSound
<1>8. \A s \in Services : StartSound(s)
  <2>1. Workers = {"catchup", "tick", "manual"}
    BY DEF Workers
  <2>2. QED
    BY <1>5, <2>1 DEF Init, StartSound, Idle, At
<1>9. ReplacementSound /\ MarkersSound
  BY <1>5 DEF Init, ReplacementSound, MarkersSound, TakenIsMarked, MarkedIsTaken, Taken, Idle,
     At, Active, Services
<1>10. QED
  BY <1>6, <1>7, <1>8, <1>9 DEF CronInv

LEMMA NextKeepsCronInv == CronInv /\ [Next]_vars => CronInv'
<1> SUFFICES ASSUME CronInv, [Next]_vars PROVE CronInv'
  OBVIOUS
<1>1. ASSUME NEW s \in Services, StartStep(s) PROVE CronInv'
  BY <1>1, ClearMarkersKeeps, PlanStartupCatchupKeeps, ApplyStartupCatchupKeeps, FinishStartKeeps
     DEF StartStep
<1>2. ASSUME NEW s \in Services, OnTimer(s) \/ OnTimerBusy(s) \/ TickStep(s) PROVE CronInv'
  BY <1>2, OnTimerKeeps, CollectDueKeeps, CollectOthersKeeps, ApplyOutcomesKeeps, CloseTickKeeps
     DEF TickStep
<1>3. ASSUME NEW s \in Services,
             ManualStep(s) \/ \E mode \in {"due", "force"} : Preflight(s, mode)
      PROVE  CronInv'
  BY <1>3, PreflightKeeps, PrepareManualRunKeeps, FinishManualRunKeeps DEF ManualStep
<1>4. ASSUME NEW s \in Services,
             \/ Read(s) \/ Update(s) \/ Remove(s)
             \/ AddOther(s) \/ EditOther(s) \/ BeginOther(s) \/ EndOther(s)
      PROVE  CronInv'
  BY <1>4, ReadKeeps, UpdateKeeps, RemoveKeeps, AddOtherKeeps, EditOtherKeeps,
     BeginOtherKeeps, EndOtherKeeps
<1>5. ASSUME NEW s \in Services, NEW w \in Workers, BeginRun(s, w) \/ EndRun(s, w) PROVE CronInv'
  BY <1>5, BeginRunKeeps, EndRunKeeps
<1>6. CASE Replace \/ Crash
  BY <1>6, ReplaceKeeps, CrashKeeps
<1>7. CASE SlotPasses \/ UNCHANGED vars
  BY <1>7, SlotPassesKeeps
<1>8. QED
  BY <1>1, <1>2, <1>3, <1>4, <1>5, <1>6, <1>7 DEF Next

LEMMA CronInductive == Spec => []CronInv
<1>1. QED
  BY InitCronInv, NextKeepsCronInv, PTL DEF Spec

\* Every state has its type: among others, a disabled job has no next slot in the file,
\* whatever was written over whatever (jobs.ts, timer.ts, ops.ts).
THEOREM CronTypes == Spec => []CronTypeOK
<1>1. CronInv => CronTypeOK
  BY DEF CronInv
<1>2. QED
  BY <1>1, CronInductive, PTL

\* The marker keeps a second run of the job off, of whichever worker and of whichever
\* service, unless a marker was cleared under its run or a replaced service acted: the tick,
\* the catch-up and the runs on demand all look at the marker and set it in one section
\* (timer.ts, ops.ts).
THEOREM NoDoubleRun == Spec => []OneRunPerJob
<1>1. CronInv => OneRunPerJob
  <2> SUFFICES ASSUME CronInv, causes \cap {"cleared", "overlap"} = {},
                      NEW s \in Services, NEW t \in Services,
                      NEW v \in Workers, NEW w \in Workers,
                      At(s, v, "executing"), At(t, w, "executing")
               PROVE  <<s, v>> = <<t, w>>
    BY DEF OneRunPerJob
  <2>1. \A u \in Services : u # current => Idle(u)
    BY DEF CronInv, CronTypeOK, ReplacementSound, Services
  <2>2. s = current /\ t = current
    BY <2>1 DEF Idle, At
  <2>3. Taken(s, v) /\ Taken(s, w)
    BY <2>2 DEF Taken, At, Active
  <2>4. v = w
    BY <2>2, <2>3 DEF CronInv, MarkersSound, TakenIsMarked
  <2>5. QED
    BY <2>2, <2>4
<1>2. QED
  BY <1>1, CronInductive, PTL

\* No marker stays in the file behind a run that is gone: every end of a run, the clearing
\* of the markers at a start, the removal and the disabling of a job take it off, so that
\* only a failed save or a replaced service that acts can leave one (timer.ts, ops.ts).
THEOREM MarkersHaveRuns == Spec => []MarkerHasRun
<1>1. CronInv => MarkerHasRun
  <2> SUFFICES ASSUME CronInv, Marked(disk), phase[current] \notin {"clear", "off"},
                      causes \cap {"unsaved", "overlap"} = {}
               PROVE  \E s \in Services, w \in Workers : run[s][w].stage \in Active
    BY DEF MarkerHasRun, Marked
  <2>1. \E w \in Workers : Taken(current, w)
    BY DEF CronInv, MarkersSound, MarkedIsTaken
  <2>2. QED
    BY <2>1 DEF Taken, CronInv, CronTypeOK
<1>2. QED
  BY <1>1, CronInductive, PTL


-----------------------------------------------------------------------------
(* The slots of a job.                                                     *)

\* The next slot of a job lies after its last run, unless it is that of a one-shot whose
\* run failed.
SlotSound(j) ==
  IsJob(j) =>
    /\ j.last <= now
    /\ j.next # None => j.next > j.last \/ (j.kind = "at" /\ j.next = j.at /\ j.status # "ok")

\* A run that ended did so after it started.
RunSound(r) == r.start <= now /\ (r.stage = "ended" => r.start <= r.end /\ r.end <= now)
RunsSound == \A s \in Services, w \in Workers : RunSound(run[s][w])

\* A job that waits for its next slot; in memory it waits for the one the file names.
Waits(j) == IsJob(j) /\ j.enabled /\ j.next # None
Follows(s) ==
  Waits(disk) /\ mem[s] # NotLoaded => Waits(mem[s]) /\ mem[s].next = disk.next

\* Neither a failed save nor an overlap of services parted the memory from the file.
Together == causes \cap {"unsaved", "overlap"} = {}

SlotInv ==
  /\ SlotSound(disk)
  /\ \A s \in Services : SlotSound(mem[s])
  /\ RunsSound
  /\ Together => Follows(current)

\* A job k made of j that waits for the same slot if j waited.
SameSlot(j, k) == SlotSound(k) /\ (Waits(j) => Waits(k) /\ k.next = j.next)

LEMMA Present ==
  ASSUME CronTypeOK
  PROVE  /\ now \in Nat /\ AtMost(now + 1) > now /\ AtMost(now + 1) \in Slots
         /\ \A d \in {1, 2}, t \in Slots : t <= now => AtMost(t + d) > t
         /\ \A j \in Job : j.next \in Nat /\ j.last \in Nat /\ j.at \in Nat /\ IsJob(j)
<1>1. now \in 1..MaxTime
  BY DEF CronTypeOK
<1>2. Slots \subseteq Nat
  BY CronAssumption DEF Slots, None
<1>3. AtMost(now + 1) > now /\ \A d \in {1, 2}, t \in Slots : t <= now => AtMost(t + d) > t
  BY <1>1, <1>2, CronAssumption DEF AtMost
<1>4. \A j \in Job : j.next \in Nat /\ j.last \in Nat /\ j.at \in Nat
  BY <1>2 DEF Job
<1>5. QED
  BY <1>1, <1>3, <1>4, Times, JobFacts

\* The marker says nothing of the slot.
LEMMA MarkSlot ==
  ASSUME CronTypeOK, NEW j \in Job, SlotSound(j), NEW t \in Slots
  PROVE  SameSlot(j, [j EXCEPT !.mark = t])
<1> DEFINE k == [j EXCEPT !.mark = t]
<1>1. /\ k \in Job /\ k.enabled = j.enabled /\ k.next = j.next /\ k.last = j.last
      /\ k.kind = j.kind /\ k.at = j.at /\ k.status = j.status
  BY DEF Job
<1> HIDE DEF k
<1>2. SameSlot(j, k)
  BY <1>1, Present DEF SameSlot, SlotSound, Waits
<1>3. QED
  BY <1>2 DEF k

LEMMA NormalizeSlot ==
  ASSUME CronTypeOK, NEW j \in Job, SlotSound(j)
  PROVE  /\ SameSlot(j, Normalize(j)) /\ Normalize(j) \in Job
         /\ Normalize(j).last = j.last /\ Normalize(j).enabled = j.enabled
         /\ Normalize(j).kind = j.kind /\ Normalize(j).at = j.at
         /\ Normalize(j).status = j.status
<1> DEFINE n == Normalize(j)
<1>1. /\ n \in Job /\ n.enabled = j.enabled /\ n.last = j.last /\ n.kind = j.kind
      /\ n.at = j.at /\ n.status = j.status
      /\ n.next = IF j.enabled THEN j.next ELSE None
  BY Times DEF Job, Normalize
<1> HIDE DEF n
<1>2. SameSlot(j, n)
  BY <1>1, Present DEF SameSlot, SlotSound, Waits
<1>3. QED
  BY <1>1, <1>2 DEF n

\* A slot that is computed anew lies ahead, or is that of a one-shot that is still to run.
LEMMA WithNextSlot ==
  ASSUME CronTypeOK, NEW j \in Job, j.last <= now
  PROVE  SlotSound(WithNext(j))
<1> DEFINE k == WithNext(j)
           c == ComputeNext(j, now)
<1>1. c \in Slots
  BY Times DEF Job, ComputeNext
<1>2. /\ k \in Job /\ k.next = c /\ k.last = j.last /\ k.kind = j.kind /\ k.at = j.at
      /\ k.status = j.status
  BY <1>1 DEF Job, WithNext
<1>3. c # None => c > j.last \/ (j.kind = "at" /\ c = j.at /\ j.status # "ok")
  <2>1. now \in Nat /\ j.last \in Nat /\ j.at \in Nat /\ AtMost(now + 1) \in Nat
        /\ AtMost(now + 1) > now
    BY Present, Times
  <2>2. AtMost(now + 1) > j.last
    BY <2>1
  <2>3. CASE c = None
    BY <2>3
  <2>4. CASE c = j.at /\ j.kind = "at" /\ ~(j.status = "ok" /\ j.at <= j.last)
    BY <2>1, <2>4
  <2>5. CASE c = AtMost(now + 1)
    BY <2>2, <2>5
  <2>6. QED
    BY <2>3, <2>4, <2>5 DEF ComputeNext
<1> HIDE DEF k, c
<1>4. SlotSound(k)
  BY <1>2, <1>3 DEF SlotSound
<1>5. QED
  BY <1>4 DEF k

LEMMA MaintainSlot ==
  ASSUME CronTypeOK, NEW j \in Job \cup {NoJob}, SlotSound(j)
  PROVE  /\ SameSlot(j, Maintain(j, FALSE))
         /\ SlotSound(Maintain(j, TRUE)) /\ SlotSound(Recompute(j))
<1>1. CASE j = NoJob
  BY <1>1, JobFacts DEF Maintain, Recompute, SlotSound, SameSlot, Waits
<1>2. CASE j \in Job
  <2> DEFINE n == Normalize(j)
  <2>1. IsJob(j) /\ SameSlot(j, n) /\ SlotSound(n) /\ n \in Job /\ n.last = j.last /\ j.last <= now
    BY <1>2, NormalizeSlot, JobFacts DEF SlotSound, SameSlot
  <2>2. SlotSound(WithNext(n))
    BY <2>1, WithNextSlot
  <2>3. Maintain(j, FALSE) = IF n.next = None THEN WithNext(n) ELSE n
    BY <2>1 DEF Maintain
  <2>4. Maintain(j, TRUE) \in {n, WithNext(n)} /\ Recompute(j) \in {n, WithNext(n)}
    BY <2>1 DEF Maintain, Recompute
  <2>5. QED
    BY <2>1, <2>2, <2>3, <2>4 DEF SameSlot, Waits
<1>3. QED
  BY <1>1, <1>2

\* The maintenance of an idle tick replaces the past slot of a job only if the job ran since:
\* a due job that is marked has not, but for a failed one-shot, whose slot stays the same.
LEMMA IdleTickSlot ==
  ASSUME CronTypeOK, NEW j \in Job, SlotSound(j), Due(j), Maintain(j, TRUE).enabled
  PROVE  Maintain(j, TRUE).next = j.next
<1> DEFINE n == Normalize(j)
<1>1. /\ IsJob(j) /\ n \in Job /\ n.next = j.next /\ n.last = j.last /\ n.enabled
      /\ n.kind = j.kind /\ n.at = j.at /\ n.status = j.status /\ j.next # None
  BY NormalizeSlot DEF Due, Past, SameSlot, Waits
<1> DEFINE replaced == Past(n) /\ n.mark = None /\ n.last >= n.next
<1>2. Maintain(j, TRUE) = IF replaced THEN WithNext(n) ELSE n
  BY <1>1 DEF Maintain
<1> HIDE DEF n, replaced
<1>3. CASE ~replaced
  BY <1>1, <1>2, <1>3
<1>4. CASE replaced
  <2>1. n.kind = "at" /\ n.next = n.at /\ n.status # "ok"
    BY <1>1, <1>4, Present DEF SlotSound, replaced
  <2>2. ComputeNext(n, now) = n.at
    BY <1>1, <2>1 DEF ComputeNext
  <2>3. WithNext(n).next = n.at
    BY <1>1, <2>2 DEF WithNext, Job
  <2>4. QED
    BY <1>1, <1>2, <1>4, <2>1, <2>3
<1>5. QED
  BY <1>3, <1>4

\* The next slot after a result lies ahead of the run.
LEMMA AppliedSlot ==
  ASSUME CronTypeOK, NEW j \in Job \cup {NoJob}, NEW r, r.start \in Slots, r.end \in Slots,
         r.start <= r.end, r.end <= now, NEW a \in Applied(j, r)
  PROVE  /\ a \in Job \cup {NoJob} /\ SlotSound(a)
         /\ IsJob(a) => a.last <= now /\ (a.next # None => a.next > a.last)
<1>1. CASE j = NoJob
  BY <1>1, JobFacts DEF Applied, SlotSound
<1>2. CASE j \in Job
  <2>1. r.start <= now /\ \A d \in {1, 2} : AtMost(r.end + d) > r.start /\ AtMost(r.end + d) \in Slots
    BY Present, Times
  <2>2. ASSUME NEW result \in {"ok", "error"}, NEW d \in {1, 2}
        PROVE  LET done == [j EXCEPT !.mark = None, !.last = r.start, !.status = result]
                   next == [done EXCEPT !.next = AtMost(r.end + d)]
                   disabled == [done EXCEPT !.enabled = FALSE, !.next = None]
               IN  /\ next \in Job /\ next.last = r.start /\ next.next = AtMost(r.end + d)
                   /\ disabled \in Job /\ disabled.last = r.start /\ disabled.next = None
    <3> DEFINE done == [j EXCEPT !.mark = None, !.last = r.start, !.status = result]
    <3>1. done \in Job /\ done.last = r.start
      BY <1>2, Times DEF Job
    <3> HIDE DEF done
    <3>2. LET next == [done EXCEPT !.next = AtMost(r.end + d)]
          IN  next \in Job /\ next.last = r.start /\ next.next = AtMost(r.end + d)
      BY <2>1, <3>1 DEF Job
    <3>3. LET disabled == [done EXCEPT !.enabled = FALSE, !.next = None]
          IN  disabled \in Job /\ disabled.last = r.start /\ disabled.next = None
      BY <3>1, Times DEF Job
    <3>4. QED
      BY <3>2, <3>3 DEF done
  <2>3. \/ a = NoJob
        \/ a \in Job /\ a.last = r.start /\ (a.next = None \/ a.next > r.start)
    BY <1>2, <2>1, <2>2, JobFacts DEF Applied
  <2>4. QED
    BY <2>1, <2>3, JobFacts DEF SlotSound
<1>3. QED
  BY <1>1, <1>2

LEMMA MergeSlot ==
  ASSUME NEW loaded \in Job \cup {NoJob}, NEW a \in Job \cup {NoJob},
         IsJob(a) => a.last <= now /\ (a.next # None => a.next > a.last)
  PROVE  Merge(loaded, a) \in Job \cup {NoJob} /\ SlotSound(Merge(loaded, a))
<1>1. CASE a = NoJob \/ loaded = NoJob
  BY <1>1, JobFacts DEF Merge, SlotSound
<1>2. CASE a \in Job /\ loaded \in Job
  <2>1. a # NoJob /\ loaded # NoJob /\ IsJob(a)
    BY <1>2, JobFacts
  <2> DEFINE m == [a EXCEPT !.kind = loaded.kind, !.at = loaded.at]
  <2>2. m \in Job /\ m.last = a.last /\ m.next = a.next
    BY <1>2 DEF Job
  <2> HIDE DEF m
  <2>3. SlotSound(m)
    BY <2>1, <2>2 DEF SlotSound
  <2>4. QED
    BY <2>1, <2>2, <2>3 DEF Merge, m
<1>3. QED
  BY <1>1, <1>2

LEMMA PatchedSlot ==
  ASSUME CronTypeOK, NEW j \in Job, j.last <= now,
         NEW patch \in {"enable", "disable", "reschedule"}
  PROVE  SlotSound(Patched(j, patch))
<1> DEFINE p == [j EXCEPT !.enabled = CASE patch = "enable" -> TRUE
                                        [] patch = "disable" -> FALSE
                                        [] OTHER -> @,
                          !.at = IF j.kind = "at" /\ patch = "reschedule"
                                 THEN AtMost(now + 1) ELSE @]
           q == [p EXCEPT !.next = None, !.mark = None]
<1>1. p \in Job /\ p.last = j.last
  BY Present DEF Job
<1>2. q \in Job /\ q.last = j.last /\ q.next = None
  BY <1>1, Times DEF Job
<1>3. Patched(j, patch) = IF p.enabled THEN WithNext(p) ELSE q
  BY DEF Patched
<1> HIDE DEF p, q
<1>4. QED
  BY <1>1, <1>2, <1>3, WithNextSlot DEF SlotSound


-----------------------------------------------------------------------------
(* The slots through the steps of a service.                               *)

\* What may move the next slot of a job that is due.
Explained(s) ==
  \/ \E w \in Workers : At(s, w, "ended") /\ ~At(s, w, "ended")'
  \/ At(s, "catchup", "deferred") /\ ApplyStartupCatchup(s)
  \/ FinishStart(s) \/ AddOther(s) \/ Update(s)

KeepsDueSlot(s) ==
  Due(disk) /\ IsJob(disk') /\ disk'.enabled /\ Together /\ "overlap" \notin causes'
  => disk'.next = disk.next \/ Explained(s)

\* A step of service s.
SlotStep(s) ==
  /\ Acts(s) /\ UNCHANGED <<now, current>> /\ causes \subseteq causes'
  /\ SlotSound(disk') /\ SlotSound(mem'[s]) /\ \A t \in Services \ {s} : mem'[t] = mem[t]
  /\ RunsSound'
  /\ s = current /\ Together' => Follows(s)'
  /\ KeepsDueSlot(s)

SlotFrame(s) ==
  /\ Acts(s) /\ UNCHANGED <<now, current>> /\ causes \subseteq causes'
  /\ RunsSound'

CInv == CronInv /\ SlotInv

\* Services that do not overlap have one that acts.
LEMMA ActingIsCurrent ==
  ASSUME CInv, NEW s \in Services, Acts(s), "overlap" \notin causes, "overlap" \notin causes'
  PROVE  s = current
<1>1. current \in {1, 2} /\ s \in {1, 2} /\ Services = {1, 2}
  BY DEF CInv, CronInv, CronTypeOK, Services
<1>2. current = 1 => s = 1
  BY <1>1 DEF CInv, CronInv, ReplacementSound, Acts
<1>3. current = 2 => s = 2
  BY <1>1 DEF CInv, CronInv, ReplacementSound, Acts
<1>4. QED
  BY <1>1, <1>2, <1>3

\* Neither file nor memory changes.
LEMMA QuietSlot ==
  ASSUME CInv, NEW s \in Services, SlotFrame(s), UNCHANGED <<disk, mem>>
  PROVE  SlotStep(s)
<1>1. s = current /\ Together' => Follows(s)'
  BY DEF CInv, SlotInv, Follows, SlotFrame, Together
<1>2. KeepsDueSlot(s)
  BY DEF KeepsDueSlot
<1>3. QED
  BY <1>1, <1>2 DEF SlotStep, SlotFrame, CInv, SlotInv

\* The job in memory is replaced by one that waits for the same slot, and perhaps saved.
LEMMA CopySlot ==
  ASSUME CInv, NEW s \in Services, SlotFrame(s), NEW k, SameSlot(Loaded(s), k),
         mem' = [mem EXCEPT ![s] = k], disk' \in {k, disk}
  PROVE  SlotStep(s)
<1>1. mem'[s] = k /\ \A t \in Services \ {s} : mem'[t] = mem[t]
  BY Unchanged DEF CInv
<1>2. SlotSound(k) /\ SlotSound(disk)
  BY DEF SameSlot, CInv, SlotInv
<1>3. Together /\ "overlap" \notin causes' => (Waits(disk) => Waits(k) /\ k.next = disk.next)
  <2>1. Together /\ "overlap" \notin causes' => Follows(s)
    BY ActingIsCurrent DEF SlotFrame, CInv, SlotInv, Together
  <2>2. QED
    BY <2>1 DEF Follows, Loaded, SameSlot
<1>4. Together' => Together /\ "overlap" \notin causes'
  BY DEF SlotFrame, Together
<1>5. Together' => Follows(s)'
  BY <1>1, <1>3, <1>4 DEF Follows, Waits
<1>6. KeepsDueSlot(s)
  BY <1>3 DEF KeepsDueSlot, Due, Past, Waits
<1>7. QED
  BY <1>1, <1>2, <1>5, <1>6 DEF SlotStep, SlotFrame

\* The job is replaced in memory and in the file.
LEMMA SaveSlot ==
  ASSUME CInv, NEW s \in Services, SlotFrame(s), NEW k, SlotSound(k),
         mem' = [mem EXCEPT ![s] = k], disk' = k, KeepsDueSlot(s)
  PROVE  SlotStep(s)
<1>1. mem'[s] = k /\ \A t \in Services \ {s} : mem'[t] = mem[t]
  BY Unchanged DEF CInv
<1>2. Follows(s)'
  BY <1>1 DEF Follows, Waits
<1>3. QED
  BY <1>1, <1>2 DEF SlotStep, SlotFrame

\* The save fails.
LEMMA UnsavedSlot ==
  ASSUME CInv, NEW s \in Services, SlotFrame(s), NEW k, SlotSound(k),
         mem' = [mem EXCEPT ![s] = k], disk' = disk, "unsaved" \in causes'
  PROVE  SlotStep(s)
<1>1. mem'[s] = k /\ \A t \in Services \ {s} : mem'[t] = mem[t]
  BY Unchanged DEF CInv
<1>2. ~Together' /\ KeepsDueSlot(s) /\ SlotSound(disk)
  BY DEF Together, KeepsDueSlot, CInv, SlotInv
<1>3. QED
  BY <1>1, <1>2 DEF SlotStep, SlotFrame

\* How the runs of a step stay sound.
LEMMA OneRunSound ==
  ASSUME CInv, now' = now, NEW s \in Services, NEW w \in Workers, NEW r, RunIs(s, w, r),
         RunSound(r)
  PROVE  RunsSound'
BY DEF RunsSound, RunIs, RunSound, CInv, SlotInv

LEMMA QuietRunsSound ==
  ASSUME CInv, now' = now, UNCHANGED run
  PROVE  RunsSound'
BY DEF RunsSound, RunSound, CInv, SlotInv

LEMMA GotoSound ==
  ASSUME CInv, now' = now, NEW s \in Services, NEW w \in Workers,
         NEW x \in Stages \ {"ended"}, Goto(s, w, x)
  PROVE  RunsSound'
<1>1. RunIs(s, w, [run[s][w] EXCEPT !.stage = x]) /\ run[s][w] \in RunRecord
  BY GotoStep, Unchanged DEF CInv
<1>2. /\ [run[s][w] EXCEPT !.stage = x].stage = x
      /\ [run[s][w] EXCEPT !.stage = x].start = run[s][w].start
  BY <1>1 DEF RunRecord
<1>3. RunSound([run[s][w] EXCEPT !.stage = x])
  BY <1>2 DEF RunsSound, RunSound, CInv, SlotInv
<1>4. QED
  BY <1>1, <1>3, OneRunSound

LEMMA IdleRunSound ==
  ASSUME CronTypeOK
  PROVE  /\ RunSound(NoRun)
         /\ \A x \in Stages \ {"ended"} : RunSound([NoRun EXCEPT !.stage = x])
         /\ \A x \in Stages : [NoRun EXCEPT !.stage = x] \in RunRecord
<1>1. None <= now /\ None \in Slots
  BY Times DEF None
<1>2. QED
  BY <1>1 DEF RunSound, NoRun, RunRecord, Stages

LEMMA EndsSound ==
  ASSUME CInv, now' = now, NEW s \in Services, NEW w \in Workers, Ends(s, w)
  PROVE  RunsSound' /\ (run[s][w].stage = "ended" => Explained(s))
<1>1. RunIs(s, w, NoRun) /\ run'[s][w].stage = "none"
  BY EndsStep DEF CInv
<1>2. RunsSound'
  BY <1>1, IdleRunSound, OneRunSound, Unchanged DEF CInv
<1>3. run[s][w].stage = "ended" => Explained(s)
  BY <1>1 DEF Explained, At
<1>4. QED
  BY <1>2, <1>3


-----------------------------------------------------------------------------
(* The slots through a start.                                              *)

LEMMA ClearMarkersSlot ==
  ASSUME CInv, NEW s \in Services, ClearMarkers(s)
  PROVE  SlotStep(s)
<1>1. /\ phase[s] = "clear" /\ mem[s] = NotLoaded /\ Loaded(s) = disk
      /\ UNCHANGED <<now, run, current, causes>>
  BY DEF ClearMarkers, CInv, CronInv, StartSound, Loaded
<1>2. SlotFrame(s)
  BY <1>1, QuietRunsSound DEF SlotFrame, Acts
<1>3. PICK k \in {[disk EXCEPT !.mark = None], disk} :
        /\ mem' = [mem EXCEPT ![s] = k] /\ disk' = k
        /\ k = disk \/ IsJob(disk)
  BY <1>1 DEF ClearMarkers, Save, InMemory
<1>4. SameSlot(Loaded(s), k)
  <2>1. SlotSound(disk) /\ disk \in Job \cup {NoJob} /\ CronTypeOK
    BY Unchanged, JobFacts DEF CInv, SlotInv
  <2>2. CASE k = disk
    BY <1>1, <2>1, <2>2 DEF SameSlot
  <2>3. CASE k # disk
    BY <1>1, <1>3, <2>1, <2>3, JobFacts, MarkSlot, Times
  <2>4. QED
    BY <2>2, <2>3
<1>5. QED
  BY <1>2, <1>3, <1>4, CopySlot

\* The jobs in memory and in the file, with their slots.
LEMMA JobsHere ==
  ASSUME CInv, NEW s \in Services
  PROVE  /\ CronTypeOK /\ SlotSound(disk) /\ disk \in Job \cup {NoJob}
         /\ SlotSound(mem[s]) /\ mem[s] \in Job \cup {NoJob, NotLoaded}
         /\ SlotSound(Loaded(s)) /\ Loaded(s) \in Job \cup {NoJob}
         /\ mem[s] # NotLoaded => Loaded(s) = mem[s] /\ mem[s] \in Job \cup {NoJob}
         /\ now \in Slots /\ now # None
BY Unchanged, LoadedFacts, JobFacts, Times DEF CInv, SlotInv, Loaded, None

LEMMA PlanStartupCatchupSlot ==
  ASSUME CInv, NEW s \in Services, PlanStartupCatchup(s)
  PROVE  SlotStep(s)
<1>1. /\ phase[s] \in {"plan", "planInterrupted"} /\ UNCHANGED <<now, current, causes>>
      /\ mem[s] # NotLoaded /\ mem[s] = Loaded(s)
      /\ \/ \E x \in {"queued", "deferred", "others"} : Goto(s, "catchup", x)
         \/ UNCHANGED run
  BY DEF PlanStartupCatchup, CInv, CronInv, StartSound, Loaded
<1>2. RunsSound'
  <2>1. "catchup" \in Workers /\ {"queued", "deferred", "others"} \subseteq Stages \ {"ended"}
    BY DEF Workers, Stages
  <2>2. QED
    BY <1>1, <2>1, GotoSound, QuietRunsSound
<1>3. SlotFrame(s)
  BY <1>1, <1>2 DEF SlotFrame, Acts
<1>4. CASE UNCHANGED <<disk, mem>>
  BY <1>3, <1>4, QuietSlot
<1>5. CASE ~UNCHANGED <<disk, mem>>
  <2>1. \/ IsJob(mem[s]) /\ disk' = [mem[s] EXCEPT !.mark = now]
           /\ mem' = [mem EXCEPT ![s] = [mem[s] EXCEPT !.mark = now]]
        \/ disk' = mem[s] /\ UNCHANGED mem
    BY <1>5, MissedFacts DEF PlanStartupCatchup, Save, InMemory
  <2>2. CASE disk' = mem[s] /\ UNCHANGED mem
    <3>1. mem' = [mem EXCEPT ![s] = mem[s]]
      BY <2>2, Unchanged DEF CInv
    <3>2. SameSlot(Loaded(s), mem[s])
      BY <1>1, JobsHere DEF SameSlot
    <3>3. QED
      BY <1>3, <2>2, <3>1, <3>2, CopySlot
  <2>3. CASE IsJob(mem[s]) /\ disk' = [mem[s] EXCEPT !.mark = now]
             /\ mem' = [mem EXCEPT ![s] = [mem[s] EXCEPT !.mark = now]]
    <3>1. SameSlot(Loaded(s), [mem[s] EXCEPT !.mark = now])
      BY <1>1, <2>3, JobsHere, JobFacts, MarkSlot
    <3>2. QED
      BY <1>3, <2>3, <3>1, CopySlot
  <2>4. QED
    BY <2>1, <2>2, <2>3
<1>6. QED
  BY <1>4, <1>5

\* A result is recorded, and the job maintained.
LEMMA ResultSlot ==
  ASSUME CInv, NEW s \in Services, NEW w \in Workers, run[s][w].stage = "ended",
         NEW j \in Job \cup {NoJob}, NEW a \in Applied(j, run[s][w])
  PROVE  /\ a \in Job \cup {NoJob} /\ SlotSound(a)
         /\ IsJob(a) => a.last <= now /\ (a.next # None => a.next > a.last)
<1>1. run[s][w].start \in Slots /\ run[s][w].end \in Slots /\ CronTypeOK
  BY Unchanged DEF CInv, RunRecord
<1>2. run[s][w].start <= run[s][w].end /\ run[s][w].end <= now
  BY DEF CInv, SlotInv, RunsSound, RunSound
<1>3. QED
  BY <1>1, <1>2, AppliedSlot

LEMMA ApplyStartupCatchupSlot ==
  ASSUME CInv, NEW s \in Services, ApplyStartupCatchup(s)
  PROVE  SlotStep(s)
<1> DEFINE r == run[s]["catchup"]
<1>1. /\ phase[s] = "catchup" /\ r.stage \in {"ended", "deferred", "others"}
      /\ UNCHANGED <<now, current>> /\ causes \subseteq causes'
      /\ Ends(s, "catchup") /\ "catchup" \in Workers
      /\ mem[s] # NotLoaded
  BY DEF ApplyStartupCatchup, CInv, CronInv, StartSound, Workers
<1>2. SlotFrame(s) /\ (r.stage = "ended" => Explained(s))
  BY <1>1, EndsSound DEF SlotFrame, Acts
<1>3. PICK j : /\ \/ r.stage = "ended" /\ j \in Applied(mem[s], r)
                  \/ /\ r.stage = "deferred"
                     /\ \/ IsJob(mem[s]) /\ j = [mem[s] EXCEPT !.next = AtMost(now + 1)]
                        \/ j = mem[s]
                  \/ r.stage = "others" /\ j = mem[s]
               /\ mem' = [mem EXCEPT ![s] = Maintain(j, FALSE)]
               /\ disk' = Maintain(j, FALSE)
  BY <1>1 DEF ApplyStartupCatchup, Save, InMemory
<1>4. mem[s] \in Job \cup {NoJob} /\ mem[s] = Loaded(s) /\ SlotSound(mem[s])
  BY <1>1, JobsHere
<1>5. j \in Job \cup {NoJob} /\ SlotSound(j)
  <2>1. CASE r.stage = "ended" /\ j \in Applied(mem[s], r)
    BY <1>1, <1>4, <2>1, ResultSlot
  <2>2. CASE IsJob(mem[s]) /\ j = [mem[s] EXCEPT !.next = AtMost(now + 1)]
    <3>1. mem[s] \in Job /\ mem[s].last <= now
      BY <1>4, <2>2, JobFacts DEF SlotSound
    <3>2. AtMost(now + 1) \in Slots /\ AtMost(now + 1) > mem[s].last
      <4>1. AtMost(now + 1) \in Nat /\ now \in Nat /\ mem[s].last \in Nat /\ AtMost(now + 1) > now
        BY <3>1, JobsHere, Present, Times
      <4>2. QED
        BY <3>1, <4>1, JobsHere, Present
    <3>3. j \in Job /\ j.next = AtMost(now + 1) /\ j.last = mem[s].last
      BY <2>2, <3>1, <3>2 DEF Job
    <3>4. QED
      BY <3>1, <3>2, <3>3 DEF SlotSound
  <2>3. CASE j = mem[s]
    BY <1>4, <2>3
  <2>4. QED
    BY <1>3, <2>1, <2>2, <2>3
<1>6. SameSlot(j, Maintain(j, FALSE)) /\ SlotSound(Maintain(j, FALSE))
  BY <1>5, JobsHere, MaintainSlot DEF SameSlot
<1>7. CASE r.stage = "others"
  BY <1>1, <1>2, <1>3, <1>4, <1>6, <1>7, CopySlot
<1>8. CASE r.stage \in {"ended", "deferred"}
  <2>1. Explained(s)
    BY <1>2, <1>8 DEF Explained, At
  <2>2. QED
    BY <1>2, <1>3, <1>6, <2>1, SaveSlot DEF KeepsDueSlot
<1>9. QED
  BY <1>1, <1>7, <1>8

LEMMA FinishStartSlot ==
  ASSUME CInv, NEW s \in Services, FinishStart(s)
  PROVE  SlotStep(s)
<1>1. /\ phase[s] = "arm" /\ UNCHANGED <<now, run, current>> /\ causes \subseteq causes'
      /\ mem[s] # NotLoaded
      /\ \/ UNCHANGED <<mem, disk>>
         \/ mem' = [mem EXCEPT ![s] = Recompute(mem[s])] /\ disk' = Recompute(mem[s])
  BY DEF FinishStart, CInv, CronInv, StartSound, Save, InMemory
<1>2. SlotFrame(s)
  BY <1>1, QuietRunsSound DEF SlotFrame, Acts
<1>3. SlotSound(Recompute(mem[s]))
  BY <1>1, JobsHere, MaintainSlot
<1>4. KeepsDueSlot(s)
  BY DEF KeepsDueSlot, Explained
<1>5. QED
  BY <1>1, <1>2, <1>3, <1>4, QuietSlot, SaveSlot


-----------------------------------------------------------------------------
(* The slots through ticks, runs and calls.                                *)

LEMMA TickFrame ==
  ASSUME CInv, NEW s \in Services, NEW w \in Workers, run[s][w].stage # "none",
         UNCHANGED <<now, current>>, causes \subseteq causes', RunsSound'
  PROVE  SlotFrame(s)
BY WorkerActs DEF SlotFrame, CInv

LEMMA CollectSlot ==
  ASSUME CInv, NEW s \in Services, CollectDue(s) \/ CollectOthers(s)
  PROVE  SlotStep(s)
<1>1. /\ run[s]["tick"].stage = "begin" /\ "tick" \in Workers
      /\ UNCHANGED <<now, current>> /\ causes \subseteq causes'
      /\ \E x \in {"queued", "closing", "others"} : Goto(s, "tick", x)
  BY DEF CollectDue, CollectOthers, At, Workers
<1>2. SlotFrame(s)
  <2>1. {"queued", "closing", "others"} \subseteq Stages \ {"ended"}
    BY DEF Stages
  <2>2. RunsSound'
    BY <1>1, <2>1, GotoSound
  <2>3. QED
    BY <1>1, <2>2, TickFrame
<1>3. CASE CollectDue(s)
  <2> DEFINE k == [disk EXCEPT !.mark = now]
  <2>1. /\ IsJob(disk) /\ mem' = [mem EXCEPT ![s] = k]
        /\ disk' = k \/ (disk' = disk /\ "unsaved" \in causes')
    BY <1>3 DEF CollectDue, Save, InMemory, Runnable, Due
  <2>2. disk \in Job /\ SameSlot(disk, k)
    BY <2>1, JobsHere, JobFacts, MarkSlot
  <2>3. SlotSound(k) /\ (Waits(disk) => k.next = disk.next)
    BY <2>2 DEF SameSlot
  <2> HIDE DEF k
  <2>4. disk' = k => KeepsDueSlot(s)
    BY <2>3 DEF KeepsDueSlot, Due, Past, Waits
  <2>5. QED
    BY <1>2, <2>1, <2>3, <2>4, SaveSlot, UnsavedSlot
<1>4. CASE CollectOthers(s)
  <2>1. \/ mem' = [mem EXCEPT ![s] = disk] /\ disk' = disk
        \/ mem' = [mem EXCEPT ![s] = Maintain(disk, TRUE)] /\ disk' = Maintain(disk, TRUE)
    BY <1>4 DEF CollectOthers, Save, InMemory
  <2>2. SlotSound(disk) /\ SlotSound(Maintain(disk, TRUE))
    BY JobsHere, MaintainSlot
  <2>3. disk' = disk => KeepsDueSlot(s)
    BY DEF KeepsDueSlot
  <2>4. disk' = Maintain(disk, TRUE) => KeepsDueSlot(s)
    BY JobsHere, JobFacts, IdleTickSlot DEF KeepsDueSlot, Due
  <2>5. QED
    BY <1>2, <2>1, <2>2, <2>3, <2>4, SaveSlot
<1>5. QED
  BY <1>3, <1>4

LEMMA ApplyOutcomesSlot ==
  ASSUME CInv, NEW s \in Services, ApplyOutcomes(s)
  PROVE  SlotStep(s)
<1> DEFINE r == run[s]["tick"]
<1>1. /\ r.stage \in {"ended", "others"} /\ "tick" \in Workers /\ "closing" \in Stages
      /\ UNCHANGED <<now, current>> /\ causes \subseteq causes'
      /\ run' = [run EXCEPT ![s]["tick"] = [NoRun EXCEPT !.stage = "closing"]]
  BY DEF ApplyOutcomes, Workers, Stages
<1>2. RunIs(s, "tick", [NoRun EXCEPT !.stage = "closing"])
  BY <1>1, Unchanged, IdleRunSound, RunUpdate DEF CInv
<1>3. RunsSound'
  BY <1>1, <1>2, IdleRunSound, OneRunSound, Unchanged DEF CInv
<1>4. SlotFrame(s)
  BY <1>1, <1>3, TickFrame
<1>5. r.stage = "ended" => Explained(s)
  BY <1>1, <1>2 DEF Explained, At, RunIs, NoRun
<1>6. PICK j : /\ \/ r.stage = "ended" /\ j \in Applied(disk, r)
                  \/ r.stage = "others" /\ j = disk
               /\ mem' = [mem EXCEPT ![s] = Maintain(j, FALSE)]
               /\ \/ disk' = Maintain(j, FALSE)
                  \/ disk' = disk /\ "unsaved" \in causes'
  BY <1>1 DEF ApplyOutcomes, Save, InMemory
<1>7. j \in Job \cup {NoJob} /\ SlotSound(j)
  BY <1>1, <1>6, JobsHere, ResultSlot
<1>8. SameSlot(j, Maintain(j, FALSE)) /\ SlotSound(Maintain(j, FALSE))
  BY <1>7, JobsHere, MaintainSlot DEF SameSlot
<1>9. disk' = Maintain(j, FALSE) => KeepsDueSlot(s)
  <2>1. CASE r.stage = "ended"
    BY <1>5, <2>1 DEF KeepsDueSlot
  <2>2. CASE r.stage = "others"
    BY <1>6, <1>8, <2>2 DEF KeepsDueSlot, SameSlot, Waits, Due, Past
  <2>3. QED
    BY <1>1, <2>1, <2>2
<1>10. QED
  BY <1>4, <1>6, <1>8, <1>9, SaveSlot, UnsavedSlot

\* The steps in which only the tick, or the timer, moves on.
LEMMA QuietSteps ==
  ASSUME CInv, NEW s \in Services,
         OnTimer(s) \/ OnTimerBusy(s) \/ CloseTick(s)
  PROVE  SlotStep(s)
<1>1. UNCHANGED <<now, disk, mem, current, causes>>
  BY DEF OnTimer, OnTimerBusy, CloseTick
<1>2. "tick" \in Workers /\ "begin" \in Stages \ {"ended"}
  BY DEF Workers, Stages
<1>3. RunsSound'
  <2>1. CASE OnTimer(s) \/ OnTimerBusy(s)
    BY <1>1, <1>2, <2>1, GotoSound, QuietRunsSound DEF OnTimer, OnTimerBusy
  <2>2. CASE CloseTick(s)
    BY <1>1, <1>2, <2>2, EndsSound DEF CloseTick
  <2>3. QED
    BY <2>1, <2>2
<1>4. Acts(s)
  BY WorkerActs DEF OnTimer, OnTimerBusy, CloseTick, At, Workers, CInv, Acts, Idle
<1>5. QED
  BY <1>1, <1>3, <1>4, QuietSlot DEF SlotFrame

LEMMA EndRunSlot ==
  ASSUME CInv, NEW s \in Services, NEW w \in Workers, EndRun(s, w)
  PROVE  SlotStep(s)
<1> DEFINE r == [run[s][w] EXCEPT !.stage = "ended", !.end = now]
<1>1. /\ run[s][w].stage = "executing" /\ run' = [run EXCEPT ![s][w] = r]
      /\ UNCHANGED <<now, disk, mem, current, causes>>
  BY DEF EndRun, At
<1>2. r \in RunRecord /\ RunSound(r)
  <2>1. run[s][w] \in RunRecord /\ now \in Slots /\ now \in Nat /\ run[s][w].start <= now
    BY Unchanged, Times DEF CInv, SlotInv, RunsSound, RunSound
  <2>2. r \in RunRecord /\ r.start = run[s][w].start /\ r.end = now
    BY <2>1 DEF RunRecord, Stages
  <2>3. QED
    BY <2>1, <2>2 DEF RunSound
<1> HIDE DEF r
<1>3. RunIs(s, w, r)
  BY <1>1, <1>2, Unchanged, RunUpdate DEF CInv
<1>4. SlotFrame(s)
  BY <1>1, <1>2, <1>3, OneRunSound, TickFrame
<1>5. QED
  BY <1>1, <1>4, QuietSlot

LEMMA BeginRunSlot ==
  ASSUME CInv, NEW s \in Services, NEW w \in Workers, BeginRun(s, w)
  PROVE  SlotStep(s)
<1> DEFINE r == [run[s][w] EXCEPT !.stage = "executing", !.start = now]
<1>1. /\ run[s][w].stage \in {"queued", "detached"} /\ UNCHANGED <<now, disk, current, causes>>
      /\ run' = [run EXCEPT ![s][w] = r]
      /\ \/ UNCHANGED mem
         \/ IsJob(mem[s]) /\ mem' = [mem EXCEPT ![s] = [mem[s] EXCEPT !.mark = now]]
  BY DEF BeginRun, InMemory
<1>2. r \in RunRecord /\ r.start = now /\ r.stage = "executing" /\ now \in Nat
  <2>1. run[s][w] \in RunRecord /\ now \in Slots /\ now \in Nat
    BY Unchanged, Times DEF CInv
  <2>2. QED
    BY <2>1 DEF RunRecord, Stages
<1>3. RunIs(s, w, r) /\ RunSound(r)
  <2>1. RunSound(r)
    BY <1>2 DEF RunSound
  <2> HIDE DEF r
  <2>2. QED
    BY <1>1, <1>2, <2>1, Unchanged, RunUpdate DEF CInv
<1> HIDE DEF r
<1>4. SlotFrame(s)
  BY <1>1, <1>3, OneRunSound, TickFrame
<1>5. CASE UNCHANGED mem
  BY <1>1, <1>4, <1>5, QuietSlot
<1>6. CASE IsJob(mem[s]) /\ mem' = [mem EXCEPT ![s] = [mem[s] EXCEPT !.mark = now]]
  <2>1. mem[s] = Loaded(s) /\ mem[s] \in Job
    BY <1>6, JobFacts, JobsHere DEF Loaded
  <2>2. SameSlot(Loaded(s), [mem[s] EXCEPT !.mark = now])
    BY <2>1, JobsHere, MarkSlot
  <2>3. QED
    BY <1>1, <1>4, <1>6, <2>2, CopySlot
<1>7. QED
  BY <1>1, <1>5, <1>6

\* A replaced service that is called only to read changes no more than its own copy.
LEMMA ReplacedReadsSlot ==
  ASSUME CInv, NEW s \in Services, s # current, NEW k, SlotSound(k),
         mem' = [mem EXCEPT ![s] = k], UNCHANGED <<now, disk, run, current, causes>>
  PROVE  SlotInv' /\ disk' = disk
<1>1. mem'[s] = k /\ (\A t \in Services \ {s} : mem'[t] = mem[t]) /\ current \in Services
  BY Unchanged DEF CInv, CronInv, CronTypeOK
<1>2. SlotSound(disk)' /\ \A t \in Services : SlotSound(mem[t])'
  BY <1>1 DEF CInv, SlotInv, SlotSound
<1>3. RunsSound'
  BY QuietRunsSound
<1>4. Together' => Follows(current)'
  BY <1>1 DEF CInv, SlotInv, Together, Follows
<1>5. QED
  BY <1>2, <1>3, <1>4 DEF SlotInv

LEMMA PreflightSlot ==
  ASSUME CInv, NEW s \in Services, NEW mode, Preflight(s, mode)
  PROVE  SlotStep(s) \/ (SlotInv' /\ disk' = disk)
<1> DEFINE k == Maintain(Loaded(s), FALSE)
           r == [NoRun EXCEPT !.stage = "checked", !.start = now]
<1>1. /\ s = 1 /\ UNCHANGED <<now, disk, current>> /\ causes \subseteq causes'
      /\ mem' = [mem EXCEPT ![s] = k]
      /\ \/ run' = [run EXCEPT ![s]["manual"] = r] /\ (s # current => "overlap" \in causes')
         \/ UNCHANGED run /\ (s # current => causes' = causes)
  BY DEF Preflight, InMemory, Serves, Touched
<1>2. "manual" \in Workers /\ r \in RunRecord /\ r.start = now /\ r.stage = "checked" /\ now \in Nat
  BY Unchanged, Times DEF CInv, RunRecord, NoRun, Stages, Workers
<1>3. RunSound(r)
  BY <1>2 DEF RunSound
<1>4. run' = [run EXCEPT ![s]["manual"] = r] => RunIs(s, "manual", r)
  BY <1>2, Unchanged, RunUpdate DEF CInv
<1> HIDE DEF r
<1>5. RunsSound'
  BY <1>1, <1>2, <1>3, <1>4, OneRunSound, QuietRunsSound
<1>6. SameSlot(Loaded(s), k)
  BY JobsHere, MaintainSlot
<1>7. CASE s # current /\ UNCHANGED <<run, causes>>
  BY <1>1, <1>6, <1>7, ReplacedReadsSlot DEF SameSlot
<1>8. CASE s = current \/ "overlap" \in causes'
  <2>1. SlotFrame(s)
    BY <1>1, <1>5, <1>8 DEF SlotFrame, Acts
  <2>2. QED
    BY <1>1, <1>6, <2>1, CopySlot
<1>9. QED
  BY <1>1, <1>7, <1>8

LEMMA PrepareManualRunSlot ==
  ASSUME CInv, NEW s \in Services, PrepareManualRun(s)
  PROVE  SlotStep(s)
<1> DEFINE k == [mem[s] EXCEPT !.mark = run[s]["manual"].start]
<1>1. /\ run[s]["manual"].stage = "checked" /\ "manual" \in Workers
      /\ "executing" \in Stages \ {"ended"} /\ UNCHANGED <<now, current, causes>>
      /\ \/ /\ IsJob(mem[s]) /\ mem' = [mem EXCEPT ![s] = k] /\ disk' = k
            /\ Goto(s, "manual", "executing")
         \/ Ends(s, "manual") /\ UNCHANGED <<mem, disk>>
  BY DEF PrepareManualRun, At, Workers, Stages, Save, InMemory
<1>2. SlotFrame(s)
  BY <1>1, GotoSound, EndsSound, TickFrame
<1>3. CASE UNCHANGED <<mem, disk>>
  BY <1>2, <1>3, QuietSlot
<1>4. CASE IsJob(mem[s]) /\ mem' = [mem EXCEPT ![s] = k] /\ disk' = k
  <2>1. mem[s] = Loaded(s) /\ mem[s] \in Job
    BY <1>4, JobFacts, JobsHere DEF Loaded
  <2>2. run[s]["manual"].start \in Slots
    BY <1>1, Unchanged DEF CInv, RunRecord
  <2>3. SameSlot(Loaded(s), k)
    BY <2>1, <2>2, JobsHere, MarkSlot
  <2>4. QED
    BY <1>2, <1>4, <2>3, CopySlot
<1>5. QED
  BY <1>1, <1>3, <1>4

LEMMA FinishManualRunSlot ==
  ASSUME CInv, NEW s \in Services, FinishManualRun(s)
  PROVE  SlotStep(s)
<1> DEFINE r == run[s]["manual"]
           tick == run[s]["tick"]
<1>1. /\ r.stage = "ended" /\ "manual" \in Workers /\ "tick" \in Workers
      /\ UNCHANGED <<now, current>> /\ causes \subseteq causes'
  BY DEF FinishManualRun, Workers
<1>2. CASE IsJob(mem[s])
  <2>1. PICK a \in Applied(mem[s], r) :
          /\ mem' = [mem EXCEPT ![s] = Maintain(Merge(disk, a), TRUE)]
          /\ disk' = Maintain(Merge(disk, a), TRUE)
          /\ run' = [run EXCEPT ![s]["manual"] = NoRun, ![s]["tick"] = Detached(tick)]
    BY <1>2 DEF FinishManualRun, Save, InMemory
  <2>2. mem[s] \in Job
    BY <1>2, JobFacts, JobsHere DEF IsJob
  <2>3. /\ a \in Job \cup {NoJob}
        /\ IsJob(a) => a.last <= now /\ (a.next # None => a.next > a.last)
    BY <1>1, <2>2, ResultSlot
  <2>4. Merge(disk, a) \in Job \cup {NoJob} /\ SlotSound(Merge(disk, a))
    BY <2>3, JobsHere, MergeSlot
  <2>5. SlotSound(Maintain(Merge(disk, a), TRUE))
    BY <2>4, JobsHere, MaintainSlot
  <2>6. RunsSound' /\ Explained(s)
    <3>1. /\ run \in [Services -> [Workers -> RunRecord]] /\ CronTypeOK
          /\ tick \in RunRecord
      BY <1>1, Unchanged DEF CInv
    <3>2. RunSound(tick) /\ RunSound(NoRun)
      BY <1>1, <3>1, IdleRunSound DEF CInv, SlotInv, RunsSound
    <3>3. RunSound(Detached(tick))
      BY <3>1, <3>2 DEF RunSound, RunRecord, Detached
    <3>4. /\ run'[s]["manual"] = NoRun /\ run'[s]["tick"] = Detached(tick)
          /\ \A w \in Workers \ {"manual", "tick"} : run'[s][w] = run[s][w]
          /\ \A t \in Services \ {s} : run'[t] = run[t]
      BY <1>1, <2>1, <3>1
    <3>5. RunsSound'
      BY <1>1, <3>2, <3>3, <3>4 DEF RunsSound, RunSound, CInv, SlotInv
    <3>6. Explained(s)
      BY <1>1, <3>4 DEF Explained, At, NoRun
    <3>7. QED
      BY <3>5, <3>6
  <2>7. SlotFrame(s)
    BY <1>1, <2>6, TickFrame
  <2>8. QED
    BY <2>1, <2>5, <2>6, <2>7, SaveSlot DEF KeepsDueSlot
<1>3. CASE ~IsJob(mem[s])
  <2>1. Ends(s, "manual") /\ UNCHANGED <<mem, disk>>
    BY <1>3 DEF FinishManualRun
  <2>2. SlotFrame(s)
    BY <1>1, <2>1, EndsSound, TickFrame
  <2>3. QED
    BY <2>1, <2>2, QuietSlot
<1>4. QED
  BY <1>2, <1>3

\* What a call does that does more than read.
LEMMA CallFrame ==
  ASSUME CInv, NEW s \in Services, Serves(s), UNCHANGED <<now, run, current>>,
         causes \subseteq causes', s # current => "overlap" \in causes'
  PROVE  SlotFrame(s)
BY QuietRunsSound DEF SlotFrame, Acts, Serves

LEMMA ReadSlot ==
  ASSUME CInv, NEW s \in Services, Read(s)
  PROVE  SlotStep(s) \/ (SlotInv' /\ disk' = disk)
<1> DEFINE k == Maintain(Loaded(s), FALSE)
<1>1. /\ Serves(s) /\ UNCHANGED <<now, run, current>> /\ causes \subseteq causes'
      /\ mem' = [mem EXCEPT ![s] = k]
      /\ \/ disk' = k /\ (s # current => "overlap" \in causes')
         \/ UNCHANGED <<disk, causes>>
  BY DEF Read, Save, InMemory, Touched
<1>2. SameSlot(Loaded(s), k)
  BY JobsHere, MaintainSlot
<1>3. CASE s # current /\ UNCHANGED <<disk, causes>>
  BY <1>1, <1>2, <1>3, ReplacedReadsSlot DEF SameSlot
<1>4. CASE s = current \/ "overlap" \in causes'
  BY <1>1, <1>2, <1>4, CallFrame, CopySlot
<1>5. QED
  BY <1>1, <1>3, <1>4

\* The calls that change the job, and those that save it with another one.
LEMMA CallSlot ==
  ASSUME CInv, NEW s \in Services,
         Update(s) \/ Remove(s) \/ AddOther(s) \/ EditOther(s) \/ BeginOther(s)
  PROVE  SlotStep(s)
<1>1. /\ Serves(s) /\ UNCHANGED <<now, run, current>> /\ causes \subseteq causes'
      /\ s # current => "overlap" \in causes'
  BY DEF Update, Remove, AddOther, EditOther, BeginOther, Overlap, Touched
<1>2. SlotFrame(s)
  BY <1>1, CallFrame
<1>3. CASE Update(s)
  <2>1. PICK patch \in {"enable", "disable", "reschedule"} :
          /\ mem' = [mem EXCEPT ![s] = Patched(Loaded(s), patch)]
          /\ disk' = Patched(Loaded(s), patch)
    BY <1>3 DEF Update, Save, InMemory
  <2>2. Loaded(s) \in Job /\ Loaded(s).last <= now
    BY <1>3, JobsHere, JobFacts DEF Update, SlotSound
  <2>3. SlotSound(Patched(Loaded(s), patch))
    BY <2>2, JobsHere, PatchedSlot
  <2>4. QED
    BY <1>2, <1>3, <2>1, <2>3, SaveSlot DEF KeepsDueSlot, Explained
<1>4. CASE AddOther(s)
  <2>1. SlotSound(Recompute(Loaded(s)))
    BY JobsHere, MaintainSlot
  <2>2. mem' = [mem EXCEPT ![s] = Recompute(Loaded(s))] /\ disk' = Recompute(Loaded(s))
    BY <1>4 DEF AddOther, Save, InMemory
  <2>3. QED
    BY <1>2, <1>4, <2>1, <2>2, SaveSlot DEF KeepsDueSlot, Explained
<1>5. CASE Remove(s)
  <2>1. mem' = [mem EXCEPT ![s] = NoJob] /\ disk' = NoJob
    BY <1>5 DEF Remove, Save, InMemory
  <2>2. SlotSound(NoJob) /\ KeepsDueSlot(s)
    BY <2>1, JobFacts DEF SlotSound, KeepsDueSlot
  <2>3. QED
    BY <1>2, <2>1, <2>2, SaveSlot
<1>6. CASE EditOther(s) \/ BeginOther(s)
  <2>1. PICK k \in {Loaded(s), Maintain(Loaded(s), FALSE)} :
          mem' = [mem EXCEPT ![s] = k] /\ disk' = k
    BY <1>6 DEF EditOther, BeginOther, Save, InMemory
  <2>2. SameSlot(Loaded(s), k)
    BY <2>1, JobsHere, MaintainSlot DEF SameSlot
  <2>3. QED
    BY <1>2, <2>1, <2>2, CopySlot
<1>7. QED
  BY <1>3, <1>4, <1>5, <1>6

\* A run of another job ends as an idle tick does: over the file.
LEMMA EndOtherSlot ==
  ASSUME CInv, NEW s \in Services, EndOther(s)
  PROVE  SlotStep(s)
<1> DEFINE k == Maintain(disk, TRUE)
           tick == run[s]["tick"]
<1>1. /\ s = 1 /\ UNCHANGED <<now, current>> /\ causes \subseteq causes'
      /\ s # current => "overlap" \in causes'
      /\ mem' = [mem EXCEPT ![s] = k] /\ disk' = k
      /\ run' = [run EXCEPT ![s]["tick"] = Detached(tick)]
  BY DEF EndOther, Save, InMemory, Touched, Serves
<1>2. /\ "tick" \in Workers /\ tick \in RunRecord /\ RunSound(tick) /\ CronTypeOK
  BY Unchanged DEF CInv, SlotInv, RunsSound, Workers
<1>3. Detached(tick) \in RunRecord /\ RunSound(Detached(tick))
  BY <1>2 DEF Detached, RunRecord, RunSound, Stages
<1>4. RunIs(s, "tick", Detached(tick))
  BY <1>1, <1>2, <1>3, RunUpdate
<1>5. SlotFrame(s)
  BY <1>1, <1>2, <1>3, <1>4, OneRunSound DEF SlotFrame, Acts
<1>6. SlotSound(k)
  BY JobsHere, MaintainSlot
<1>7. KeepsDueSlot(s)
  BY <1>1, JobsHere, JobFacts, IdleTickSlot DEF KeepsDueSlot, Due
<1>8. QED
  BY <1>1, <1>5, <1>6, <1>7, SaveSlot


-----------------------------------------------------------------------------
(* No due slot is given up.                                                *)

LEMMA SlotStepKeeps ==
  ASSUME CInv, NEW s \in Services, SlotStep(s)
  PROVE  SlotInv'
<1>1. SlotSound(disk)' /\ \A t \in Services : SlotSound(mem[t])'
  BY DEF SlotStep, SlotSound, CInv, SlotInv
<1>2. Together' => Follows(current)'
  <2>1. Together' => "overlap" \notin causes /\ "overlap" \notin causes'
    BY DEF SlotStep, Together
  <2>2. Together' => s = current
    BY <2>1, ActingIsCurrent DEF SlotStep
  <2>3. QED
    BY <2>1, <2>2 DEF SlotStep, Follows
<1>3. QED
  BY <1>1, <1>2 DEF SlotStep, SlotInv

\* Replacement, death and time: the service that takes over has not loaded its store yet.
LEMMA OtherStepsKeepSlots ==
  ASSUME CInv, Replace \/ Crash \/ SlotPasses \/ UNCHANGED vars
  PROVE  SlotInv' /\ disk' = disk
<1>1. now \in Nat /\ (\A j \in Job : j.last \in Nat) /\ JobsSound
      /\ run \in [Services -> [Workers -> RunRecord]] /\ \A t \in Slots : t \in Nat
  BY Unchanged, Times, Present DEF CInv
<1>2. CASE Replace
  <2>1. /\ current = 1 /\ current' = 2 /\ causes \subseteq causes'
        /\ UNCHANGED <<now, disk, mem, run>>
    BY <1>2 DEF Replace
  <2>2. mem[2] = NotLoaded
    BY <2>1 DEF CInv, CronInv, ReplacementSound
  <2>3. QED
    BY <2>1, <2>2 DEF CInv, SlotInv, SlotSound, RunsSound, RunSound, Follows
<1>3. CASE Crash
  <2>1. /\ UNCHANGED <<now, disk>> /\ current' \in Services
        /\ mem' = [s \in Services |-> NotLoaded]
        /\ run' = [s \in Services |-> [w \in Workers |-> NoRun]]
    BY <1>3 DEF Crash, Services
  <2>2. RunsSound'
    BY <2>1, Unchanged, IdleRunSound DEF RunsSound, RunSound, CInv
  <2>3. \A s \in Services : mem'[s] = NotLoaded
    BY <2>1
  <2>4. \A s \in Services : SlotSound(mem[s])'
    BY <2>3, JobFacts DEF SlotSound
  <2>5. QED
    BY <2>1, <2>2, <2>3, <2>4 DEF CInv, SlotInv, SlotSound, Follows
<1>4. CASE SlotPasses
  <2>1. now' = now + 1 /\ UNCHANGED <<disk, mem, run, current, causes>>
    BY <1>4 DEF SlotPasses
  <2>2. ASSUME NEW j \in Job \cup {NoJob, NotLoaded}, SlotSound(j)
        PROVE  IsJob(j) => j.last <= now'
    <3>1. SUFFICES ASSUME j \in Job, IsJob(j)
                   PROVE  j.last <= now'
      BY <2>2 DEF IsJob
    <3>2. j.last \in Nat /\ j.last <= now
      BY <1>1, <2>2, <3>1 DEF SlotSound
    <3>3. QED
      BY <1>1, <2>1, <3>2
  <2>3. SlotSound(disk)' /\ \A s \in Services : SlotSound(mem[s])'
    <3>1. disk \in Job \cup {NoJob, NotLoaded}
          /\ \A s \in Services : mem[s] \in Job \cup {NoJob, NotLoaded}
      BY JobsHere DEF Services
    <3>2. QED
      BY <2>1, <2>2, <3>1 DEF CInv, SlotInv, SlotSound
  <2>4. RunsSound'
    <3>1. SUFFICES ASSUME NEW s \in Services, NEW w \in Workers
                   PROVE  RunSound(run[s][w])'
      BY DEF RunsSound
    <3>2. /\ run[s][w].start \in Nat /\ run[s][w].end \in Nat /\ RunSound(run[s][w])
      BY <1>1 DEF CInv, SlotInv, RunsSound, RunRecord
    <3>3. QED
      BY <1>1, <2>1, <3>2 DEF RunSound
  <2>5. QED
    BY <2>1, <2>3, <2>4 DEF CInv, SlotInv, Follows, Together
<1>5. CASE UNCHANGED vars
  BY <1>5 DEF vars, CInv, SlotInv, SlotSound, RunsSound, RunSound, Follows, Together
<1>6. QED
  BY <1>2, <1>3, <1>4, <1>5

\* What a service does, but for calls that may only read.
Works(s) ==
  \/ StartStep(s) \/ OnTimer(s) \/ OnTimerBusy(s) \/ TickStep(s) \/ ManualStep(s)
  \/ Update(s) \/ Remove(s) \/ AddOther(s) \/ EditOther(s) \/ BeginOther(s) \/ EndOther(s)
  \/ \E w \in Workers : BeginRun(s, w) \/ EndRun(s, w)

Reads(s) == Read(s) \/ \E mode \in {"due", "force"} : Preflight(s, mode)

LEMMA WorksSlot ==
  ASSUME CInv, NEW s \in Services, Works(s)
  PROVE  SlotStep(s)
<1>1. CASE StartStep(s) \/ OnTimer(s) \/ OnTimerBusy(s) \/ TickStep(s) \/ ManualStep(s)
  BY <1>1, ClearMarkersSlot, PlanStartupCatchupSlot, ApplyStartupCatchupSlot, FinishStartSlot,
     QuietSteps, CollectSlot, ApplyOutcomesSlot, PrepareManualRunSlot, FinishManualRunSlot
     DEF StartStep, TickStep, ManualStep
<1>2. CASE ~(StartStep(s) \/ OnTimer(s) \/ OnTimerBusy(s) \/ TickStep(s) \/ ManualStep(s))
  BY <1>2, CallSlot, EndOtherSlot, BeginRunSlot, EndRunSlot DEF Works
<1>3. QED
  BY <1>1, <1>2

LEMMA NextCases ==
  ASSUME [Next]_vars
  PROVE  \/ \E s \in Services : Works(s) \/ Reads(s)
         \/ Replace \/ Crash \/ SlotPasses \/ UNCHANGED vars
BY DEF Next, Works, Reads

LEMMA ServicesKeepSlots ==
  ASSUME CInv, [Next]_vars
  PROVE  (\E s \in Services : SlotStep(s)) \/ (SlotInv' /\ disk' = disk)
<1>1. ASSUME NEW s \in Services, Reads(s)
      PROVE  SlotStep(s) \/ (SlotInv' /\ disk' = disk)
  BY <1>1, ReadSlot, PreflightSlot DEF Reads
<1>2. QED
  BY <1>1, NextCases, WorksSlot, OtherStepsKeepSlots

LEMMA InitSlotInv == Init => SlotInv
<1> SUFFICES ASSUME Init PROVE SlotInv
  OBVIOUS
<1>1. PICK kind \in Kinds : disk = NewJob(kind)
  BY DEF Init
<1>2. SlotSound(disk) /\ \A s \in Services : SlotSound(mem[s])
  BY <1>1, JobFacts DEF Init, NewJob, SlotSound, None
<1>3. RunsSound
  BY DEF Init, RunsSound, RunSound, NoRun, None
<1>4. Follows(current)
  BY DEF Init, Follows, Services
<1>5. QED
  BY <1>2, <1>3, <1>4 DEF SlotInv

LEMMA SlotInductive == Spec => []CInv
<1>1. Init => CInv
  BY InitCronInv, InitSlotInv DEF CInv
<1>2. CInv /\ [Next]_vars => CInv'
  BY NextKeepsCronInv, ServicesKeepSlots, SlotStepKeeps DEF CInv
<1>3. QED
  BY <1>1, <1>2, PTL DEF Spec


-----------------------------------------------------------------------------
(* What the start of a service looked at.                                  *)

\* The job waits for a slot later than t, or is marked, or is a one-shot at its time.
KeptFrom(t, j) == Waits(j) /\ j.next <= t => Marked(j) \/ (j.kind = "at" /\ j.next = j.at)

\* From its look for missed slots to its end, the start of s leaves none behind that had
\* passed by then: the job is deferred, or marked for a run that ends later.
LookedSound(s) ==
  looked[s] # None =>
    /\ \/ At(s, "catchup", "deferred")
       \/ KeptFrom(looked[s], disk) /\ KeptFrom(looked[s], mem[s])
    /\ \A w \in Workers : At(s, w, "ended") => run[s][w].end >= looked[s]

LookedInv ==
  /\ \A s \in Services : looked[s] <= now
  /\ causes = {} => LookedSound(current)

\* The slot of a job that is computed anew lies ahead.
LEMMA KeptWithNext ==
  ASSUME CronTypeOK, NEW j \in Job, NEW t \in Nat, t <= now
  PROVE  KeptFrom(t, WithNext(j))
<1> DEFINE k == WithNext(j)
<1>1. ComputeNext(j, now) \in Slots
  BY Times DEF Job, ComputeNext
<1>2. k \in Job /\ k.next = ComputeNext(j, now) /\ k.kind = j.kind /\ k.at = j.at
  BY <1>1 DEF Job, WithNext
<1> HIDE DEF k
<1>3. k.next = None \/ (k.kind = "at" /\ k.next = k.at) \/ k.next = AtMost(now + 1)
  BY <1>2 DEF ComputeNext
<1>4. now \in Nat /\ AtMost(now + 1) \in Nat /\ AtMost(now + 1) > now
  BY Present, Times
<1>5. KeptFrom(t, k)
  BY <1>3, <1>4 DEF KeptFrom, Waits
<1>6. QED
  BY <1>5 DEF k

\* Maintenance that clears no marker.
LEMMA KeptMaintained ==
  ASSUME CronTypeOK, NEW j \in Job \cup {NoJob}, SlotSound(j), NEW t \in Nat, t <= now,
         KeptFrom(t, j), ClearedBy(j) = {}
  PROVE  KeptFrom(t, Recompute(j)) /\ \A b \in BOOLEAN : KeptFrom(t, Maintain(j, b))
<1>1. CASE j = NoJob
  BY <1>1, JobFacts DEF Maintain, Recompute, KeptFrom, Waits
<1>2. CASE j \in Job
  <2> DEFINE n == Normalize(j)
  <2>1. IsJob(j) /\ n \in Job /\ n.kind = j.kind /\ n.at = j.at /\ n.enabled = j.enabled
    BY <1>2, NormalizeSlot, JobFacts
  <2>2. Marked(j) => Marked(n)
    BY <2>1, JobFacts DEF ClearedBy, Marked
  <2>3. Waits(n) => Waits(j) /\ n.next = j.next
    BY <2>1 DEF Normalize, Waits
  <2>4. KeptFrom(t, n) /\ KeptFrom(t, WithNext(n))
    BY <2>1, <2>2, <2>3, KeptWithNext DEF KeptFrom
  <2>5. Recompute(j) \in {n, WithNext(n)} /\ \A b \in BOOLEAN : Maintain(j, b) \in {n, WithNext(n)}
    BY <2>1 DEF Maintain, Recompute
  <2>6. QED
    BY <2>4, <2>5
<1>3. QED
  BY <1>1, <1>2

LEMMA KeptPatched ==
  ASSUME CronTypeOK, NEW j \in Job, NEW t \in Nat, t <= now,
         NEW patch \in {"enable", "disable", "reschedule"}
  PROVE  KeptFrom(t, Patched(j, patch))
<1> DEFINE p == [j EXCEPT !.enabled = CASE patch = "enable" -> TRUE
                                        [] patch = "disable" -> FALSE
                                        [] OTHER -> @,
                          !.at = IF j.kind = "at" /\ patch = "reschedule"
                                 THEN AtMost(now + 1) ELSE @]
           q == [p EXCEPT !.next = None, !.mark = None]
<1>1. p \in Job
  BY Present DEF Job
<1>2. q.next = None
  BY <1>1 DEF Job
<1>3. Patched(j, patch) = IF p.enabled THEN WithNext(p) ELSE q
  BY DEF Patched
<1> HIDE DEF p, q
<1>4. QED
  BY <1>1, <1>2, <1>3, KeptWithNext DEF KeptFrom, Waits

\* A run that ends leaves a slot that lies after its end.
LEMMA KeptApplied ==
  ASSUME CronTypeOK, NEW j \in Job \cup {NoJob}, NEW r, r.start \in Slots, r.end \in Slots,
         r.end <= now, NEW a \in Applied(j, r)
  PROVE  IsJob(a) => a.next = None \/ a.next > r.end
<1>1. CASE j = NoJob
  BY <1>1, JobFacts DEF Applied
<1>2. CASE j \in Job
  <2>1. \A d \in {1, 2} : AtMost(r.end + d) > r.end /\ AtMost(r.end + d) \in Slots
    BY Present, Times
  <2>2. ASSUME NEW result \in {"ok", "error"}, NEW d \in {1, 2}
        PROVE  LET done == [j EXCEPT !.mark = None, !.last = r.start, !.status = result]
                   next == [done EXCEPT !.next = AtMost(r.end + d)]
                   disabled == [done EXCEPT !.enabled = FALSE, !.next = None]
               IN  next.next = AtMost(r.end + d) /\ disabled.next = None
    <3> DEFINE done == [j EXCEPT !.mark = None, !.last = r.start, !.status = result]
    <3>1. done \in Job
      BY <1>2, Times DEF Job
    <3> HIDE DEF done
    <3>2. [done EXCEPT !.next = AtMost(r.end + d)].next = AtMost(r.end + d)
          /\ [done EXCEPT !.enabled = FALSE, !.next = None].next = None
      BY <3>1 DEF Job
    <3>3. QED
      BY <3>2 DEF done
  <2>3. a = NoJob \/ a.next = None \/ a.next > r.end
    BY <1>2, <2>1, <2>2, JobFacts DEF Applied
  <2>4. QED
    BY <2>3, JobFacts
<1>3. QED
  BY <1>1, <1>2

\* What holds of the service whose start is under way, before a step that changes no cause.
Looking(s) ==
  /\ CInv /\ s \in Services /\ s = current /\ causes = {} /\ causes' = {}
  /\ looked[s] # None /\ looked[s] <= now /\ LookedSound(s)

\* A job that is kept if those in the file and in memory are.
KeptBy(s, k) ==
  KeptFrom(looked[s], disk) /\ KeptFrom(looked[s], mem[s]) => KeptFrom(looked[s], k)

LEMMA LookingFacts ==
  ASSUME NEW s, Looking(s)
  PROVE  /\ looked[s] \in Nat /\ looked[s] <= now /\ phase[s] \in {"catchup", "arm"}
         /\ mem[s] # NotLoaded /\ Loaded(s) = mem[s]
         /\ mem[s] \in Job \cup {NoJob} /\ disk \in Job \cup {NoJob}
         /\ SlotSound(mem[s]) /\ SlotSound(disk) /\ CronTypeOK
         /\ now \in Slots /\ now # None
<1>1. phase[s] \in {"catchup", "arm"} /\ mem[s] # NotLoaded
  BY DEF Looking, CInv, CronInv, StartSound
<1>2. looked[s] \in Nat
  BY Unchanged, CronAssumption DEF Looking, CInv, None
<1>3. QED
  BY <1>1, <1>2, JobsHere DEF Looking

\* What the steps of such a service make of the job.
LEMMA KeptJobs ==
  ASSUME NEW s, Looking(s)
  PROVE  /\ KeptBy(s, disk) /\ KeptBy(s, mem[s]) /\ KeptBy(s, NoJob)
         /\ \A j \in {disk, mem[s]} :
              /\ ClearedBy(j) = {} =>
                   KeptBy(s, Recompute(j)) /\ \A b \in BOOLEAN : KeptBy(s, Maintain(j, b))
              /\ IsJob(j) => \A t \in Slots \ {None} : KeptBy(s, [j EXCEPT !.mark = t])
              /\ IsJob(j) => \A patch \in {"enable", "disable", "reschedule"} :
                               KeptBy(s, Patched(j, patch))
<1>1. KeptBy(s, disk) /\ KeptBy(s, mem[s]) /\ KeptBy(s, NoJob)
  BY JobFacts DEF KeptBy, KeptFrom, Waits
<1>2. ASSUME NEW j \in {disk, mem[s]}, ClearedBy(j) = {}
      PROVE  KeptBy(s, Recompute(j)) /\ \A b \in BOOLEAN : KeptBy(s, Maintain(j, b))
  BY <1>2, LookingFacts, KeptMaintained DEF KeptBy
<1>3. ASSUME NEW j \in {disk, mem[s]}, IsJob(j), NEW t \in Slots \ {None}
      PROVE  KeptBy(s, [j EXCEPT !.mark = t])
  <2>1. j \in Job /\ [j EXCEPT !.mark = t] \in Job /\ [j EXCEPT !.mark = t].mark = t
    BY <1>3, LookingFacts, JobFacts DEF Job
  <2>2. QED
    BY <2>1, JobFacts DEF KeptBy, KeptFrom, Marked
<1>4. ASSUME NEW j \in {disk, mem[s]}, IsJob(j), NEW patch \in {"enable", "disable", "reschedule"}
      PROVE  KeptBy(s, Patched(j, patch))
  BY <1>4, LookingFacts, JobFacts, KeptPatched DEF KeptBy
<1>5. QED
  BY <1>1, <1>2, <1>3, <1>4

\* The end of a run, in memory, over the file, or over both.
LEMMA KeptResults ==
  ASSUME NEW s, Looking(s), NEW w \in Workers, At(s, w, "ended"),
         NEW j \in {disk, mem[s]}, NEW a \in Applied(j, run[s][w]),
         NEW m \in {a, Merge(disk, a)}, ClearedBy(m) = {}
  PROVE  \A b \in BOOLEAN : KeptFrom(looked[s], Maintain(m, b))
<1> DEFINE r == run[s][w]
<1>1. /\ r.start \in Slots /\ r.end \in Slots /\ r.end <= now /\ looked[s] <= r.end
      /\ r.stage = "ended" /\ r.end \in Nat
  BY Unchanged, Times DEF Looking, CInv, SlotInv, RunsSound, RunSound, LookedSound, At, RunRecord
<1>2. /\ a \in Job \cup {NoJob} /\ SlotSound(a)
      /\ IsJob(a) => a.last <= now /\ (a.next # None => a.next > a.last)
  BY <1>1, LookingFacts, ResultSlot DEF Looking
<1>3. IsJob(a) => a.next = None \/ a.next > r.end
  BY <1>1, LookingFacts, KeptApplied
<1>4. m \in Job \cup {NoJob} /\ SlotSound(m)
  BY <1>2, LookingFacts, MergeSlot
<1>5. IsJob(m) => m.next = None \/ m.next > r.end
  <2>1. CASE m = a
    BY <1>3, <2>1
  <2>2. CASE m # a /\ IsJob(m)
    <3>1. a # NoJob /\ disk # NoJob /\ m = [a EXCEPT !.kind = disk.kind, !.at = disk.at]
      BY <2>2, JobFacts DEF Merge
    <3>2. a \in Job /\ IsJob(a) /\ m.next = a.next
      BY <1>2, <3>1, JobFacts DEF Job
    <3>3. QED
      BY <1>3, <3>2
  <2>3. QED
    BY <2>1, <2>2
<1>6. KeptFrom(looked[s], m)
  <2>1. m \in Job => m.next \in Nat /\ looked[s] \in Nat /\ IsJob(m)
    BY LookingFacts, Present
  <2>2. QED
    BY <1>1, <1>4, <1>5, <2>1, JobFacts DEF KeptFrom, Waits
<1>7. QED
  BY <1>4, <1>6, LookingFacts, KeptMaintained

\* The runs of such a service end later than its look, and the deferral stays until it is
\* applied.
RunsLater(s) ==
  /\ \A w \in Workers : At(s, w, "ended")' => run'[s][w].end >= looked[s]
  /\ At(s, "catchup", "deferred") => At(s, "catchup", "deferred")'

LEMMA LaterRun ==
  ASSUME NEW s, Looking(s), NEW w \in Workers, NEW q, RunIs(s, w, q),
         q.stage = "ended" => q.end = now, ~(w = "catchup" /\ At(s, w, "deferred"))
  PROVE  RunsLater(s)
<1>1. \A v \in Workers : v # w => run'[s][v] = run[s][v]
  BY DEF RunIs
<1>2. run'[s][w] = q /\ "catchup" \in Workers
  BY DEF RunIs, Workers
<1>3. QED
  BY <1>1, <1>2 DEF Looking, LookedSound, RunsLater, At

LEMMA LaterStep ==
  ASSUME NEW s, Looking(s), looked' = looked, RunsLater(s),
         KeptBy(s, disk'), KeptBy(s, mem'[s])
  PROVE  LookedSound(s)'
BY DEF Looking, LookedSound, KeptBy, RunsLater, KeptFrom, Marked, Waits

LEMMA PlanLooks ==
  ASSUME CInv, NEW s \in Services, s = current, causes = {}, PlanStartupCatchup(s)
  PROVE  LookedSound(s)'
<1> SUFFICES ASSUME looked'[s] # None PROVE LookedSound(s)'
  BY DEF LookedSound
<1> DEFINE j == mem[s]
<1>1. /\ phase[s] = "plan" /\ IsJob(j) /\ j.mark = None /\ ~Finished(j) /\ looked'[s] = now
  BY Unchanged DEF PlanStartupCatchup, CInv
<1>2. /\ j \in Job /\ "catchup" \in Workers /\ {"queued", "deferred", "others"} \subseteq Stages
      /\ now \in Slots \ {None}
  BY <1>1, JobsHere, JobFacts DEF IsJob, Workers, Stages
<1>3. \A w \in Workers : ~At(s, w, "ended")
  BY <1>1, JobFacts DEF CInv, CronInv, MarkersSound, TakenIsMarked, MarkedOrGone, Marked, Taken,
     Active, At
<1>4. \A w \in Workers : ~At(s, w, "ended")'
  <2>1. CASE \E x \in {"queued", "deferred", "others"} : Goto(s, "catchup", x)
    <3>1. PICK x \in {"queued", "deferred", "others"} : Goto(s, "catchup", x)
      BY <2>1
    <3>2. RunIs(s, "catchup", [run[s]["catchup"] EXCEPT !.stage = x])
          /\ run'[s]["catchup"].stage = x
      BY <1>2, <3>1, GotoStep DEF CInv
    <3>3. QED
      BY <1>3, <3>2 DEF RunIs, At
  <2>2. CASE UNCHANGED run
    BY <1>3, <2>2 DEF At
  <2>3. QED
    BY <2>1, <2>2 DEF PlanStartupCatchup
<1>5. CASE TRUE \in Missed(j) /\ Save(s, [j EXCEPT !.mark = now])
  <2>1. mem'[s] = [j EXCEPT !.mark = now] /\ disk' = [j EXCEPT !.mark = now]
    BY <1>5, Unchanged DEF Save, InMemory, CInv
  <2>2. [j EXCEPT !.mark = now] \in Job /\ [j EXCEPT !.mark = now].mark = now
    BY <1>2 DEF Job
  <2>3. QED
    BY <1>2, <1>4, <2>1, <2>2, JobFacts DEF LookedSound, KeptFrom, Marked
<1>6. CASE Goto(s, "catchup", "deferred")
  <2>1. run'[s]["catchup"].stage = "deferred"
    BY <1>2, <1>6, GotoStep DEF CInv
  <2>2. QED
    BY <1>4, <2>1 DEF LookedSound, At
<1>7. CASE FALSE \in Missed(j) /\ UNCHANGED mem /\ disk' \in {j, disk}
  <2>1. ~(Waits(j) /\ j.next <= now)
    BY <1>1, <1>7 DEF Missed, Waits, Past
  <2>2. ~(Waits(disk) /\ disk.next <= now)
    BY <1>1, <2>1, JobFacts DEF CInv, SlotInv, Together, Follows, IsJob
  <2>3. QED
    BY <1>1, <1>4, <1>7, <2>1, <2>2 DEF LookedSound, KeptFrom, Waits
<1>8. PICK missed \in Missed(j) :
        IF missed
        THEN Save(s, [j EXCEPT !.mark = now]) \/ Goto(s, "catchup", "deferred")
        ELSE UNCHANGED mem /\ disk' \in {j, disk}
  BY <1>1 DEF PlanStartupCatchup
<1>9. missed \in BOOLEAN
  BY DEF Missed
<1>10. QED
  BY <1>5, <1>6, <1>7, <1>8, <1>9

LEMMA ApplyLooks ==
  ASSUME NEW s, Looking(s), ApplyStartupCatchup(s)
  PROVE  LookedSound(s)'
<1> DEFINE r == run[s]["catchup"]
<1>1. /\ r.stage \in {"ended", "deferred", "others"} /\ looked' = looked
      /\ Ends(s, "catchup") /\ "catchup" \in Workers /\ s \in Services
  BY DEF ApplyStartupCatchup, Workers, Looking
<1>2. PICK j : /\ \/ r.stage = "ended" /\ j \in Applied(mem[s], r)
                  \/ /\ r.stage = "deferred"
                     /\ \/ IsJob(mem[s]) /\ j = [mem[s] EXCEPT !.next = AtMost(now + 1)]
                        \/ j = mem[s] /\ ~(IsJob(mem[s]) /\ mem[s].enabled)
                  \/ r.stage = "others" /\ j = mem[s]
               /\ mem' = [mem EXCEPT ![s] = Maintain(j, FALSE)]
               /\ disk' = Maintain(j, FALSE) /\ ClearedBy(j) = {}
  BY <1>1 DEF ApplyStartupCatchup, Save, InMemory, Looking
<1>3. mem'[s] = Maintain(j, FALSE)
  BY <1>2, Unchanged DEF Looking, CInv
<1>4. \A w \in Workers : At(s, w, "ended")' => run'[s][w].end >= looked[s]
  <2>1. RunIs(s, "catchup", NoRun) /\ run'[s]["catchup"].stage = "none"
    BY <1>1, EndsStep DEF Looking, CInv
  <2>2. QED
    BY <2>1 DEF RunIs, At, Looking, LookedSound
<1>5. KeptFrom(looked[s], Maintain(j, FALSE))
  <2>1. CASE r.stage = "ended" /\ j \in Applied(mem[s], r)
    BY <1>1, <1>2, <2>1, KeptResults DEF At
  <2>2. CASE r.stage = "deferred"
    <3>1. CASE IsJob(mem[s]) /\ j = [mem[s] EXCEPT !.next = AtMost(now + 1)]
      <4>1. /\ mem[s] \in Job /\ mem[s].last \in Nat /\ mem[s].last <= now /\ now \in Nat
            /\ AtMost(now + 1) \in Slots /\ AtMost(now + 1) \in Nat /\ AtMost(now + 1) > now
        BY <3>1, LookingFacts, JobFacts, Present, Times DEF SlotSound, IsJob
      <4>2. j \in Job /\ j.next = AtMost(now + 1) /\ j.last = mem[s].last
        BY <3>1, <4>1 DEF Job
      <4>3. SlotSound(j) /\ KeptFrom(looked[s], j)
        BY <4>1, <4>2, LookingFacts DEF SlotSound, KeptFrom
      <4>4. QED
        BY <1>2, <4>2, <4>3, LookingFacts, KeptMaintained
    <3>2. CASE j = mem[s] /\ ~(IsJob(mem[s]) /\ mem[s].enabled)
      <4>1. KeptFrom(looked[s], j)
        BY <3>2 DEF KeptFrom, Waits
      <4>2. QED
        BY <1>2, <3>2, <4>1, LookingFacts, KeptMaintained
    <3>3. QED
      BY <1>2, <2>2, <3>1, <3>2
  <2>3. CASE r.stage = "others" /\ j = mem[s]
    BY <1>2, <2>3, LookingFacts, KeptMaintained DEF Looking, LookedSound, At
  <2>4. QED
    BY <1>2, <2>1, <2>2, <2>3
<1>6. QED
  BY <1>1, <1>2, <1>3, <1>4, <1>5 DEF LookedSound, KeptFrom, Waits, Marked

LEMMA TickLooks ==
  ASSUME NEW s, Looking(s),
         OnTimer(s) \/ OnTimerBusy(s) \/ TickStep(s)
  PROVE  LookedSound(s)'
<1>1. looked' = looked /\ s \in Services /\ "tick" \in Workers /\ "closing" \in Stages
      /\ CInv /\ CronInv /\ CronTypeOK
  BY LookingFacts DEF OnTimer, OnTimerBusy, TickStep, CollectDue, CollectOthers, ApplyOutcomes,
     CloseTick, Workers, Stages, Looking, CInv
<1>2. RunsLater(s)
  <2>1. CASE \E x \in {"begin", "queued", "closing", "others"} : Goto(s, "tick", x)
    <3>1. PICK x \in {"begin", "queued", "closing", "others"} : Goto(s, "tick", x)
      BY <2>1
    <3>2. x \in Stages
      BY DEF Stages
    <3>3. RunIs(s, "tick", [run[s]["tick"] EXCEPT !.stage = x])
          /\ run'[s]["tick"].stage = x
      BY <1>1, <3>1, <3>2, GotoStep
    <3>4. QED
      BY <1>1, <3>3, LaterRun DEF RunIs
  <2>2. CASE Ends(s, "tick")
    BY <1>1, <2>2, EndsStep, LaterRun DEF RunIs
  <2>3. CASE UNCHANGED run
    BY <2>3 DEF RunsLater, Looking, LookedSound, At
  <2>4. CASE run' = [run EXCEPT ![s]["tick"] = [NoRun EXCEPT !.stage = "closing"]]
    <3>1. RunIs(s, "tick", [NoRun EXCEPT !.stage = "closing"])
      BY <1>1, <2>4, IdleRunSound, RunUpdate
    <3>2. QED
      BY <1>1, <3>1, LaterRun DEF NoRun
  <2>5. QED
    BY <2>1, <2>2, <2>3, <2>4 DEF OnTimer, OnTimerBusy, TickStep, CollectDue, CollectOthers,
       ApplyOutcomes, CloseTick
<1>3. CASE OnTimer(s) \/ OnTimerBusy(s) \/ CloseTick(s)
  <2>1. UNCHANGED <<disk, mem>>
    BY <1>3 DEF OnTimer, OnTimerBusy, CloseTick
  <2>2. QED
    BY <1>1, <1>2, <2>1, KeptJobs, LaterStep
<1>4. CASE CollectDue(s)
  <2>1. /\ mem' = [mem EXCEPT ![s] = [disk EXCEPT !.mark = now]] /\ IsJob(disk)
        /\ disk' \in {disk, [disk EXCEPT !.mark = now]}
    BY <1>4 DEF CollectDue, Save, InMemory, Runnable, Due
  <2>2. mem'[s] = [disk EXCEPT !.mark = now]
    BY <1>1, <2>1, Unchanged
  <2>3. QED
    BY <1>1, <1>2, <2>1, <2>2, KeptJobs, LookingFacts, LaterStep
<1>5. CASE CollectOthers(s)
  <2>1. PICK k : /\ mem' = [mem EXCEPT ![s] = k] /\ disk' = k
                 /\ k = disk \/ (k = Maintain(disk, TRUE) /\ ClearedBy(disk) = {})
    BY <1>5 DEF CollectOthers, Save, InMemory, Looking
  <2>2. mem'[s] = k
    BY <1>1, <2>1, Unchanged
  <2>3. QED
    BY <1>1, <1>2, <2>1, <2>2, KeptJobs, LaterStep
<1>6. CASE ApplyOutcomes(s)
  <2> DEFINE r == run[s]["tick"]
  <2>1. PICK j : /\ \/ r.stage = "ended" /\ j \in Applied(disk, r)
                    \/ r.stage = "others" /\ j = disk
                 /\ mem' = [mem EXCEPT ![s] = Maintain(j, FALSE)]
                 /\ disk' = Maintain(j, FALSE) /\ ClearedBy(j) = {}
    BY <1>6 DEF ApplyOutcomes, Save, InMemory, Looking
  <2>2. mem'[s] = Maintain(j, FALSE)
    BY <1>1, <2>1, Unchanged
  <2>3. KeptBy(s, Maintain(j, FALSE))
    <3>1. CASE r.stage = "ended" /\ j \in Applied(disk, r)
      BY <1>1, <2>1, <3>1, KeptResults DEF At, KeptBy
    <3>2. CASE j = disk
      BY <2>1, <3>2, KeptJobs
    <3>3. QED
      BY <2>1, <3>1, <3>2
  <2>4. QED
    BY <1>1, <1>2, <2>1, <2>2, <2>3, LaterStep
<1>7. QED
  BY <1>3, <1>4, <1>5, <1>6 DEF TickStep

LEMMA RunLooks ==
  ASSUME NEW s, Looking(s), NEW w \in Workers, BeginRun(s, w) \/ EndRun(s, w)
  PROVE  LookedSound(s)'
<1>1. /\ looked' = looked /\ disk' = disk /\ s \in Services /\ CInv /\ CronInv /\ CronTypeOK
      /\ run[s][w] \in RunRecord /\ now \in Slots \ {None}
  BY LookingFacts, Unchanged DEF BeginRun, EndRun, Looking, CInv
<1>2. PICK q \in RunRecord : /\ run' = [run EXCEPT ![s][w] = q] /\ ~At(s, w, "deferred")
                             /\ q.stage = "ended" => q.end = now
  <2>1. CASE BeginRun(s, w)
    <3> DEFINE q == [run[s][w] EXCEPT !.stage = "executing", !.start = now]
    <3>1. q \in RunRecord /\ q.stage = "executing"
      BY <1>1 DEF RunRecord, Stages
    <3>2. run' = [run EXCEPT ![s][w] = q] /\ run[s][w].stage \in {"queued", "detached"}
      BY <2>1 DEF BeginRun
    <3>3. ~At(s, w, "deferred")
      BY <3>2 DEF At
    <3> HIDE DEF q
    <3>4. QED
      BY <3>1, <3>2, <3>3
  <2>2. CASE EndRun(s, w)
    <3> DEFINE q == [run[s][w] EXCEPT !.stage = "ended", !.end = now]
    <3>1. q \in RunRecord /\ q.end = now
      BY <1>1 DEF RunRecord, Stages
    <3>2. run' = [run EXCEPT ![s][w] = q] /\ run[s][w].stage = "executing"
      BY <2>2 DEF EndRun, At
    <3>3. ~At(s, w, "deferred")
      BY <3>2 DEF At
    <3> HIDE DEF q
    <3>4. QED
      BY <3>1, <3>2, <3>3
  <2>3. QED
    BY <2>1, <2>2
<1>3. RunsLater(s)
  <2>1. RunIs(s, w, q)
    BY <1>1, <1>2, RunUpdate
  <2>2. QED
    BY <1>2, <2>1, LaterRun
<1>4. mem'[s] = mem[s] \/ (IsJob(mem[s]) /\ mem'[s] = [mem[s] EXCEPT !.mark = now])
  BY <1>1, Unchanged DEF BeginRun, EndRun, InMemory
<1>5. KeptBy(s, disk') /\ KeptBy(s, mem'[s])
  BY <1>1, <1>4, KeptJobs
<1>6. QED
  BY <1>1, <1>3, <1>5, LaterStep

LEMMA ManualLooks ==
  ASSUME NEW s, Looking(s), ManualStep(s)
  PROVE  LookedSound(s)'
<1>1. /\ looked' = looked /\ s \in Services /\ "manual" \in Workers /\ "tick" \in Workers
      /\ "executing" \in Stages /\ CInv /\ CronInv /\ CronTypeOK
  BY LookingFacts DEF ManualStep, PrepareManualRun, FinishManualRun, Workers, Stages, Looking,
     CInv
<1>2. CASE PrepareManualRun(s)
  <2>1. RunsLater(s)
    <3>1. CASE Goto(s, "manual", "executing")
      <4>1. RunIs(s, "manual", [run[s]["manual"] EXCEPT !.stage = "executing"])
            /\ run'[s]["manual"].stage = "executing"
        BY <1>1, <3>1, GotoStep
      <4>2. QED
        BY <1>1, <4>1, LaterRun DEF RunIs
    <3>2. CASE Ends(s, "manual")
      BY <1>1, <3>2, EndsStep, LaterRun DEF RunIs
    <3>3. QED
      BY <1>2, <3>1, <3>2 DEF PrepareManualRun
  <2>2. PICK k : /\ k = mem'[s] /\ disk' \in {k, disk}
                 /\ k = mem[s]
                    \/ (IsJob(mem[s]) /\ k = [mem[s] EXCEPT !.mark = run[s]["manual"].start])
    BY <1>1, <1>2, Unchanged DEF PrepareManualRun, Save, InMemory
  <2>3. run[s]["manual"].start \in Slots \ {None}
    BY <1>1, <1>2, Unchanged DEF PrepareManualRun, CronInv, StartSound, RunRecord
  <2>4. QED
    BY <1>1, <2>1, <2>2, <2>3, KeptJobs, LaterStep
<1>3. CASE FinishManualRun(s) /\ ~IsJob(mem[s])
  <2>1. Ends(s, "manual") /\ UNCHANGED <<mem, disk>>
    BY <1>3 DEF FinishManualRun
  <2>2. RunsLater(s)
    BY <1>1, <2>1, EndsStep, LaterRun DEF RunIs
  <2>3. QED
    BY <1>1, <2>1, <2>2, KeptJobs, LaterStep
<1>4. CASE FinishManualRun(s) /\ IsJob(mem[s])
  <2> DEFINE tick == run[s]["tick"]
  <2>1. PICK a \in Applied(mem[s], run[s]["manual"]) :
          /\ mem' = [mem EXCEPT ![s] = Maintain(Merge(disk, a), TRUE)]
          /\ disk' = Maintain(Merge(disk, a), TRUE)
          /\ run' = [run EXCEPT ![s]["manual"] = NoRun, ![s]["tick"] = Detached(tick)]
          /\ ClearedBy(Merge(disk, a)) = {}
    BY <1>4 DEF FinishManualRun, Save, InMemory, Looking
  <2>2. At(s, "manual", "ended") /\ mem'[s] = disk'
    BY <1>1, <1>4, <2>1, Unchanged DEF FinishManualRun, At
  <2>3. KeptBy(s, Maintain(Merge(disk, a), TRUE))
    BY <1>1, <2>1, <2>2, KeptResults DEF KeptBy
  <2>4. RunsLater(s)
    <3>1. run \in [Services -> [Workers -> RunRecord]] /\ tick \in RunRecord
      BY <1>1, Unchanged
    <3>2. /\ run'[s]["manual"] = NoRun /\ run'[s]["tick"] = Detached(tick)
          /\ \A w \in Workers \ {"manual", "tick"} : run'[s][w] = run[s][w]
      BY <1>1, <2>1, <3>1
    <3>3. Detached(tick).end = tick.end
          /\ (Detached(tick).stage = "ended" => tick.stage = "ended")
      BY <3>1 DEF Detached, RunRecord
    <3>4. QED
      BY <3>2, <3>3 DEF RunsLater, Looking, LookedSound, At, NoRun, Workers
  <2>5. QED
    BY <1>1, <2>1, <2>2, <2>3, <2>4, LaterStep
<1>5. QED
  BY <1>2, <1>3, <1>4 DEF ManualStep

LEMMA CallLooks ==
  ASSUME NEW s, Looking(s),
         \/ Reads(s) \/ Update(s) \/ Remove(s)
         \/ AddOther(s) \/ EditOther(s) \/ BeginOther(s) \/ EndOther(s)
  PROVE  LookedSound(s)'
<1>1. /\ looked' = looked /\ s \in Services /\ "manual" \in Workers /\ "tick" \in Workers
      /\ CInv /\ CronInv /\ CronTypeOK /\ Loaded(s) = mem[s] /\ s = current
      /\ run \in [Services -> [Workers -> RunRecord]]
  BY LookingFacts, Unchanged DEF Reads, Read, Preflight, Update, Remove, AddOther, EditOther,
     BeginOther, EndOther, Looking, CInv
<1>2. RunsLater(s)
  <2>1. CASE UNCHANGED run
    BY <2>1 DEF RunsLater, Looking, LookedSound, At
  <2>2. CASE \E mode \in {"due", "force"} : Preflight(s, mode) /\ run' # run
    <3> DEFINE q == [NoRun EXCEPT !.stage = "checked", !.start = now]
    <3>1. run' = [run EXCEPT ![s]["manual"] = q]
      BY <2>2 DEF Preflight
    <3>2. q \in RunRecord /\ q.stage = "checked"
      BY <1>1, Times DEF RunRecord, NoRun, Stages
    <3>3. RunIs(s, "manual", q)
      BY <1>1, <3>1, <3>2, RunUpdate
    <3>4. QED
      BY <1>1, <3>2, <3>3, LaterRun
  <2>3. CASE EndOther(s)
    <3> DEFINE tick == run[s]["tick"]
    <3>1. run' = [run EXCEPT ![s]["tick"] = Detached(tick)]
      BY <2>3 DEF EndOther
    <3>2. tick \in RunRecord
      BY <1>1
    <3>3. Detached(tick).end = tick.end
          /\ (Detached(tick).stage = "ended" => tick.stage = "ended")
      BY <3>2 DEF Detached, RunRecord
    <3>4. run'[s]["tick"] = Detached(tick) /\ \A w \in Workers \ {"tick"} : run'[s][w] = run[s][w]
      BY <1>1, <3>1
    <3>5. QED
      BY <3>3, <3>4 DEF RunsLater, Looking, LookedSound, At, Workers
  <2>4. QED
    BY <2>1, <2>2, <2>3 DEF Reads, Read, Update, Remove, AddOther, EditOther, BeginOther
<1>3. CASE Reads(s)
  <2>1. PICK k : /\ mem' = [mem EXCEPT ![s] = k] /\ disk' \in {k, disk}
                 /\ k = mem[s] \/ (k = Maintain(mem[s], FALSE) /\ ClearedBy(mem[s]) = {})
    BY <1>1, <1>3 DEF Reads, Read, Preflight, Save, InMemory, Touched, Looking
  <2>2. mem'[s] = k
    BY <1>1, <2>1, Unchanged
  <2>3. QED
    BY <1>1, <1>2, <2>1, <2>2, KeptJobs, LaterStep
<1>4. CASE Update(s)
  <2>1. PICK patch \in {"enable", "disable", "reschedule"} :
          /\ mem' = [mem EXCEPT ![s] = Patched(mem[s], patch)] /\ IsJob(mem[s])
          /\ disk' = Patched(mem[s], patch)
    BY <1>1, <1>4 DEF Update, Save, InMemory
  <2>2. mem'[s] = disk'
    BY <1>1, <2>1, Unchanged
  <2>3. QED
    BY <1>1, <1>2, <2>1, <2>2, KeptJobs, LaterStep
<1>5. CASE Remove(s) \/ AddOther(s) \/ EditOther(s) \/ BeginOther(s) \/ EndOther(s)
  <2>1. PICK k : /\ mem' = [mem EXCEPT ![s] = k] /\ disk' = k
                 /\ \/ k = NoJob \/ k = mem[s]
                    \/ ClearedBy(mem[s]) = {} /\ k \in {Recompute(mem[s]), Maintain(mem[s], FALSE)}
                    \/ ClearedBy(disk) = {} /\ k = Maintain(disk, TRUE)
    BY <1>1, <1>5 DEF Remove, AddOther, EditOther, BeginOther, EndOther, Save, InMemory, Touched,
       Looking
  <2>2. mem'[s] = k
    BY <1>1, <2>1, Unchanged
  <2>3. QED
    BY <1>1, <1>2, <2>1, <2>2, KeptJobs, LaterStep
<1>6. QED
  BY <1>3, <1>4, <1>5

-----------------------------------------------------------------------------
(* No due slot is given up.                                                *)

LEMMA ServiceLooks ==
  ASSUME CInv, LookedInv, NEW s \in Services, s = current, causes' = {}, causes = {},
         Works(s) \/ Reads(s)
  PROVE  LookedSound(s)'
<1>1. CASE PlanStartupCatchup(s)
  BY <1>1, PlanLooks
<1>2. CASE looked'[s] = None
  BY <1>2 DEF LookedSound
<1>3. CASE ~PlanStartupCatchup(s) /\ looked'[s] # None
  <2>1. ~FinishStart(s)
    BY <1>3, Unchanged DEF FinishStart, CInv
  <2>2. looked[s] # None
    BY <1>3, <2>1 DEF Works, Reads, StartStep, ClearMarkers, ApplyStartupCatchup, OnTimer,
       OnTimerBusy, TickStep, CollectDue, CollectOthers, ApplyOutcomes, CloseTick, ManualStep,
       PrepareManualRun, FinishManualRun, BeginRun, EndRun, Read, Preflight, Update, Remove,
       AddOther, EditOther, BeginOther, EndOther
  <2>3. Looking(s)
    BY <2>2 DEF Looking, LookedInv
  <2>4. ~ClearMarkers(s)
    BY <2>3, LookingFacts DEF ClearMarkers
  <2>5. QED
    BY <1>3, <2>1, <2>3, <2>4, ApplyLooks, TickLooks, RunLooks, ManualLooks, CallLooks
       DEF Works, StartStep
<1>4. QED
  BY <1>1, <1>2, <1>3

\* A step of one service, whichever it is.
LEMMA ServiceKeepsLooked ==
  ASSUME CInv, LookedInv, NEW s \in Services, Works(s) \/ Reads(s)
  PROVE  LookedInv'
<1>1. now' = now /\ current' = current /\ causes \subseteq causes'
  BY DEF Works, Reads, StartStep, ClearMarkers, PlanStartupCatchup, ApplyStartupCatchup,
     FinishStart, OnTimer, OnTimerBusy, TickStep, CollectDue, CollectOthers, ApplyOutcomes,
     CloseTick, ManualStep, PrepareManualRun, FinishManualRun, BeginRun, EndRun, Read, Preflight,
     Update, Remove, AddOther, EditOther, BeginOther, EndOther
<1>2. looked \in [Services -> None..MaxTime] /\ now \in Nat /\ None <= now
  BY Unchanged, Times DEF CInv, None
<1>3. \A t \in Services : looked'[t] <= now'
  <2>1. looked' = looked \/ looked' = [looked EXCEPT ![s] = None]
        \/ looked' = [looked EXCEPT ![s] = now]
    BY DEF Works, Reads, StartStep, ClearMarkers, PlanStartupCatchup, ApplyStartupCatchup,
       FinishStart, OnTimer, OnTimerBusy, TickStep, CollectDue, CollectOthers, ApplyOutcomes,
       CloseTick, ManualStep, PrepareManualRun, FinishManualRun, BeginRun, EndRun, Read,
       Preflight, Update, Remove, AddOther, EditOther, BeginOther, EndOther
  <2>2. QED
    BY <1>1, <1>2, <2>1 DEF LookedInv
<1>4. ASSUME causes' = {} PROVE LookedSound(current)'
  <2>1. causes = {}
    BY <1>1, <1>4
  <2>2. CASE s = current
    BY <1>1, <1>4, <2>1, <2>2, ServiceLooks
  <2>3. CASE s # current
    <3>1. Reads(s)
      BY <1>4, <2>1, <2>3, WorksSlot, ActingIsCurrent DEF SlotStep
    <3>2. UNCHANGED <<disk, run, looked>> /\ mem' = [mem EXCEPT ![s] = mem'[s]]
      BY <1>4, <2>3, <3>1, Unchanged DEF Reads, Read, Preflight, Save, InMemory, Touched, CInv
    <3>3. mem'[current] = mem[current]
      BY <2>3, <3>2, Unchanged DEF CInv, CronInv, CronTypeOK
    <3>4. QED
      BY <1>1, <2>1, <3>2, <3>3 DEF LookedInv, LookedSound, KeptFrom, At
  <2>4. QED
    BY <2>2, <2>3
<1>5. QED
  BY <1>3, <1>4 DEF LookedInv

LEMMA NextKeepsLooked ==
  ASSUME CInv, LookedInv, [Next]_vars
  PROVE  LookedInv'
<1>1. ASSUME NEW s \in Services, Works(s) \/ Reads(s) PROVE LookedInv'
  BY <1>1, ServiceKeepsLooked
<1>2. CASE Replace
  <2>1. UNCHANGED <<now, looked>> /\ current' = 2 /\ looked[2] = None
    BY <1>2 DEF Replace, CInv, CronInv, ReplacementSound, StartSound, Services
  <2>2. QED
    BY <2>1 DEF LookedInv, LookedSound
<1>3. CASE Crash
  <2>1. now' = now /\ current' \in Services /\ \A s \in Services : looked'[s] = None
    BY <1>3 DEF Crash, Services
  <2>2. None <= now
    BY Unchanged, Times DEF CInv, None
  <2>3. QED
    BY <2>1, <2>2 DEF LookedInv, LookedSound
<1>4. CASE SlotPasses \/ UNCHANGED vars
  <2>1. /\ UNCHANGED <<disk, mem, run, current, causes, looked>>
        /\ now' = now \/ now' = now + 1
    BY <1>4 DEF SlotPasses, vars
  <2>2. now \in Nat /\ \A s \in Services : looked[s] \in Nat
    BY Unchanged, Times, CronAssumption DEF CInv, None
  <2>3. \A s \in Services : looked'[s] <= now'
    BY <2>1, <2>2 DEF LookedInv
  <2>4. QED
    BY <2>1, <2>3 DEF LookedInv, LookedSound, KeptFrom, At
<1>5. QED
  BY <1>1, <1>2, <1>3, <1>4, NextCases

LEMMA LookedInductive == Spec => [](CInv /\ LookedInv)
<1>1. Init => LookedInv
  BY DEF Init, LookedInv, LookedSound, Services, None
<1>2. CInv /\ LookedInv /\ [Next]_vars => LookedInv'
  BY NextKeepsLooked
<1>3. QED
  BY <1>1, <1>2, SlotInductive, PTL DEF Spec

\* The end of a start that moves the slot of a due job gives it up as GivesUp says.
LEMMA FinishStartGivesUp ==
  ASSUME CInv, LookedInv, NEW s \in Services, FinishStart(s), Due(disk), IsJob(disk'),
         disk'.enabled, disk'.next # disk.next, Together, "overlap" \notin causes'
  PROVE  GivesUp(s)
<1> SUFFICES ASSUME looked[s] # None, ~(disk.next > looked[s]), "cleared" \notin causes,
                    \A w \in Workers : ~Taken(s, w)
             PROVE  FALSE
  BY DEF GivesUp, Taken
<1>1. /\ phase[s] = "arm" /\ causes = {} /\ s = current
      /\ disk' = disk \/ disk' = Recompute(mem[s])
  <2>1. phase[s] = "arm" /\ causes \subseteq {"cleared", "overlap", "unsaved"}
    BY Unchanged DEF FinishStart, CInv
  <2>2. causes = {}
    BY <2>1 DEF Together
  <2>3. s = current
    BY <2>1, <2>2, ActingIsCurrent DEF Acts
  <2>4. QED
    BY <2>1, <2>2, <2>3 DEF FinishStart, Save
<1>2. /\ mem[s] \in Job /\ disk \in Job /\ mem[s] # NotLoaded
      /\ looked[s] \in Nat /\ disk.next \in Nat /\ disk.next <= looked[s]
      /\ CronTypeOK /\ SlotSound(mem[s]) /\ Waits(mem[s]) /\ mem[s].next = disk.next
  <2>1. CronTypeOK /\ SlotSound(mem[s]) /\ disk \in Job /\ mem[s] \in Job \cup {NoJob, NotLoaded}
    BY JobsHere, JobFacts DEF Due
  <2>2. mem[s] # NotLoaded
    BY <1>1 DEF CInv, CronInv, StartSound
  <2>3. Waits(mem[s]) /\ mem[s].next = disk.next
    BY <1>1, <2>2 DEF CInv, SlotInv, Follows, Waits, Due, Past
  <2>4. looked[s] \in Nat
    BY Unchanged, CronAssumption DEF CInv, None
  <2>5. QED
    BY <2>1, <2>2, <2>3, <2>4, JobFacts, Present DEF Waits
<1>3. KeptFrom(looked[s], mem[s])
  <2>1. ~At(s, "catchup", "deferred")
    BY <1>1 DEF CInv, CronInv, StartSound, At
  <2>2. QED
    BY <1>1, <2>1 DEF LookedInv, LookedSound
<1>4. ~Marked(mem[s])
  BY <1>1 DEF CInv, CronInv, MarkersSound, MarkedIsTaken
<1>5. mem[s].kind = "at" /\ mem[s].next = mem[s].at
  BY <1>2, <1>3, <1>4 DEF KeptFrom
<1> DEFINE n == Normalize(mem[s])
<1>6. /\ n \in Job /\ SlotSound(n) /\ n.next = mem[s].next /\ n.enabled
      /\ n.kind = "at" /\ n.next = n.at /\ n.next # None
  BY <1>2, <1>5, NormalizeSlot DEF SameSlot, Waits
<1>7. ComputeNext(n, now) = n.at
  <2>1. IsJob(n) /\ n.next \in Nat /\ n.last \in Nat
    BY <1>2, <1>6, Present
  <2> HIDE DEF n
  <2>2. QED
    BY <1>6, <2>1 DEF SlotSound, ComputeNext
<1>8. Recompute(mem[s]) \in {n, WithNext(n)}
  BY <1>2, JobFacts DEF Recompute
<1>9. WithNext(n).next = n.at
  BY <1>6, <1>7 DEF WithNext, Job
<1>10. QED
  BY <1>1, <1>2, <1>6, <1>8, <1>9

\* While no replaced service acts and every save succeeds, the past-due slot of an enabled
\* job stays in the file until a run of it is applied, a start defers it, or one of the
\* steps that replace past slots, or a user's edit of the job, moves it; and the end of a
\* start gives up no slot that it had found missed: neither the maintenance of reads, ticks
\* and preflights, nor a copy in memory that is saved over the file, moves it (jobs.ts,
\* timer.ts, ops.ts).
THEOREM DueSlotsKept == Spec => SlotNotSkipped
<1>1. CInv /\ LookedInv /\ [Next]_vars =>
        [ (/\ Due(disk) /\ IsJob(disk') /\ disk'.enabled /\ disk'.next # disk.next
           /\ causes \cap {"unsaved", "overlap"} = {} /\ "overlap" \notin causes')
          => \/ \E s \in Services, w \in Workers : At(s, w, "ended") /\ ~At(s, w, "ended")'
             \/ \E s \in Services : At(s, "catchup", "deferred") /\ ApplyStartupCatchup(s)
             \/ \E s \in Services : GivesUp(s) \/ AddOther(s) \/ Update(s) ]_vars
  <2>1. SUFFICES ASSUME CInv, LookedInv, [Next]_vars, Due(disk), IsJob(disk'), disk'.enabled,
                        disk'.next # disk.next, Together, "overlap" \notin causes'
                 PROVE  \E s \in Services :
                          \/ \E w \in Workers : At(s, w, "ended") /\ ~At(s, w, "ended")'
                          \/ At(s, "catchup", "deferred") /\ ApplyStartupCatchup(s)
                          \/ GivesUp(s) \/ AddOther(s) \/ Update(s)
    BY DEF Together
  <2>2. PICK s \in Services : Explained(s)
    BY <2>1, ServicesKeepSlots DEF SlotStep, KeepsDueSlot
  <2>3. FinishStart(s) => GivesUp(s)
    BY <2>1, FinishStartGivesUp
  <2>4. QED
    BY <2>2, <2>3 DEF Explained
<1>2. QED
  BY <1>1, LookedInductive, PTL DEF Spec, SlotNotSkipped

================================================================================
