------------------------- MODULE SessionWriteLockProofs -------------------------
(***************************************************************************)
(* Proofs about SessionWriteLock: types, the counts of holders, the        *)
(* exclusion of writers and the causes of removals, for every set of       *)
(* processes and every finite set of tasks.                                *)
(***************************************************************************)
EXTENDS SessionWriteLock, FiniteSetTheorems, TLAPS

\* The owner of the file, if it is a task, is creating it; a process owns what it wrote.
OwnersSound ==
    /\ Exists /\ file.owner \in Tasks =>
            /\ task[file.owner] \in {"opened", "written"}
            /\ file.proc = ProcOf[file.owner]
    /\ Exists /\ file.owner \in Procs => file.proc = file.owner

\* Whoever creates a lock or holds one has the file to rely on, unless it was robbed of it.
Writing == {"opened", "written", "holding"}
WritersRely == {t \in Tasks : task[t] \in Writing} \subseteq robbed \cup Relying

LInv == LockTypeOK /\ CountIsHolders /\ OwnersSound /\ WritersRely

-------------------------------------------------------------------------------
Known == {"none", "empty", "unheld", "full", "former"}

LEMMA HoldersAreFinite ==
  ASSUME LInv, NEW p \in Procs
  PROVE  /\ IsFiniteSet(Holders(p)) /\ Cardinality(Tasks) \in Nat
         /\ Cardinality(Holders(p)) \in 0..Cardinality(Tasks)
         /\ count[p] = Cardinality(Holders(p))
         /\ count[p] = 0 <=> Holders(p) = {}
<1>1. IsFiniteSet(Tasks) /\ Holders(p) \in SUBSET Tasks
  BY LockAssumption DEF Holders, LInv, LockTypeOK
<1>2. /\ IsFiniteSet(Holders(p)) /\ Cardinality(Holders(p)) <= Cardinality(Tasks)
      /\ Cardinality(Holders(p)) \in Nat /\ Cardinality(Tasks) \in Nat
  BY <1>1, FS_Subset, FS_CardinalityType
<1>3. count[p] = Cardinality(Holders(p))
  BY DEF LInv, CountIsHolders
<1>4. QED
  BY <1>2, <1>3, FS_EmptySet

LEMMA InitLInv == Init => LInv
<1> SUFFICES ASSUME Init PROVE LInv
  OBVIOUS
<1>1. Cardinality(Tasks) \in Nat
  BY LockAssumption, FS_CardinalityType
<1>2. \A p \in Procs : Holders(p) = {}
  BY DEF Init, Holders
<1>3. LockTypeOK
  <2>1. count \in [Procs -> 0..Cardinality(Tasks)] /\ deaths \in 0..MaxDeaths
    BY <1>1, LockAssumption DEF Init
  <2>2. task \in [Tasks -> Stages]
    BY DEF Init, Stages
  <2>3. decided \in [Actors -> {"none", "empty", "unheld", "full", "former"}]
    BY DEF Init
  <2>4. QED
    BY <2>1, <2>2, <2>3 DEF Init, LockTypeOK
<1>4. CountIsHolders
  BY <1>2, FS_EmptySet DEF Init, CountIsHolders
<1>5. OwnersSound /\ WritersRely
  BY DEF Init, OwnersSound, WritersRely, Writing, Exists
<1>6. QED
  BY <1>3, <1>4, <1>5 DEF LInv

\* Who relies on the file, in either of the two ways.
LEMMA RelyingFacts ==
  ASSUME LInv
  PROVE  /\ Relying \subseteq {t \in Tasks : task[t] \in Writing}
         /\ Holders(Nobody) = {}
         /\ \A t \in Tasks : t \in Relying <=>
                /\ Exists
                /\ file.owner = t \/ (file.owner = ProcOf[t] /\ t \in shares)
<1>1. \A t \in Tasks : ProcOf[t] \in Procs /\ ProcOf[t] \notin Tasks
  BY LockAssumption
<1>2. shares \subseteq {t \in Tasks : task[t] = "holding"}
  BY DEF LInv, LockTypeOK
<1>3. Holders(Nobody) = {}
  BY <1>1, <1>2, ValuesAssumption DEF Holders
<1>4. CASE Exists /\ file.owner \in Tasks
  BY <1>1, <1>3, <1>4 DEF Relying, LInv, OwnersSound, Writing
<1>5. CASE ~(Exists /\ file.owner \in Tasks)
  BY <1>1, <1>2, <1>3, <1>5 DEF Relying, Holders, Writing
<1>6. QED
  BY <1>4, <1>5

\* The file is gone and who relied on it is robbed, except for those that no longer write.
LEMMA LossIsRecorded ==
  ASSUME LInv, NEW done \in SUBSET Tasks,
         \A t \in Tasks : task'[t] = task[t] \/ t \in done,
         \A t \in done : task'[t] \notin Writing,
         (robbed \cup Relying) \ done \subseteq robbed'
  PROVE  WritersRely'
BY DEF LInv, WritersRely

\* The steps that leave the file with its owner and the holders with their entries.
LEMMA SameOwnerRelies ==
  ASSUME LInv, Exists' = Exists, Exists => file'.owner = file.owner,
         shares' = shares, robbed' = robbed,
         \A t \in Tasks : task'[t] \in Writing => task[t] \in Writing
  PROVE  WritersRely'
<1>1. Relying' = Relying
  BY DEF Relying, Holders
<1>2. QED
  BY <1>1 DEF LInv, WritersRely

LEMMA RemoveFileFacts ==
  ASSUME LInv, NEW a \in Actors, RemoveFile(a)
  PROVE  /\ file' = NoFile /\ ~Exists'
         /\ decided' \in [Actors -> Known]
         /\ robbed' = robbed \cup (Relying \ {a})
<1>1. Superseded \in [Actors -> Known]
  BY DEF Superseded, LInv, LockTypeOK, Known
<1>2. QED
  BY <1>1 DEF RemoveFile, Exists, Known

-------------------------------------------------------------------------------
(* Acquiring                                                                *)

LEMMA AcquireReentrantKeeps ==
  ASSUME LInv, NEW t \in Tasks, AcquireReentrant(t)
  PROVE  LInv'
<1> DEFINE p == ProcOf[t]
<1>1. /\ p \in Procs /\ task[t] = "called" /\ count[p] > 0
      /\ count' = [count EXCEPT ![p] = @ + 1] /\ task' = [task EXCEPT ![t] = "holding"]
      /\ shares' = shares \cup {t}
      /\ robbed' = IF Intact(p) THEN robbed ELSE robbed \cup {t}
      /\ UNCHANGED <<startTimes, file, armed, watchdog, cleaner, decided, deaths>>
  BY LockAssumption DEF AcquireReentrant, JoinHolders, At, Goto
<1>2. t \notin shares /\ shares \subseteq Tasks
  BY <1>1 DEF LInv, LockTypeOK
<1>3. Holders(p)' = Holders(p) \cup {t}
      /\ \A q \in Procs : q # p => Holders(q)' = Holders(q)
  BY <1>1 DEF Holders
<1>4. /\ IsFiniteSet(Holders(p)) /\ count[p] = Cardinality(Holders(p))
      /\ IsFiniteSet(Tasks) /\ Cardinality(Tasks) \in Nat
      /\ Cardinality(Holders(p)) \in Nat /\ t \notin Holders(p)
  <2>1. t \notin Holders(p)
    BY <1>2 DEF Holders
  <2>2. QED
    BY <1>1, <2>1, HoldersAreFinite, LockAssumption
<1>5. Cardinality(Holders(p)') = count[p] + 1
  <2> DEFINE H == Holders(p)
  <2>1. IsFiniteSet(H) /\ t \notin H /\ Cardinality(H) = count[p]
    BY <1>4
  <2>2. Holders(p)' = H \cup {t}
    BY <1>3
  <2> HIDE DEF H
  <2>3. Cardinality(H \cup {t}) = Cardinality(H) + 1
    BY <2>1, FS_AddElement
  <2>4. QED
    BY <2>1, <2>2, <2>3
<1>6. Holders(p)' \in SUBSET Tasks
  BY <1>1, <1>2 DEF Holders
<1>7. Cardinality(Holders(p)') <= Cardinality(Tasks)
  BY <1>4, <1>6, FS_Subset
<1>8. count' \in [Procs -> 0..Cardinality(Tasks)]
  BY <1>1, <1>4, <1>5, <1>7 DEF LInv, LockTypeOK
<1>9. LockTypeOK'
  BY <1>1, <1>8 DEF LInv, LockTypeOK, Stages
<1>10. CountIsHolders'
  BY <1>1, <1>3, <1>5 DEF LInv, LockTypeOK, CountIsHolders
<1>11. OwnersSound'
  BY <1>1 DEF LInv, LockTypeOK, OwnersSound, Exists
<1>12. WritersRely'
  <2>1. Relying \subseteq Relying'
    BY <1>1 DEF Relying, Holders, Exists
  <2>2. Intact(p) => t \in Relying'
    BY <1>1, LockAssumption DEF Intact, Relying, Holders, Exists
  <2>3. t \in robbed' \cup Relying'
    BY <1>1, <2>2
  <2>4. QED
    BY <1>1, <2>1, <2>3 DEF LInv, LockTypeOK, WritersRely
<1>13. QED
  BY <1>9, <1>10, <1>11, <1>12 DEF LInv

\* Steps of an acquire that leave the entries of the map alone.
LEMMA CountIsHoldersUnchanged ==
  ASSUME LInv, UNCHANGED <<count, shares>>
  PROVE  CountIsHolders'
BY DEF LInv, CountIsHolders, Holders

LEMMA WaitingKeeps ==
  ASSUME LInv, NEW t \in Tasks,
         Call(t) \/ BeginAcquire(t) \/ Contend(t) \/ Retry(t) \/ TimeOut(t)
  PROVE  LInv'
<1>1. /\ task[t] \in {"idle", "called", "trying", "waiting"}
      /\ \E s \in {"called", "trying", "removing", "waiting", "idle"} :
            task' = [task EXCEPT ![t] = s]
      /\ decided' = decided \/ decided' = [decided EXCEPT ![t] = Seen]
      /\ armed' = armed \cup {ProcOf[t]} \/ armed' = armed
      /\ UNCHANGED <<startTimes, file, count, shares, watchdog, cleaner, robbed, deaths>>
  BY DEF Call, BeginAcquire, Contend, Retry, TimeOut, At, Goto, EnsureWatchdogStarted
<1>2. ProcOf[t] \in Procs
  BY LockAssumption
<1>3. Seen \in Known
  BY DEF Seen, Known
<1>4. task' \in [Tasks -> Stages]
  BY <1>1 DEF LInv, LockTypeOK, Stages
<1>5. decided' \in [Actors -> Known]
  BY <1>1, <1>3 DEF LInv, LockTypeOK, Known
<1>6. LockTypeOK'
  BY <1>1, <1>2, <1>4, <1>5 DEF LInv, LockTypeOK, Known
<1>7. CountIsHolders'
  BY <1>1, CountIsHoldersUnchanged
<1>8. OwnersSound'
  BY <1>1 DEF LInv, LockTypeOK, OwnersSound, Exists
<1>9. WritersRely'
  BY <1>1, SameOwnerRelies DEF LInv, LockTypeOK, Writing, Exists
<1>10. QED
  BY <1>6, <1>7, <1>8, <1>9 DEF LInv

LEMMA OpenExclusiveKeeps ==
  ASSUME LInv, NEW t \in Tasks, OpenExclusive(t)
  PROVE  LInv'
<1> DEFINE f == [owner |-> t, proc |-> ProcOf[t], written |-> FALSE, old |-> FALSE,
                 fate |-> "alive"]
<1>1. /\ task[t] = "trying" /\ ~Exists /\ file' = f
      /\ task' = [task EXCEPT ![t] = "opened"]
      /\ UNCHANGED <<startTimes, count, shares, armed, watchdog, cleaner, decided, robbed, deaths>>
  BY DEF OpenExclusive, At, Goto
<1>2. f \in LockFile /\ f # NoFile /\ f.owner = t /\ f.proc = ProcOf[t] /\ t \notin Procs
  <2>1. ProcOf[t] \in Procs /\ t \notin Procs
    BY LockAssumption
  <2>2. f \in LockFile
    BY <2>1 DEF LockFile
  <2>3. QED
    BY <2>1, <2>2, ValuesAssumption
<1> HIDE DEF f
<1>3. LockTypeOK'
  BY <1>1, <1>2 DEF LInv, LockTypeOK, Stages
<1>4. CountIsHolders'
  BY <1>1, CountIsHoldersUnchanged
<1>5. OwnersSound'
  BY <1>1, <1>2 DEF LInv, LockTypeOK, OwnersSound, Exists
<1>6. WritersRely'
  <2>1. Relying = {} /\ Relying' = {t}
    BY <1>1, <1>2 DEF Relying, Exists
  <2>2. QED
    BY <1>1, <2>1 DEF LInv, LockTypeOK, WritersRely
<1>7. QED
  BY <1>3, <1>4, <1>5, <1>6 DEF LInv

LEMMA WritePayloadKeeps ==
  ASSUME LInv, NEW t \in Tasks, WritePayload(t)
  PROVE  LInv'
<1>1. /\ task[t] = "opened" /\ task' = [task EXCEPT ![t] = "written"]
      /\ file' = file \/ (Exists /\ file' = [file EXCEPT !.written = TRUE])
      /\ UNCHANGED <<startTimes, count, shares, armed, watchdog, cleaner, decided, robbed, deaths>>
  BY DEF WritePayload, At, Goto
<1>2. /\ file' \in LockFile \cup {NoFile} /\ Exists' = Exists
      /\ Exists => file'.owner = file.owner /\ file'.proc = file.proc
  <2>1. file \in LockFile \cup {NoFile}
    BY DEF LInv, LockTypeOK
  <2>2. CASE file' = file
    BY <2>1, <2>2 DEF Exists
  <2>3. CASE Exists /\ file' = [file EXCEPT !.written = TRUE]
    <3>1. file \in LockFile
      BY <2>1, <2>3 DEF Exists
    <3>2. file' \in LockFile /\ file'.owner = file.owner /\ file'.proc = file.proc
      BY <2>3, <3>1 DEF LockFile
    <3>3. QED
      BY <2>3, <3>2, ValuesAssumption DEF Exists
  <2>4. QED
    BY <1>1, <2>2, <2>3
<1>3. LockTypeOK'
  BY <1>1, <1>2 DEF LInv, LockTypeOK, Stages
<1>4. CountIsHolders'
  BY <1>1, CountIsHoldersUnchanged
<1>5. OwnersSound'
  BY <1>1, <1>2 DEF LInv, LockTypeOK, OwnersSound
<1>6. WritersRely'
  BY <1>1, <1>2, SameOwnerRelies DEF LInv, LockTypeOK, Writing
<1>7. QED
  BY <1>3, <1>4, <1>5, <1>6 DEF LInv

LEMMA SetHeldKeeps ==
  ASSUME LInv, NEW t \in Tasks, SetHeld(t)
  PROVE  LInv'
<1> DEFINE p == ProcOf[t]
<1>1. /\ p \in Procs /\ task[t] = "written" /\ task' = [task EXCEPT ![t] = "holding"]
      /\ count' = [count EXCEPT ![p] = 1]
      /\ shares' = (shares \ Holders(p)) \cup {t}
      /\ file' = IF Exists /\ file.owner = t THEN [file EXCEPT !.owner = p] ELSE file
      /\ robbed' = robbed \cup Holders(p)
      /\ UNCHANGED <<startTimes, armed, watchdog, cleaner, decided, deaths>>
  BY LockAssumption DEF SetHeld, At, Goto
<1>2. /\ file' \in LockFile \cup {NoFile} /\ Exists' = Exists
      /\ Exists => file'.proc = file.proc
      /\ Exists => file'.owner = IF file.owner = t THEN p ELSE file.owner
  BY <1>1, ValuesAssumption DEF LInv, LockTypeOK, LockFile, Exists
<1>3. Holders(p)' = {t} /\ \A q \in Procs : q # p => Holders(q)' = Holders(q)
  BY <1>1 DEF Holders
<1>4. Cardinality({t}) = 1 /\ Cardinality(Tasks) \in Nat /\ 1 <= Cardinality(Tasks)
  <2>1. IsFiniteSet(Tasks) /\ {t} \in SUBSET Tasks /\ Cardinality({t}) = 1
    BY LockAssumption, FS_Singleton
  <2>2. QED
    BY <2>1, FS_Subset, FS_CardinalityType
<1>5. LockTypeOK'
  <2>1. Holders(p) \subseteq {u \in Tasks : task[u] = "holding"}
    BY DEF LInv, LockTypeOK, Holders
  <2>2. robbed' \subseteq {u \in Tasks : task'[u] \in {"opened", "written", "holding"}}
    BY <1>1, <2>1 DEF LInv, LockTypeOK
  <2>3. QED
    BY <1>1, <1>2, <1>4, <2>2 DEF LInv, LockTypeOK, Stages
<1>6. CountIsHolders'
  BY <1>1, <1>3, <1>4 DEF LInv, LockTypeOK, CountIsHolders
<1>7. OwnersSound'
  BY <1>1, <1>2, LockAssumption DEF LInv, LockTypeOK, OwnersSound
<1>8. WritersRely'
  <2>1. t \in robbed' \cup Relying'
    <3>1. SUFFICES ASSUME t \in Relying PROVE t \in Relying'
      BY <1>1 DEF LInv, LockTypeOK, WritersRely, Writing
    <3>2. t \notin shares
      BY <1>1 DEF LInv, LockTypeOK
    <3>3. Exists /\ file.owner = t
      BY <3>1, <3>2, RelyingFacts
    <3>4. Exists' /\ file'.owner = p /\ p \notin Tasks
      BY <1>1, <1>2, <3>3, LockAssumption
    <3>5. QED
      BY <1>3, <3>4 DEF Relying
  <2>2. ASSUME NEW u \in Tasks, u # t, u \in Relying
        PROVE  u \in robbed' \cup Relying'
    <3>1. Exists /\ (file.owner = u \/ (file.owner = ProcOf[u] /\ u \in shares))
      BY <2>2, RelyingFacts
    <3>2. ProcOf[u] \in Procs /\ ProcOf[u] \notin Tasks /\ t \notin Procs
      BY LockAssumption
    <3>3. CASE file.owner = u
      BY <1>2, <2>2, <3>1, <3>3 DEF Relying
    <3>4. CASE file.owner = ProcOf[u] /\ u \in shares /\ ProcOf[u] = p
      BY <1>1, <3>4 DEF Holders
    <3>5. CASE file.owner = ProcOf[u] /\ u \in shares /\ ProcOf[u] # p
      <4>1. Exists' /\ file'.owner = ProcOf[u]
        BY <1>2, <3>1, <3>2, <3>5
      <4>2. u \in Holders(ProcOf[u])'
        BY <1>3, <3>2, <3>5 DEF Holders
      <4>3. QED
        BY <3>2, <4>1, <4>2 DEF Relying
    <3>6. QED
      BY <3>1, <3>3, <3>4, <3>5
  <2>3. \A u \in Tasks : u # t /\ task'[u] \in Writing => u \in robbed' \cup Relying'
    BY <1>1, <2>2 DEF LInv, LockTypeOK, WritersRely
  <2>4. QED
    BY <2>1, <2>3 DEF WritersRely, Writing
<1>9. QED
  BY <1>5, <1>6, <1>7, <1>8 DEF LInv

\* The steps that remove the file and change nothing of what is held.
LEMMA RemovalsKeep ==
  ASSUME LInv, NEW a \in Actors,
         \/ a \in Tasks /\ (WriteFails(a) \/ Reclaim(a) \/ Close(a))
         \/ a \in Procs /\ WatchdogCloses(a)
         \/ a = Cleaner /\ CleanerRemoves
  PROVE  LInv'
<1>1. /\ file' = NoFile /\ ~Exists' /\ decided' \in [Actors -> Known]
      /\ robbed' = (robbed \cup Relying) \ {a}
  <2>1. Relying \subseteq Tasks /\ robbed \subseteq Tasks
    BY RelyingFacts DEF LInv, LockTypeOK
  <2>2. CASE a \in Tasks /\ WriteFails(a)
    <3>1. Superseded \in [Actors -> Known]
      BY DEF Superseded, LInv, LockTypeOK, Known
    <3>2. QED
      BY <2>1, <2>2, <3>1 DEF WriteFails, Exists
  <2>3. CASE RemoveFile(a) /\ (a \in Tasks => task[a] \in {"removing", "closing"})
    <3>1. a \notin robbed
      BY <2>1, <2>3 DEF LInv, LockTypeOK
    <3>2. QED
      BY <2>1, <2>3, <3>1, RemoveFileFacts
  <2>4. QED
    BY <2>2, <2>3, LockAssumption DEF Reclaim, Close, WatchdogCloses, CleanerRemoves, At
<1>2. /\ \/ a \in Tasks /\ task[a] \in {"opened", "removing", "closing"}
            /\ \E s \in {"idle", "trying"} : task' = [task EXCEPT ![a] = s]
         \/ a \notin Tasks /\ task' = task
      /\ armed' \subseteq armed /\ watchdog' \subseteq watchdog
      /\ cleaner' \in {"idle", cleaner}
      /\ UNCHANGED <<startTimes, count, shares, deaths>>
  BY LockAssumption DEF WriteFails, Reclaim, Close, WatchdogCloses, CleanerRemoves, At, Goto,
     StopIdleWatchdog
<1>3. LockTypeOK'
  <2>1. /\ task' \in [Tasks -> Stages] /\ shares' \subseteq {t \in Tasks : task'[t] = "holding"}
        /\ \A t \in Tasks : t # a => task'[t] = task[t]
    BY <1>2 DEF LInv, LockTypeOK, Stages
  <2>2. robbed' \subseteq {t \in Tasks : task'[t] \in {"opened", "written", "holding"}}
    BY <1>1, <2>1, RelyingFacts DEF LInv, LockTypeOK, Writing
  <2>3. QED
    BY <1>1, <1>2, <2>1, <2>2 DEF LInv, LockTypeOK, Known
<1>4. CountIsHolders'
  BY <1>2, CountIsHoldersUnchanged
<1>5. OwnersSound'
  BY <1>1 DEF LInv, OwnersSound
<1>6. WritersRely'
  <2> DEFINE done == {a} \cap Tasks
  <2>1. /\ \A t \in Tasks : task'[t] = task[t] \/ t \in done
        /\ \A t \in done : task'[t] \notin Writing
    BY <1>2 DEF LInv, LockTypeOK, Writing
  <2>2. (robbed \cup Relying) \ done \subseteq robbed'
    BY <1>1, RelyingFacts DEF LInv, LockTypeOK
  <2>3. done \in SUBSET Tasks
    OBVIOUS
  <2>4. QED
    BY <2>1, <2>2, <2>3, LossIsRecorded
<1>7. QED
  BY <1>3, <1>4, <1>5, <1>6 DEF LInv

-------------------------------------------------------------------------------
(* Releasing                                                                *)

LEMMA DropEntryFacts ==
  ASSUME LInv, NEW p \in Procs, NEW a \in Actors, DropEntry(p, a)
  PROVE  /\ file' \in LockFile \cup {NoFile} /\ Exists' = Exists
         /\ Exists => file'.proc = file.proc
         /\ Exists => file'.owner = IF file.owner = p THEN Nobody ELSE file.owner
         /\ decided' \in [Actors -> Known]
         /\ count' \in [Procs -> 0..Cardinality(Tasks)] /\ count'[p] = 0
         /\ \A q \in Procs : q # p => count'[q] = count[q]
<1>1. /\ count' = [count EXCEPT ![p] = 0]
      /\ file' = IF Exists /\ file.owner = p THEN [file EXCEPT !.owner = Nobody] ELSE file
      /\ decided' = [decided EXCEPT ![a] = IF Intact(p) THEN "full" ELSE "former"]
  BY DEF DropEntry, Intact
<1>2. /\ file' \in LockFile \cup {NoFile} /\ Exists' = Exists
      /\ Exists => file'.proc = file.proc
      /\ Exists => file'.owner = IF file.owner = p THEN Nobody ELSE file.owner
  BY <1>1, ValuesAssumption DEF LInv, LockTypeOK, LockFile, Exists
<1>3. decided' \in [Actors -> Known]
  BY <1>1 DEF LInv, LockTypeOK, Known
<1>4. Cardinality(Tasks) \in Nat
  BY LockAssumption, FS_CardinalityType
<1>5. QED
  BY <1>1, <1>2, <1>3, <1>4 DEF LInv, LockTypeOK

\* With the entry of a process go those that relied on it, and nobody else.
LEMMA DropEntryRelies ==
  ASSUME LInv, NEW p \in Procs, NEW a \in Actors, DropEntry(p, a),
         shares' = shares \ Holders(p)
  PROVE  Relying \ Holders(p) \subseteq Relying'
<1>1. /\ Exists' = Exists
      /\ Exists => file'.owner = IF file.owner = p THEN Nobody ELSE file.owner
  BY DropEntryFacts
<1>2. p \notin Tasks
  BY LockAssumption
<1>3. CASE Exists /\ file.owner = p
  BY <1>2, <1>3 DEF Relying
<1>4. CASE Exists /\ file.owner # p
  <2>1. Holders(file.owner) \ Holders(p) \subseteq Holders(file.owner)'
    BY <1>1, <1>4 DEF Holders
  <2>2. QED
    BY <1>1, <1>4, <2>1 DEF Relying
<1>5. CASE ~Exists
  BY <1>5 DEF Relying
<1>6. QED
  BY <1>3, <1>4, <1>5

LEMMA ReleaseLastKeeps ==
  ASSUME LInv, NEW t \in Tasks, Release(t), t \in shares, count[ProcOf[t]] = 1
  PROVE  LInv'
<1> DEFINE p == ProcOf[t]
<1>1. /\ p \in Procs /\ t \in Actors /\ task[t] = "holding"
      /\ task' = [task EXCEPT ![t] = "closing"]
      /\ shares' = shares \ {t} /\ DropEntry(p, t)
      /\ robbed' = robbed \ {t}
      /\ UNCHANGED <<startTimes, armed, watchdog, cleaner, deaths>>
  BY LockAssumption DEF Release, Forget, At, Goto, Actors
<1>2. /\ file' \in LockFile \cup {NoFile} /\ Exists' = Exists
      /\ Exists => file'.proc = file.proc
      /\ Exists => file'.owner = IF file.owner = p THEN Nobody ELSE file.owner
      /\ decided' \in [Actors -> Known]
      /\ count' \in [Procs -> 0..Cardinality(Tasks)] /\ count'[p] = 0
      /\ \A q \in Procs : q # p => count'[q] = count[q]
  BY <1>1, DropEntryFacts
<1>3. t \in Holders(p) /\ Holders(p)' = Holders(p) \ {t}
      /\ \A q \in Procs : q # p => Holders(q)' = Holders(q)
  BY <1>1 DEF Holders
<1>4. IsFiniteSet(Holders(p)) /\ Cardinality(Holders(p)) = 1
  BY <1>1, HoldersAreFinite
<1>5. Cardinality(Holders(p)') = 0 /\ Holders(p) = {t}
  <2>1. Cardinality(Holders(p)') = 0
    BY <1>3, <1>4, FS_RemoveElement
  <2>2. Holders(p) \ {t} = {}
    BY <1>3, <1>4, <2>1, FS_EmptySet, FS_RemoveElement
  <2>3. QED
    BY <1>3, <2>1, <2>2
<1>6. LockTypeOK'
  <2>1. /\ task' \in [Tasks -> Stages] /\ shares' \subseteq {u \in Tasks : task'[u] = "holding"}
        /\ robbed' \subseteq {u \in Tasks : task'[u] \in {"opened", "written", "holding"}}
    BY <1>1 DEF LInv, LockTypeOK, Stages
  <2>2. QED
    BY <1>1, <1>2, <2>1 DEF LInv, LockTypeOK, Known
<1>7. CountIsHolders'
  BY <1>2, <1>3, <1>5 DEF LInv, CountIsHolders
<1>8. OwnersSound'
  BY <1>1, <1>2, ValuesAssumption DEF LInv, LockTypeOK, OwnersSound
<1>9. WritersRely'
  <2>1. Relying \ {t} \subseteq Relying'
    BY <1>1, <1>5, DropEntryRelies
  <2>2. QED
    BY <1>1, <2>1 DEF LInv, LockTypeOK, WritersRely, Writing
<1>10. QED
  BY <1>6, <1>7, <1>8, <1>9 DEF LInv

LEMMA ReleaseOtherKeeps ==
  ASSUME LInv, NEW t \in Tasks, Release(t), t \notin shares \/ count[ProcOf[t]] # 1
  PROVE  LInv'
<1> DEFINE p == ProcOf[t]
<1>1. /\ p \in Procs /\ task[t] = "holding" /\ task' = [task EXCEPT ![t] = "idle"]
      /\ shares' = shares \ {t}
      /\ count' = IF t \in shares THEN [count EXCEPT ![p] = @ - 1] ELSE count
      /\ robbed' = robbed \ {t}
      /\ UNCHANGED <<startTimes, file, armed, watchdog, cleaner, decided, deaths>>
  BY LockAssumption DEF Release, Forget, At, Goto
<1>2. \A q \in Procs : q # p => Holders(q)' = Holders(q)
  BY <1>1 DEF Holders
<1>3. /\ count' \in [Procs -> 0..Cardinality(Tasks)] /\ CountIsHolders'
  <2>1. CASE t \notin shares
    <3>1. shares' = shares /\ count' = count
      BY <1>1, <2>1
    <3>2. QED
      BY <3>1, CountIsHoldersUnchanged DEF LInv, LockTypeOK
  <2>2. CASE t \in shares
    <3>1. t \in Holders(p) /\ Holders(p)' = Holders(p) \ {t}
      BY <1>1, <2>2 DEF Holders
    <3>2. /\ IsFiniteSet(Holders(p)) /\ Cardinality(Tasks) \in Nat
          /\ count[p] \in 0..Cardinality(Tasks) /\ count[p] = Cardinality(Holders(p))
          /\ count[p] # 0 /\ count[p] # 1
      BY <1>1, <2>2, <3>1, HoldersAreFinite
    <3>3. Cardinality(Holders(p)') = count[p] - 1
      BY <3>1, <3>2, FS_RemoveElement
    <3>4. /\ count' \in [Procs -> 0..Cardinality(Tasks)] /\ count'[p] = count[p] - 1
          /\ \A q \in Procs : q # p => count'[q] = count[q]
      BY <1>1, <2>2, <3>2 DEF LInv, LockTypeOK
    <3>5. QED
      BY <1>2, <3>3, <3>4 DEF LInv, CountIsHolders
  <2>3. QED
    BY <2>1, <2>2
<1>4. LockTypeOK'
  <2>1. /\ shares' \subseteq {u \in Tasks : task'[u] = "holding"}
        /\ robbed' \subseteq {u \in Tasks : task'[u] \in {"opened", "written", "holding"}}
    BY <1>1 DEF LInv, LockTypeOK
  <2>2. QED
    BY <1>1, <1>3, <2>1 DEF LInv, LockTypeOK, Stages
<1>5. OwnersSound'
  BY <1>1 DEF LInv, LockTypeOK, OwnersSound, Exists
<1>6. WritersRely'
  <2>1. Relying \ {t} \subseteq Relying'
    BY <1>1 DEF Relying, Holders, Exists
  <2>2. QED
    BY <1>1, <2>1 DEF LInv, LockTypeOK, WritersRely, Writing
<1>7. QED
  BY <1>3, <1>4, <1>5, <1>6 DEF LInv

LEMMA WatchdogForcesKeeps ==
  ASSUME LInv, NEW p \in Procs, WatchdogForces(p)
  PROVE  LInv'
<1>1. /\ p \in Actors /\ DropEntry(p, p) /\ watchdog' = watchdog \cup {p}
      /\ shares' = shares \ Holders(p) /\ robbed' = robbed \cup Holders(p)
      /\ UNCHANGED <<startTimes, task, armed, cleaner, deaths>>
  BY DEF WatchdogForces, Actors
<1>2. /\ file' \in LockFile \cup {NoFile} /\ Exists' = Exists
      /\ Exists => file'.proc = file.proc
      /\ Exists => file'.owner = IF file.owner = p THEN Nobody ELSE file.owner
      /\ decided' \in [Actors -> Known]
      /\ count' \in [Procs -> 0..Cardinality(Tasks)] /\ count'[p] = 0
      /\ \A q \in Procs : q # p => count'[q] = count[q]
  BY <1>1, DropEntryFacts
<1>3. Holders(p)' = {} /\ \A q \in Procs : q # p => Holders(q)' = Holders(q)
  BY <1>1 DEF Holders
<1>4. LockTypeOK'
  <2>1. robbed' \subseteq {u \in Tasks : task[u] \in {"opened", "written", "holding"}}
    BY <1>1 DEF LInv, LockTypeOK, Holders
  <2>2. QED
    BY <1>1, <1>2, <2>1 DEF LInv, LockTypeOK, Known
<1>5. CountIsHolders'
  BY <1>2, <1>3, FS_EmptySet DEF LInv, CountIsHolders
<1>6. OwnersSound'
  BY <1>1, <1>2, ValuesAssumption DEF LInv, LockTypeOK, OwnersSound
<1>7. WritersRely'
  <2>1. Relying \ Holders(p) \subseteq Relying'
    BY <1>1, DropEntryRelies
  <2>2. QED
    BY <1>1, <2>1 DEF LInv, WritersRely
<1>8. QED
  BY <1>4, <1>5, <1>6, <1>7 DEF LInv

-------------------------------------------------------------------------------
(* The cleaner, signals, time, death                                        *)

LEMMA CleanerKeeps ==
  ASSUME LInv, CleanerLists \/ CleanerReads \/ Age
  PROVE  LInv'
<1>1. /\ cleaner' \in {"idle", "listed", "removing"}
      /\ decided' = decided \/ decided' = [decided EXCEPT ![Cleaner] = Seen]
      /\ file' = file \/ (Exists /\ file' = [file EXCEPT !.old = TRUE])
      /\ UNCHANGED <<startTimes, count, task, shares, armed, watchdog, robbed, deaths>>
  BY DEF CleanerLists, CleanerReads, Age, LInv, LockTypeOK
<1>2. Seen \in Known
  BY DEF Seen, Known
<1>3. decided' \in [Actors -> Known]
  BY <1>1, <1>2 DEF LInv, LockTypeOK, Known
<1>4. /\ file' \in LockFile \cup {NoFile} /\ Exists' = Exists
      /\ Exists => file'.owner = file.owner /\ file'.proc = file.proc
  <2>1. file \in LockFile \cup {NoFile}
    BY DEF LInv, LockTypeOK
  <2>2. CASE file' = file
    BY <2>1, <2>2 DEF Exists
  <2>3. CASE Exists /\ file' = [file EXCEPT !.old = TRUE]
    <3>1. file \in LockFile
      BY <2>1, <2>3 DEF Exists
    <3>2. file' \in LockFile /\ file'.owner = file.owner /\ file'.proc = file.proc
      BY <2>3, <3>1 DEF LockFile
    <3>3. QED
      BY <2>3, <3>2, ValuesAssumption DEF Exists
  <2>4. QED
    BY <1>1, <2>2, <2>3
<1>5. LockTypeOK'
  BY <1>1, <1>3, <1>4 DEF LInv, LockTypeOK, Known
<1>6. CountIsHolders'
  BY <1>1, CountIsHoldersUnchanged
<1>7. OwnersSound'
  BY <1>1, <1>4 DEF LInv, OwnersSound
<1>8. WritersRely'
  BY <1>1, <1>4, SameOwnerRelies
<1>9. QED
  BY <1>5, <1>6, <1>7, <1>8 DEF LInv

LEMMA SignalKeeps ==
  ASSUME LInv, NEW p \in Procs, SignalReleases(p)
  PROVE  LInv'
<1>1. /\ \/ /\ count[p] > 0 /\ file' = NoFile /\ decided' = Superseded
            /\ robbed' = robbed \cup Holders(p) \cup Relying
         \/ ~(count[p] > 0) /\ UNCHANGED <<file, decided, robbed>>
      /\ count' = [count EXCEPT ![p] = 0] /\ shares' = shares \ Holders(p)
      /\ armed' = armed \ {p}
      /\ UNCHANGED <<startTimes, task, watchdog, cleaner, deaths>>
  BY DEF SignalReleases
<1>2. /\ Cardinality(Tasks) \in Nat /\ count[p] \in Nat /\ Holders(p) \subseteq shares
      /\ ~(count[p] > 0) => Holders(p) = {}
  <2>1. Holders(p) \subseteq shares
    BY DEF Holders
  <2>2. QED
    BY <2>1, HoldersAreFinite
<1>3. Holders(p)' = {} /\ \A q \in Procs : q # p => Holders(q)' = Holders(q)
  BY <1>1 DEF Holders
<1>4. /\ count' \in [Procs -> 0..Cardinality(Tasks)] /\ count'[p] = 0
      /\ \A q \in Procs : q # p => count'[q] = count[q]
  BY <1>1, <1>2 DEF LInv, LockTypeOK
<1>5. LockTypeOK'
  <2>1. Superseded \in [Actors -> Known]
    BY DEF Superseded, LInv, LockTypeOK, Known
  <2>2. /\ robbed' \subseteq {u \in Tasks : task[u] \in {"opened", "written", "holding"}}
    BY <1>1, <1>2, RelyingFacts DEF LInv, LockTypeOK, Writing
  <2>3. QED
    BY <1>1, <1>4, <2>1, <2>2 DEF LInv, LockTypeOK, Known
<1>6. CountIsHolders'
  BY <1>3, <1>4, FS_EmptySet DEF LInv, CountIsHolders
<1>7. OwnersSound'
  BY <1>1 DEF LInv, OwnersSound, Exists
<1>8. WritersRely'
  <2>1. CASE count[p] > 0
    BY <1>1, <2>1 DEF LInv, WritersRely
  <2>2. CASE ~(count[p] > 0)
    BY <1>1, <1>2, <2>2, SameOwnerRelies DEF Exists
  <2>3. QED
    BY <2>1, <2>2
<1>9. QED
  BY <1>5, <1>6, <1>7, <1>8 DEF LInv

LEMMA DeathKeeps ==
  ASSUME LInv, NEW p \in Procs, Crash(p) \/ Exit(p)
  PROVE  LInv'
<1>1. /\ deaths < MaxDeaths /\ deaths' = deaths + 1
      /\ count' = [count EXCEPT ![p] = 0]
      /\ task' = [t \in Tasks |-> IF ProcOf[t] = p THEN "idle" ELSE task[t]]
      /\ shares' = shares \ Holders(p) /\ armed' = armed \ {p} /\ watchdog' = watchdog \ {p}
      /\ UNCHANGED <<startTimes, cleaner>>
  BY DEF Crash, Exit, Dies
<1>2. /\ decided' \in [Actors -> Known]
      /\ \/ robbed' = robbed \ TasksOf(p)
         \/ robbed' = (robbed \cup Relying) \ TasksOf(p)
  <2>1. Superseded \in [Actors -> Known] /\ decided \in [Actors -> Known] /\ "none" \in Known
    BY DEF Superseded, LInv, LockTypeOK, Known
  <2>2. QED
    BY <2>1 DEF Crash, Exit
<1>3. Holders(p)' = {} /\ \A q \in Procs : q # p => Holders(q)' = Holders(q)
  BY <1>1 DEF Holders
<1>4. Cardinality(Tasks) \in Nat /\ MaxDeaths \in Nat
  BY LockAssumption, FS_CardinalityType
<1>5. /\ count' \in [Procs -> 0..Cardinality(Tasks)] /\ count'[p] = 0
      /\ \A q \in Procs : q # p => count'[q] = count[q]
  BY <1>1, <1>4 DEF LInv, LockTypeOK
<1>6. /\ file' \in LockFile \cup {NoFile}
      /\ \/ Exit(p) /\ ~Exists'
         \/ /\ Crash(p) /\ Exists' = Exists
            /\ Exists => /\ file'.proc = file.proc
                         /\ file'.owner = IF file.proc = p THEN Nobody ELSE file.owner
  <2>1. file \in LockFile \cup {NoFile}
    BY DEF LInv, LockTypeOK
  <2>2. CASE Exit(p)
    BY <2>2 DEF Exit, Exists
  <2>3. ASSUME Crash(p), NEW fate \in {"dead", "reused"},
               file' = IF Exists /\ file.proc = p
                       THEN [file EXCEPT !.owner = Nobody, !.fate = fate] ELSE file
        PROVE  /\ file' \in LockFile \cup {NoFile} /\ Exists' = Exists
               /\ Exists => /\ file'.proc = file.proc
                            /\ file'.owner = IF file.proc = p THEN Nobody ELSE file.owner
    <3>1. CASE ~(Exists /\ file.proc = p)
      BY <2>1, <2>3, <3>1 DEF Exists
    <3>2. CASE Exists /\ file.proc = p
      <4>1. file \in LockFile
        BY <2>1, <3>2 DEF Exists
      <4>2. file' \in LockFile /\ file'.owner = Nobody /\ file'.proc = file.proc
        BY <2>3, <3>2, <4>1 DEF LockFile
      <4>3. QED
        BY <3>2, <4>2, ValuesAssumption DEF Exists
    <3>3. QED
      BY <3>1, <3>2
  <2>4. CASE Crash(p)
    <3>1. PICK fate \in {"dead", "reused"} :
            file' = IF Exists /\ file.proc = p
                    THEN [file EXCEPT !.owner = Nobody, !.fate = fate] ELSE file
      BY <2>4 DEF Crash
    <3>2. QED
      BY <2>3, <2>4, <3>1
  <2>5. QED
    BY <2>2, <2>4
<1>7. LockTypeOK'
  <2>1. task' \in [Tasks -> Stages]
    BY <1>1 DEF LInv, LockTypeOK, Stages
  <2>2. shares' \subseteq {t \in Tasks : task'[t] = "holding"}
    BY <1>1 DEF LInv, LockTypeOK, Holders
  <2>3. deaths' \in 0..MaxDeaths
    BY <1>1, <1>4 DEF LInv, LockTypeOK
  <2>4. /\ robbed' \subseteq {t \in Tasks : task'[t] \in {"opened", "written", "holding"}}
    BY <1>1, <1>2, RelyingFacts DEF LInv, LockTypeOK, Writing, TasksOf
  <2>5. QED
    BY <1>1, <1>2, <1>5, <1>6, <2>1, <2>2, <2>3, <2>4 DEF LInv, LockTypeOK, Known
<1>8. CountIsHolders'
  BY <1>3, <1>5, FS_EmptySet DEF LInv, CountIsHolders
<1>9. OwnersSound'
  <2>1. Exists' /\ file'.owner \in Tasks => file.owner \in Tasks /\ file.proc # p
                                            /\ file'.owner = file.owner
    BY <1>6, ValuesAssumption
  <2>2. Exists' /\ file'.owner \in Procs => file'.owner = file.owner
    BY <1>6, ValuesAssumption
  <2>3. QED
    BY <1>1, <1>6, <2>1, <2>2 DEF LInv, LockTypeOK, OwnersSound
<1>10. WritersRely'
  <2>1. \A t \in Tasks : task'[t] \in Writing => task[t] \in Writing /\ t \notin TasksOf(p)
    BY <1>1 DEF Writing, TasksOf
  <2>2. CASE Exit(p)
    BY <2>1, <2>2 DEF LInv, WritersRely, Exit
  <2>3. CASE /\ Crash(p) /\ Exists' = Exists
             /\ Exists => file'.owner = IF file.proc = p THEN Nobody ELSE file.owner
    <3>1. Relying \ TasksOf(p) \subseteq Relying'
      <4>1. SUFFICES ASSUME NEW t \in Tasks, t \in Relying, ProcOf[t] # p
                     PROVE  t \in Relying'
        BY RelyingFacts DEF TasksOf
      <4>2. /\ Exists /\ (file.owner = t \/ (file.owner = ProcOf[t] /\ t \in shares))
            /\ file.proc = ProcOf[t] /\ ProcOf[t] \in Procs /\ ProcOf[t] \notin Tasks
        BY <4>1, RelyingFacts, LockAssumption DEF LInv, OwnersSound
      <4>3. Exists' /\ file'.owner = file.owner
        BY <2>3, <4>1, <4>2
      <4>4. t \in shares => t \in Holders(ProcOf[t])'
        BY <1>1, <4>1 DEF Holders
      <4>5. QED
        BY <4>2, <4>3, <4>4 DEF Relying
    <3>2. robbed' = robbed \ TasksOf(p)
      BY <2>3 DEF Crash
    <3>3. QED
      BY <2>1, <3>1, <3>2 DEF LInv, WritersRely
  <2>4. QED
    BY <1>6, <2>2, <2>3
<1>11. QED
  BY <1>7, <1>8, <1>9, <1>10 DEF LInv

-------------------------------------------------------------------------------
LEMMA NextKeepsLInv == LInv /\ [Next]_vars => LInv'
<1> SUFFICES ASSUME LInv, [Next]_vars PROVE LInv'
  OBVIOUS
<1>1. ASSUME NEW t \in Tasks, TaskStep(t) \/ AcquireReentrant(t) \/ Release(t)
      PROVE  LInv'
  <2>1. t \in Actors
    BY DEF Actors
  <2>2. CASE Call(t) \/ BeginAcquire(t) \/ Contend(t) \/ Retry(t) \/ TimeOut(t)
    BY <2>2, WaitingKeeps
  <2>3. CASE OpenExclusive(t) \/ WritePayload(t) \/ SetHeld(t) \/ AcquireReentrant(t)
    BY <2>3, OpenExclusiveKeeps, WritePayloadKeeps, SetHeldKeeps, AcquireReentrantKeeps
  <2>4. CASE WriteFails(t) \/ Reclaim(t) \/ Close(t)
    BY <2>1, <2>4, RemovalsKeep
  <2>5. CASE Release(t)
    BY <2>5, ReleaseLastKeeps, ReleaseOtherKeeps
  <2>6. QED
    BY <1>1, <2>2, <2>3, <2>4, <2>5 DEF TaskStep
<1>2. ASSUME NEW p \in Procs, ProcStep(p)
      PROVE  LInv'
  <2>1. p \in Actors
    BY DEF Actors
  <2>2. QED
    BY <1>2, <2>1, WatchdogForcesKeeps, RemovalsKeep, SignalKeeps, DeathKeeps DEF ProcStep
<1>3. CASE CleanerLists \/ CleanerReads \/ Age
  BY <1>3, CleanerKeeps
<1>4. CASE CleanerRemoves
  BY <1>4, RemovalsKeep DEF Actors
<1>5. CASE UNCHANGED vars
  BY <1>5 DEF vars, LInv, LockTypeOK, CountIsHolders, Holders, OwnersSound, WritersRely,
     Relying, Exists
<1>6. QED
  BY <1>1, <1>2, <1>3, <1>4, <1>5 DEF Next

THEOREM InductiveInvariant == Spec => []LInv
BY InitLInv, NextKeepsLInv, PTL DEF Spec

\* Every variable keeps its type, in particular no count goes below zero or past the number
\* of tasks.
THEOREM LockTypes == Spec => []LockTypeOK
<1>1. LInv => LockTypeOK
  BY DEF LInv
<1>2. QED
  BY <1>1, InductiveInvariant, PTL

\* The count of an entry is the number of its holders, through nested acquires, forced
\* releases, entries that are replaced, signals and deaths.
THEOREM CountsAreHolders == Spec => []CountIsHolders
<1>1. LInv => CountIsHolders
  BY DEF LInv
<1>2. QED
  BY <1>1, InductiveInvariant, PTL

\* Tasks of two processes hold the lock at once only if one of them was robbed of it, by
\* its watchdog, by a signal that its process survived, or by the removal of its file.
THEOREM MutualExclusion == Spec => []WritersExclude
<1>1. ASSUME LInv
      PROVE  WritersExclude
  <2>1. SUFFICES ASSUME NEW t \in Tasks \ robbed, NEW u \in Tasks \ robbed,
                        At(t, "holding"), At(u, "holding")
                 PROVE  ProcOf[t] = ProcOf[u]
    BY DEF WritersExclude
  <2>2. t \in Relying /\ u \in Relying
    BY <1>1, <2>1 DEF LInv, WritersRely, Writing, At
  <2>3. Exists /\ file.owner \notin Tasks
    BY <1>1, <2>1, <2>2, RelyingFacts DEF LInv, OwnersSound, Relying, At
  <2>4. file.owner = ProcOf[t] /\ file.owner = ProcOf[u]
    BY <1>1, <2>2, <2>3, RelyingFacts
  <2>5. QED
    BY <2>4
<1>2. QED
  BY <1>1, InductiveInvariant, PTL

-------------------------------------------------------------------------------
(* What a remover knows of the file                                         *)

\* The file of a process that is gone belongs to nobody; that of a process is in its map.
OwnersLive ==
    /\ Exists /\ file.fate # "alive" => file.owner = Nobody
    /\ Exists /\ file.owner \in Procs => count[file.owner] > 0

\* What justifies a's removal of the present file, on which it decided.
Grounds(a) ==
    \/ file.owner = Nobody
    \/ file.old
    \/ a = Cleaner /\ decided[a] = "empty"
    \/ a \in Tasks /\ decided[a] = "unheld" /\ ~startTimes /\ ProcOf[a] = file.proc

\* Who decided on the present file, which is still there, has grounds to remove it.
Decided(a) == decided[a] \notin {"none", "former"}
DecisionsGrounded == \A a \in Actors : Decided(a) => Exists /\ Grounds(a)

KInv == LInv /\ OwnersLive /\ DecisionsGrounded

\* As long as it is the same file, grounds once given remain.
SameFile ==
    /\ Exists' = Exists
    /\ Exists => /\ file'.proc = file.proc
                 /\ file.old => file'.old
                 /\ file.owner = Nobody => file'.owner = Nobody
    /\ UNCHANGED startTimes

LEMMA GroundsRemain ==
  ASSUME DecisionsGrounded, SameFile, NEW a \in Actors,
         decided'[a] = decided[a] \/ decided'[a] \in {"none", "former"}
  PROVE  Decided(a)' => Exists' /\ Grounds(a)'
BY DEF DecisionsGrounded, SameFile, Grounds, Decided

\* A contender that removes the file has grounds: what it takes for an orphan of its own
\* process is either still being created there, or left behind.
LEMMA ContenderHasGrounds ==
  ASSUME LInv, OwnersLive, NEW t \in Tasks, Exists, Reclaims(t)
  PROVE  \/ file.owner = Nobody
         \/ file.old
         \/ Seen = "unheld" /\ ~startTimes /\ ProcOf[t] = file.proc
<1>1. file \in LockFile /\ file.owner \in Tasks \cup Procs \cup {Nobody}
  BY DEF LInv, LockTypeOK, Exists, LockFile
<1>2. CASE Stale
  BY <1>2 DEF Stale, ProcessGone, OwnersLive
<1>3. CASE ~file.written /\ file.old
  BY <1>3
<1>4. CASE OrphanSelf(ProcOf[t])
  <2>1. file.written /\ ~startTimes /\ file.proc = ProcOf[t] /\ count[ProcOf[t]] = 0
    BY <1>4 DEF OrphanSelf
  <2>2. CASE file.owner \in Procs
    BY <2>1, <2>2 DEF OwnersLive, LInv, OwnersSound
  <2>3. CASE file.owner \in Tasks
    BY <2>1, <2>3 DEF Seen
  <2>4. QED
    BY <1>1, <2>2, <2>3
<1>5. QED
  BY <1>2, <1>3, <1>4 DEF Reclaims

\* The starting gateway may, besides, have found the file before its payload.
LEMMA CleanerHasGrounds ==
  ASSUME OwnersLive, Exists, CleanerFindsStale
  PROVE  file.owner = Nobody \/ file.old \/ Seen = "empty"
BY DEF OwnersLive, CleanerFindsStale, Stale, ProcessGone, Seen

\* After a removal nobody knows of the present file, since there is none.
LEMMA RemovedIsFormer ==
  ASSUME KInv, LInv', file' = NoFile,
         \A x \in Actors : decided'[x] \in {"none", Superseded[x]}
  PROVE  KInv'
<1>1. \A x \in Actors : Superseded[x] \in {"none", "former"}
  BY DEF KInv, DecisionsGrounded, Decided, Superseded
<1>2. ~Exists' /\ \A x \in Actors : ~Decided(x)'
  BY <1>1 DEF Exists, Decided
<1>3. QED
  BY <1>2 DEF KInv, OwnersLive, DecisionsGrounded

LEMMA RemovalKnows ==
  ASSUME KInv, LInv', NEW a \in Actors, RemoveFile(a)
  PROVE  KInv'
<1>1. file' = NoFile /\ \A x \in Actors : decided'[x] \in {"none", Superseded[x]}
  BY DEF RemoveFile, Superseded
<1>2. QED
  BY <1>1, RemovedIsFormer

\* Steps that leave the decisions alone.
LEMMA UndecidedStep ==
  ASSUME KInv, LInv', SameFile,
         UNCHANGED decided, OwnersLive'
  PROVE  KInv'
<1>1. DecisionsGrounded'
  BY GroundsRemain DEF KInv, DecisionsGrounded
<1>2. QED
  BY <1>1 DEF KInv

\* Who drops the entry of a process has grounds: the file is nobody's from then on.
LEMMA DropEntryKnows ==
  ASSUME KInv, LInv', NEW p \in Procs, NEW a \in Actors, DropEntry(p, a),
         UNCHANGED startTimes
  PROVE  KInv'
<1>1. /\ Exists' = Exists
      /\ Exists => /\ file'.proc = file.proc
                   /\ file'.owner = IF file.owner = p THEN Nobody ELSE file.owner
      /\ \A q \in Procs : q # p => count'[q] = count[q]
  BY DropEntryFacts DEF KInv
<1>2. Exists => file'.old = file.old /\ file'.fate = file.fate
  <2>1. SUFFICES ASSUME Exists, file \in LockFile
                 PROVE  file'.old = file.old /\ file'.fate = file.fate
    BY DEF KInv, LInv, LockTypeOK, Exists
  <2>2. QED
    BY <2>1 DEF DropEntry, LockFile
<1>3. SameFile
  BY <1>1, <1>2 DEF SameFile
<1>4. OwnersLive'
  BY <1>1, <1>2, ValuesAssumption DEF KInv, OwnersLive
<1>5. /\ decided'[a] = IF Intact(p) THEN "full" ELSE "former"
      /\ \A x \in Actors \ {a} : decided'[x] = decided[x]
  BY DEF DropEntry, KInv, LInv, LockTypeOK
<1>6. Decided(a)' => Exists' /\ Grounds(a)'
  BY <1>1, <1>5 DEF Decided, Intact, Grounds
<1>7. \A x \in Actors : Decided(x)' => Exists' /\ Grounds(x)'
  BY <1>3, <1>5, <1>6, GroundsRemain DEF KInv
<1>8. QED
  BY <1>4, <1>7 DEF KInv, DecisionsGrounded

LEMMA TaskKnows ==
  ASSUME KInv, LInv', NEW t \in Tasks, TaskStep(t) \/ AcquireReentrant(t) \/ Release(t)
  PROVE  KInv'
<1>1. t \in Actors /\ ProcOf[t] \in Procs /\ t \notin Procs
  BY LockAssumption DEF Actors
<1>2. file \in LockFile \cup {NoFile}
  BY DEF KInv, LInv, LockTypeOK
<1>3. CASE Call(t) \/ BeginAcquire(t) \/ Retry(t) \/ TimeOut(t)
  <2>1. UNCHANGED <<file, startTimes, count, decided>>
    BY <1>3 DEF Call, BeginAcquire, Retry, TimeOut
  <2>2. SameFile /\ OwnersLive'
    BY <2>1 DEF SameFile, Exists, KInv, OwnersLive
  <2>3. QED
    BY <2>1, <2>2, UndecidedStep
<1>4. CASE AcquireReentrant(t)
  <2>1. UNCHANGED <<file, startTimes, decided>>
        /\ count' = [count EXCEPT ![ProcOf[t]] = @ + 1]
    BY <1>4 DEF AcquireReentrant, JoinHolders
  <2>2. Cardinality(Tasks) \in Nat
    BY LockAssumption, FS_CardinalityType
  <2>3. \A p \in Procs : count[p] > 0 => count'[p] > 0
    BY <2>1, <2>2 DEF KInv, LInv, LockTypeOK
  <2>4. SameFile /\ OwnersLive'
    BY <2>1, <2>3 DEF SameFile, Exists, KInv, OwnersLive
  <2>5. QED
    BY <2>1, <2>4, UndecidedStep
<1>5. CASE OpenExclusive(t)
  <2> DEFINE f == [owner |-> t, proc |-> ProcOf[t], written |-> FALSE, old |-> FALSE,
                   fate |-> "alive"]
  <2>1. ~Exists /\ file' = f /\ UNCHANGED <<decided, startTimes>>
    BY <1>5 DEF OpenExclusive
  <2>2. \A a \in Actors : ~Decided(a)'
    BY <2>1 DEF KInv, DecisionsGrounded, Decided
  <2>3. f.fate = "alive" /\ f.owner \notin Procs
    BY <1>1
  <2>4. OwnersLive'
    BY <2>1, <2>3 DEF OwnersLive
  <2>5. QED
    BY <2>2, <2>4 DEF KInv, DecisionsGrounded
<1>6. CASE WritePayload(t)
  <2>1. /\ file' = file \/ (Exists /\ file' = [file EXCEPT !.written = TRUE])
        /\ UNCHANGED <<startTimes, count, decided>>
    BY <1>6 DEF WritePayload
  <2>2. SameFile /\ OwnersLive'
    <3>1. CASE file' = file
      BY <2>1, <3>1 DEF SameFile, Exists, KInv, OwnersLive
    <3>2. CASE Exists /\ file' = [file EXCEPT !.written = TRUE]
      <4>1. file \in LockFile
        BY <1>2, <3>2 DEF Exists
      <4>2. /\ file' \in LockFile /\ file'.owner = file.owner /\ file'.proc = file.proc
            /\ file'.old = file.old /\ file'.fate = file.fate
        BY <3>2, <4>1 DEF LockFile
      <4>3. QED
        BY <2>1, <3>2, <4>2, ValuesAssumption DEF SameFile, Exists, KInv, OwnersLive
    <3>3. QED
      BY <2>1, <3>1, <3>2
  <2>3. QED
    BY <2>1, <2>2, UndecidedStep
<1>7. CASE SetHeld(t)
  <2>1. /\ count' = [count EXCEPT ![ProcOf[t]] = 1]
        /\ file' = IF Exists /\ file.owner = t THEN [file EXCEPT !.owner = ProcOf[t]]
                   ELSE file
        /\ UNCHANGED <<startTimes, decided>>
    BY <1>7 DEF SetHeld
  <2>2. Cardinality(Tasks) \in Nat
    BY LockAssumption, FS_CardinalityType
  <2>3. count'[ProcOf[t]] > 0 /\ \A p \in Procs : count[p] > 0 => count'[p] > 0
    BY <1>1, <2>1, <2>2 DEF KInv, LInv, LockTypeOK
  <2>4. SameFile /\ OwnersLive'
    <3>1. CASE ~(Exists /\ file.owner = t)
      BY <2>1, <2>3, <3>1 DEF SameFile, Exists, KInv, OwnersLive
    <3>2. CASE Exists /\ file.owner = t
      <4>1. file \in LockFile /\ file.fate = "alive"
        BY <1>2, <3>2, ValuesAssumption DEF Exists, KInv, OwnersLive
      <4>2. /\ file' \in LockFile /\ file'.owner = ProcOf[t] /\ file'.proc = file.proc
            /\ file'.old = file.old /\ file'.fate = file.fate
        BY <1>1, <2>1, <3>2, <4>1 DEF LockFile
      <4>3. t # Nobody
        BY ValuesAssumption
      <4>4. QED
        BY <2>1, <2>3, <3>2, <4>1, <4>2, <4>3, ValuesAssumption DEF SameFile, Exists, OwnersLive
    <3>3. QED
      BY <3>1, <3>2
  <2>5. QED
    BY <2>1, <2>4, UndecidedStep
<1>8. CASE WriteFails(t) \/ Reclaim(t) \/ Close(t)
  <2>1. CASE WriteFails(t)
    BY <2>1, RemovedIsFormer DEF WriteFails
  <2>2. CASE Reclaim(t) \/ Close(t)
    BY <1>1, <2>2, RemovalKnows DEF Reclaim, Close
  <2>3. QED
    BY <1>8, <2>1, <2>2
<1>9. CASE Contend(t)
  <2>1. /\ Exists /\ UNCHANGED <<startTimes, file, count>>
        /\ \/ Reclaims(t) /\ decided' = [decided EXCEPT ![t] = Seen]
           \/ UNCHANGED decided
    BY <1>9 DEF Contend
  <2>2. SameFile /\ OwnersLive'
    BY <2>1 DEF SameFile, Exists, KInv, OwnersLive
  <2>3. CASE UNCHANGED decided
    BY <2>2, <2>3, UndecidedStep
  <2>4. CASE Reclaims(t) /\ decided' = [decided EXCEPT ![t] = Seen]
    <3>1. decided'[t] = Seen /\ \A a \in Actors \ {t} : decided'[a] = decided[a]
      BY <1>1, <2>4 DEF KInv, LInv, LockTypeOK
    <3>2. Grounds(t)'
      BY <2>1, <2>4, <3>1, ContenderHasGrounds DEF KInv, Grounds
    <3>3. \A a \in Actors : Decided(a)' => Exists' /\ Grounds(a)'
      BY <2>1, <2>2, <3>1, <3>2, GroundsRemain DEF KInv, SameFile
    <3>4. QED
      BY <2>2, <3>3 DEF KInv, DecisionsGrounded
  <2>5. QED
    BY <2>1, <2>3, <2>4
<1>10. CASE Release(t)
  <2>1. CASE t \in shares /\ count[ProcOf[t]] = 1
    BY <1>1, <1>10, <2>1, DropEntryKnows DEF Release
  <2>2. CASE ~(t \in shares /\ count[ProcOf[t]] = 1)
    <3>1. /\ UNCHANGED <<startTimes, file, decided>>
          /\ count' = IF t \in shares THEN [count EXCEPT ![ProcOf[t]] = @ - 1] ELSE count
      BY <1>10, <2>2 DEF Release
    <3>2. Cardinality(Tasks) \in Nat
      BY LockAssumption, FS_CardinalityType
    <3>3. \A p \in Procs : count[p] > 0 => count'[p] > 0
      BY <1>1, <2>2, <3>1, <3>2 DEF KInv, LInv, LockTypeOK
    <3>4. SameFile /\ OwnersLive'
      BY <3>1, <3>3 DEF SameFile, Exists, KInv, OwnersLive
    <3>5. QED
      BY <3>1, <3>4, UndecidedStep
  <2>3. QED
    BY <2>1, <2>2
<1>11. QED
  BY <1>3, <1>4, <1>5, <1>6, <1>7, <1>8, <1>9, <1>10 DEF TaskStep

LEMMA WatchdogAndCleanerKnow ==
  ASSUME KInv, LInv',
         \/ \E p \in Procs : WatchdogForces(p) \/ WatchdogCloses(p)
         \/ CleanerLists \/ CleanerReads \/ CleanerRemoves \/ Age
  PROVE  KInv'
<1>1. Cleaner \in Actors /\ Cleaner \notin Tasks /\ Procs \subseteq Actors
  BY LockAssumption DEF Actors
<1>2. ASSUME NEW p \in Procs, WatchdogForces(p)
      PROVE  KInv'
  BY <1>1, <1>2, DropEntryKnows DEF WatchdogForces
<1>3. ASSUME NEW a \in Actors, RemoveFile(a)
      PROVE  KInv'
  BY <1>3, RemovalKnows
<1>4. CASE CleanerLists
  <2>1. SameFile /\ OwnersLive' /\ UNCHANGED decided
    BY <1>4 DEF CleanerLists, SameFile, Exists, KInv, OwnersLive
  <2>2. QED
    BY <2>1, UndecidedStep
<1>5. CASE CleanerReads
  <2>1. SameFile /\ OwnersLive' /\ UNCHANGED <<file, startTimes>>
    BY <1>5 DEF CleanerReads, SameFile, Exists, KInv, OwnersLive
  <2>2. CASE UNCHANGED decided
    BY <2>1, <2>2, UndecidedStep
  <2>3. CASE CleanerFindsStale /\ decided' = [decided EXCEPT ![Cleaner] = Seen]
    <3>1. decided'[Cleaner] = Seen
          /\ \A a \in Actors \ {Cleaner} : decided'[a] = decided[a]
      BY <1>1, <2>3 DEF KInv, LInv, LockTypeOK
    <3>2. Decided(Cleaner)' => Exists
      BY <3>1 DEF Decided, Seen
    <3>3. Decided(Cleaner)' => Exists' /\ Grounds(Cleaner)'
      BY <2>1, <2>3, <3>1, <3>2, CleanerHasGrounds DEF KInv, Grounds, Exists
    <3>4. \A a \in Actors : Decided(a)' => Exists' /\ Grounds(a)'
      BY <2>1, <3>1, <3>3, GroundsRemain DEF KInv
    <3>5. QED
      BY <2>1, <3>4 DEF KInv, DecisionsGrounded
  <2>4. QED
    BY <1>5, <2>2, <2>3 DEF CleanerReads
<1>6. CASE Age
  <2>1. Exists /\ file' = [file EXCEPT !.old = TRUE] /\ file \in LockFile
        /\ UNCHANGED <<startTimes, count, decided>>
    BY <1>6 DEF Age, KInv, LInv, LockTypeOK, Exists
  <2>2. /\ file' \in LockFile /\ file'.owner = file.owner /\ file'.proc = file.proc
        /\ file'.old /\ file'.fate = file.fate
    BY <2>1 DEF LockFile
  <2>3. SameFile /\ OwnersLive'
    BY <2>1, <2>2, ValuesAssumption DEF SameFile, Exists, KInv, OwnersLive
  <2>4. QED
    BY <2>1, <2>3, UndecidedStep
<1>7. QED
  BY <1>1, <1>2, <1>3, <1>4, <1>5, <1>6 DEF WatchdogCloses, CleanerRemoves

\* A signal that the process survives removes the file with what others knew of it.
LEMMA SignalKnows ==
  ASSUME KInv, LInv', NEW p \in Procs, SignalReleases(p)
  PROVE  KInv'
<1>1. /\ count' = [count EXCEPT ![p] = 0] /\ UNCHANGED startTimes
      /\ \A q \in Procs : q # p => count'[q] = count[q]
  BY DEF SignalReleases, KInv, LInv, LockTypeOK
<1>2. CASE count[p] > 0
  BY <1>2, RemovedIsFormer DEF SignalReleases
<1>3. CASE ~(count[p] > 0)
  <2>1. UNCHANGED <<file, decided>>
    BY <1>3 DEF SignalReleases
  <2>2. \A q \in Procs : count[q] > 0 => count'[q] > 0
    BY <1>1, <1>3
  <2>3. SameFile /\ OwnersLive'
    BY <1>1, <2>1, <2>2 DEF SameFile, Exists, KInv, OwnersLive
  <2>4. QED
    BY <2>1, <2>3, UndecidedStep
<1>4. QED
  BY <1>2, <1>3

\* A death leaves the file to nobody, or removes it with what others knew of it.
LEMMA DeathKnows ==
  ASSUME KInv, LInv', NEW p \in Procs, Crash(p) \/ Exit(p)
  PROVE  KInv'
<1>1. /\ count' = [count EXCEPT ![p] = 0] /\ UNCHANGED startTimes
      /\ \A q \in Procs : q # p => count'[q] = count[q]
  BY DEF Crash, Exit, Dies, KInv, LInv, LockTypeOK
<1>2. CASE Crash(p)
  <2>1. PICK fate \in {"dead", "reused"} :
          file' = IF Exists /\ file.proc = p
                  THEN [file EXCEPT !.owner = Nobody, !.fate = fate] ELSE file
    BY <1>2 DEF Crash
  <2>2. \A a \in Actors : decided'[a] = decided[a] \/ decided'[a] = "none"
    BY <1>2 DEF Crash
  <2>3. SameFile /\ OwnersLive'
    <3>1. CASE ~(Exists /\ file.proc = p)
      BY <1>1, <2>1, <3>1 DEF SameFile, Exists, KInv, OwnersLive, LInv, OwnersSound
    <3>2. CASE Exists /\ file.proc = p
      <4>1. file \in LockFile
        BY <3>2 DEF KInv, LInv, LockTypeOK, Exists
      <4>2. /\ file' \in LockFile /\ file'.owner = Nobody /\ file'.proc = file.proc
            /\ file'.old = file.old
        BY <2>1, <3>2, <4>1 DEF LockFile
      <4>3. QED
        BY <1>1, <3>2, <4>2, ValuesAssumption DEF SameFile, Exists, OwnersLive
    <3>3. QED
      BY <3>1, <3>2
  <2>4. QED
    BY <2>2, <2>3, GroundsRemain DEF KInv, DecisionsGrounded
<1>3. CASE Exit(p)
  BY <1>3, RemovedIsFormer DEF Exit
<1>4. QED
  BY <1>2, <1>3

LEMMA NextKeepsKInv == KInv /\ [Next]_vars => KInv'
<1> SUFFICES ASSUME KInv, [Next]_vars PROVE KInv'
  OBVIOUS
<1>1. LInv'
  BY NextKeepsLInv DEF KInv
<1>2. CASE Next
  BY <1>1, <1>2, TaskKnows, WatchdogAndCleanerKnow, SignalKnows, DeathKnows DEF Next, ProcStep
<1>3. CASE UNCHANGED vars
  BY <1>1, <1>3 DEF vars, KInv, OwnersLive, DecisionsGrounded, Decided, Grounds, Exists
<1>4. QED
  BY <1>2, <1>3

LEMMA KnowledgeInvariant == Spec => []KInv
<1>1. Init => KInv
  BY InitLInv DEF Init, KInv, OwnersLive, DecisionsGrounded, Decided, Exists
<1>2. QED
  BY <1>1, NextKeepsKInv, PTL DEF Spec

\* Who decided to remove the file, as a contender, a releaser, a watchdog or a starting
\* gateway, takes a live lock only for one of the reasons the property lists.
THEOREM RemovalsExplained == Spec => LiveRemovalHasCause
<1>1. ASSUME KInv, NEW a \in Actors, Exists, file.owner # Nobody, decided[a] # "none"
      PROVE  \/ decided[a] = "former"
             \/ file.old
             \/ a = Cleaner /\ decided[a] = "empty"
             \/ a \in Tasks /\ decided[a] = "unheld" /\ ~startTimes /\ ProcOf[a] = file.proc
  BY <1>1 DEF KInv, DecisionsGrounded, Decided, Grounds
<1>2. KInv /\ [Next]_vars =>
        [\A a \in Actors :
          (Exists /\ file' = NoFile /\ file.owner # Nobody
             /\ decided[a] # "none" /\ decided'[a] = "none")
          => \/ decided[a] = "former"
             \/ file.old
             \/ a = Cleaner /\ decided[a] = "empty"
             \/ a \in Tasks /\ decided[a] = "unheld" /\ ~startTimes /\ ProcOf[a] = file.proc]_vars
  BY <1>1
<1>3. QED
  BY <1>2, KnowledgeInvariant, PTL DEF Spec, LiveRemovalHasCause

================================================================================
