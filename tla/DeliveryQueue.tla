----------------------------- MODULE DeliveryQueue -----------------------------
(***************************************************************************)
(* The write-ahead queue of outbound messages.  deliverOutboundPayloads    *)
(* (infra/outbound/deliver.ts) writes an entry before it sends and removes *)
(* or updates it afterwards (delivery-queue-storage.ts);                   *)
(* recoverPendingDeliveries (delivery-queue-recovery.ts) resends, once per *)
(* start of the gateway, the entries it finds.  Every await is a step of   *)
(* its own, and the process may die between any two of them.               *)
(*                                                                         *)
(* A file operation is one step: rename and the write of a temporary file  *)
(* followed by rename are atomic.  The payloads of a message are one unit, *)
(* which may have reached the channel although the send reports an error   *)
(* (some of its payloads went out, or the answer was lost).                *)
(***************************************************************************)
EXTENDS Naturals, FiniteSets

CONSTANTS
    Messages,       \* messages observed, each delivered once; others are in HandleOther
    BestEffort,     \* those delivered with bestEffort: true
    Slots,          \* recoveries that may be in progress at once
    MaxRetries,     \* MAX_RETRIES
    NoEntry         \* no {id}.json file

ASSUME DeliveryAssumption ==
    /\ Messages # {} /\ BestEffort \subseteq Messages
    /\ Messages \cap Slots = {}
    /\ MaxRetries \in Nat \ {0}
    /\ NoEntry \notin [retries : Nat, attempted : BOOLEAN]

\* The live delivery of a message is named by the message, a recovery by its slot.
Workers == Messages \cup Slots

VARIABLES
    up,             \* the gateway process runs
    json,           \* message -> content of queue/{id}.json, or NoEntry
    marker,         \* messages with a queue/{id}.delivered file
    dead,           \* messages with a failed/{id}.json file
    job,            \* worker -> [pc, msg, copy]: the delivery it has in hand
    todo,           \* recovery -> the entries it loaded and has not handled
    phase,          \* recovery -> "fresh", "begun" (an entry was handled), "late"
    accepted,       \* history: messages whose entry was written
    settled,        \* history: messages acknowledged or given up
    cancelled,      \* history: messages whose delivery was aborted
    swallowed,      \* history: messages acknowledged after a swallowed error
    sent,           \* history: message -> times it reached the channel (to 2)
    uncertain,      \* history: messages sent without a record that they were
    overlapped,     \* history: messages scanned while a delivery was at work
    passed          \* history: recovery, message: the entry's backoff had not elapsed

files   == <<json, marker, dead>>
history == <<accepted, settled, cancelled, swallowed, sent, uncertain, overlapped>>
vars    == <<up, files, job, todo, phase, passed, history>>

Entry == [retries : 0..MaxRetries, attempted : BOOLEAN]
Pcs   == {"idle", "sending", "ack", "unlink", "failRead", "failWrite", "bury"}

Pending == {m \in Messages : json[m] # NoEntry}

\* A delivery of m is in hand, or loaded by a recovery that will come to it.
AtWork(m) ==
    \/ \E w \in Workers : job[w].pc # "idle" /\ job[w].msg = m
    \/ \E r \in Slots : m \in DOMAIN todo[r]

SomeMessage == CHOOSE m \in Messages : TRUE
Idle        == [pc |-> "idle", msg |-> SomeMessage, copy |-> NoEntry]
NoTodo      == [m \in {} |-> NoEntry]

DeliveryTypeOK ==
    /\ up \in BOOLEAN
    /\ json \in [Messages -> Entry \cup {NoEntry}]
    /\ marker \subseteq Messages /\ dead \subseteq Messages
    /\ job \in [Workers -> [pc : Pcs, msg : Messages, copy : Entry \cup {NoEntry}]]
    /\ todo \in [Slots -> UNION {[S -> Entry] : S \in SUBSET Messages}]
    /\ phase \in [Slots -> {"fresh", "begun", "late"}]
    /\ \A S \in {accepted, settled, cancelled, swallowed, uncertain, overlapped} :
            S \subseteq Messages
    /\ sent \in [Messages -> 0..2]
    /\ passed \subseteq Slots \X Messages

Init ==
    /\ up = TRUE
    /\ json = [m \in Messages |-> NoEntry]
    /\ marker = {} /\ dead = {}
    /\ job = [w \in Workers |-> Idle]
    /\ todo = [r \in Slots |-> NoTodo]
    /\ phase = [r \in Slots |-> "fresh"]
    /\ accepted = {} /\ settled = {} /\ cancelled = {} /\ swallowed = {}
    /\ sent = [m \in Messages |-> 0]
    /\ uncertain = {} /\ overlapped = {} /\ passed = {}

-------------------------------------------------------------------------------
(* Steps of a worker                                                        *)

At(w, pc) == up /\ job[w].pc = pc
Goto(w, pc) == job' = [job EXCEPT ![w].pc = pc]

\* The end of one entry: a live delivery returns, a recovery takes the next one.
EndOfEntry(w) == job' = [job EXCEPT ![w] = Idle]

CountSent(m, k) == sent' = [sent EXCEPT ![m] = IF @ + k > 2 THEN 2 ELSE @ + k]

\* enqueueDelivery: the entry is on disk before the send begins.
EnqueueDelivery(m) ==
    /\ up /\ job[m].pc = "idle" /\ m \notin accepted
    /\ json' = [json EXCEPT ![m] = [retries |-> 0, attempted |-> FALSE]]
    /\ job' = [job EXCEPT ![m] = [Idle EXCEPT !.pc = "sending", !.msg = m]]
    /\ accepted' = accepted \cup {m}
    /\ UNCHANGED <<up, marker, dead, todo, phase, passed, settled, cancelled, swallowed,
                   sent, uncertain, overlapped>>

\* deliverOutboundPayloadsCore returned and every payload was sent.
SendSucceeds(w) ==
    /\ At(w, "sending")
    /\ CountSent(job[w].msg, 1)
    /\ Goto(w, "ack")
    /\ UNCHANGED <<up, files, todo, phase, passed, accepted, settled, cancelled, swallowed,
                   uncertain, overlapped>>

\* Mutant: the entry is acknowledged whatever became of the send.
SendThrowsAcknowledged(w) ==
    /\ At(w, "sending")
    /\ Goto(w, "ack")
    /\ UNCHANGED <<up, files, todo, phase, passed, history>>

\* It threw: a live delivery calls failDelivery, a recovery tells permanent errors apart.
SendThrows(w) ==
    /\ At(w, "sending")
    /\ \E k \in {0, 1} :
        /\ CountSent(job[w].msg, k)
        /\ uncertain' = IF k = 1 THEN uncertain \cup {job[w].msg} ELSE uncertain
    /\ \E next \in (IF w \in Slots THEN {"failRead", "bury"} ELSE {"failRead"}) : Goto(w, next)
    /\ UNCHANGED <<up, files, todo, phase, passed, accepted, settled, cancelled, swallowed,
                   overlapped>>

\* It threw because the caller aborted: the entry is acknowledged.  A recovery has no signal.
SendAborted(m) ==
    /\ m \in Messages /\ At(m, "sending")
    /\ cancelled' = cancelled \cup {m}
    /\ Goto(m, "ack")
    /\ UNCHANGED <<up, files, todo, phase, passed, accepted, settled, swallowed, sent,
                   uncertain, overlapped>>

\* Under bestEffort the core catches the errors of payloads and returns.  The wrapper
\* learns of them only through onError, which a recovery never passes.
SendSwallowsError(w) ==
    /\ At(w, "sending") /\ job[w].msg \in BestEffort
    /\ \E k \in {0, 1}, hasOnError \in (IF w \in Messages THEN BOOLEAN ELSE {FALSE}) :
        /\ CountSent(job[w].msg, k)
        /\ uncertain' = IF k = 1 THEN uncertain \cup {job[w].msg} ELSE uncertain
        /\ swallowed' = IF hasOnError THEN swallowed ELSE swallowed \cup {job[w].msg}
        /\ Goto(w, IF hasOnError THEN "failRead" ELSE "ack")
    /\ UNCHANGED <<up, files, todo, phase, passed, accepted, settled, cancelled, overlapped>>

\* Mutant: the marker is written and the entry left for phase 2, which removes the marker.
AckWithoutRename(w) ==
    /\ At(w, "ack")
    /\ marker' = marker \cup {job[w].msg}
    /\ settled' = settled \cup {job[w].msg}
    /\ Goto(w, "unlink")
    /\ UNCHANGED <<up, json, dead, todo, phase, passed, accepted, cancelled, swallowed, sent,
                   uncertain, overlapped>>

\* ackDelivery, phase 1; a missing entry leaves only a marker to clean up.
AckRename(w) ==
    LET m == job[w].msg IN
    /\ At(w, "ack")
    /\ IF m \in Pending
       THEN /\ json' = [json EXCEPT ![m] = NoEntry]
            /\ marker' = marker \cup {m}
            /\ settled' = settled \cup {m}
            /\ Goto(w, "unlink")
       ELSE /\ marker' = marker \ {m}
            /\ EndOfEntry(w)
            /\ UNCHANGED <<json, settled>>
    /\ UNCHANGED <<up, dead, todo, phase, passed, accepted, cancelled, swallowed, sent,
                   uncertain, overlapped>>

\* The rename fails for another reason: ignored by a live delivery, counted as a
\* failed delivery by a recovery.
AckFails(w) ==
    /\ At(w, "ack") /\ job[w].msg \in Pending
    /\ uncertain' = uncertain \cup {job[w].msg}
    /\ IF w \in Messages THEN EndOfEntry(w) ELSE Goto(w, "failRead")
    /\ UNCHANGED <<up, files, todo, phase, passed, accepted, settled, cancelled, swallowed,
                   sent, overlapped>>

\* ackDelivery, phase 2.
AckUnlink(w) ==
    /\ At(w, "unlink")
    /\ marker' = marker \ {job[w].msg}
    /\ EndOfEntry(w)
    /\ UNCHANGED <<up, json, dead, todo, phase, passed, history>>

\* failDelivery reads the entry; without one it throws, and the error is ignored.
FailRead(w) ==
    /\ At(w, "failRead")
    /\ IF job[w].msg \in Pending
       THEN job' = [job EXCEPT ![w].pc = "failWrite", ![w].copy = json[job[w].msg]]
       ELSE EndOfEntry(w)
    /\ UNCHANGED <<up, files, todo, phase, passed, history>>

\* Mutants: the count passes its limit; a failure is not counted.
FailedWithoutCap(e) == [retries |-> e.retries + 1, attempted |-> TRUE]
FailedUncounted(e)  == [retries |-> e.retries, attempted |-> TRUE]

\* failDelivery writes back what it read, counted up; the count is compared with
\* MaxRetries only, and saturates there.
Failed(e) == [retries |-> IF e.retries < MaxRetries THEN e.retries + 1 ELSE MaxRetries,
              attempted |-> TRUE]

FailWrite(w) ==
    /\ At(w, "failWrite")
    /\ json' = [json EXCEPT ![job[w].msg] = Failed(job[w].copy)]
    /\ EndOfEntry(w)
    /\ UNCHANGED <<up, marker, dead, todo, phase, passed, history>>

\* moveToFailed; a missing entry is logged.
MoveToFailed(w) ==
    LET m == job[w].msg IN
    /\ At(w, "bury")
    /\ IF m \in Pending
       THEN /\ json' = [json EXCEPT ![m] = NoEntry]
            /\ dead' = dead \cup {m}
            /\ settled' = settled \cup {m}
       ELSE UNCHANGED <<json, dead, settled>>
    /\ EndOfEntry(w)
    /\ UNCHANGED <<up, marker, todo, phase, passed, accepted, cancelled, swallowed, sent,
                   uncertain, overlapped>>

-------------------------------------------------------------------------------
(* Recovery                                                                 *)

\* Mutant: what a crash left half acknowledged is taken for pending.
LoadPendingAndMarked(r) ==
    /\ json' = [m \in Messages |-> IF m \in marker THEN [retries |-> 0, attempted |-> FALSE]
                                  ELSE json[m]]
    /\ marker' = {}
    /\ todo' = [todo EXCEPT ![r] = [m \in Pending \cup marker |-> json'[m]]]
    /\ phase' = [phase EXCEPT ![r] = "fresh"]
    /\ UNCHANGED <<dead, job, passed, history>>

\* loadPendingDeliveries: markers are removed, entries are read.
LoadPending(r) ==
    /\ marker' = {}
    /\ todo' = [todo EXCEPT ![r] = [m \in Pending |-> json[m]]]
    /\ phase' = [phase EXCEPT ![r] = "fresh"]
    /\ overlapped' = overlapped \cup {m \in Pending : AtWork(m)}
    /\ passed' = passed \ ({r} \X Messages)
    /\ UNCHANGED <<json, dead, job, accepted, settled, cancelled, swallowed, sent, uncertain>>

\* The gateway starts after a crash, or again in a process whose deliveries and
\* recoveries go on (the run loop's restart), and recovers once.
StartGateway(r) ==
    /\ job[r].pc = "idle" /\ todo[r] = NoTodo
    /\ up' = TRUE
    /\ LoadPending(r)

\* A recovery handles the entry of m: no longer to do, and the first one is done.
Handle(r, m) ==
    /\ todo' = [todo EXCEPT ![r] = [x \in DOMAIN @ \ {m} |-> @[x]]]
    /\ phase' = [phase EXCEPT ![r] = IF @ = "late" THEN @ ELSE "begun"]
    /\ UNCHANGED <<up, files, history>>
Take(r, m, pc) == job' = [job EXCEPT ![r] = [pc |-> pc, msg |-> m, copy |-> NoEntry]]

CanHandle(r, m) == up /\ job[r].pc = "idle" /\ m \in DOMAIN todo[r]
CanRetry(r, m)  == CanHandle(r, m) /\ phase[r] # "late"
Exhausted(e)    == e.retries >= MaxRetries

RecoverExhausted(r, m) ==
    /\ CanRetry(r, m) /\ Exhausted(todo[r][m]) /\ Take(r, m, "bury") /\ Handle(r, m)
    /\ UNCHANGED passed

\* isEntryEligibleForRecoveryRetry: the backoff has elapsed, or the entry has no attempt.
RecoverEligible(r, m) ==
    /\ CanRetry(r, m) /\ ~Exhausted(todo[r][m]) /\ Take(r, m, "sending") /\ Handle(r, m)
    /\ UNCHANGED passed

RecoverTooEarly(r, m) ==
    /\ CanRetry(r, m) /\ ~Exhausted(todo[r][m]) /\ todo[r][m].attempted
    /\ Handle(r, m)
    /\ passed' = passed \cup {<<r, m>>}
    /\ UNCHANGED job

\* A recovery handles the entry of a message that is not in Messages.  Entries of
\* different messages are different files: this is all one does to another.
HandleOther(r) ==
    /\ up /\ job[r].pc = "idle" /\ todo[r] # NoTodo /\ phase[r] = "fresh"
    /\ phase' = [phase EXCEPT ![r] = "begun"]
    /\ UNCHANGED <<up, files, job, todo, passed, history>>

\* The time budget is exceeded, not before the first entry: what remains is failed
\* without an attempt.
BudgetExceeded(r) ==
    /\ up /\ job[r].pc = "idle" /\ todo[r] # NoTodo /\ phase[r] = "begun"
    /\ phase' = [phase EXCEPT ![r] = "late"]
    /\ UNCHANGED <<up, files, job, todo, passed, history>>

DeferEntry(r, m) ==
    /\ CanHandle(r, m) /\ phase[r] = "late" /\ Take(r, m, "failRead") /\ Handle(r, m)
    /\ UNCHANGED passed

-------------------------------------------------------------------------------
\* The process dies: its workers are gone, the files stay.  A message that was sent
\* and whose entry is still there will be taken for unsent.
Crash ==
    /\ up
    /\ up' = FALSE
    /\ job' = [w \in Workers |-> Idle]
    /\ todo' = [r \in Slots |-> NoTodo]
    /\ phase' = [r \in Slots |-> "fresh"]
    /\ uncertain' = uncertain \cup {m \in Pending : \E w \in Workers :
                        job[w].pc = "ack" /\ job[w].msg = m}
    /\ UNCHANGED <<files, passed, accepted, settled, cancelled, swallowed, sent, overlapped>>

WorkerStep(w) ==
    \/ SendSucceeds(w) \/ SendThrows(w) \/ SendSwallowsError(w)
    \/ AckRename(w) \/ AckFails(w) \/ AckUnlink(w)
    \/ FailRead(w) \/ FailWrite(w) \/ MoveToFailed(w)

RecoveryStep(r, m) ==
    RecoverExhausted(r, m) \/ RecoverEligible(r, m) \/ RecoverTooEarly(r, m) \/ DeferEntry(r, m)

Next ==
    \/ \E m \in Messages : EnqueueDelivery(m) \/ SendAborted(m)
    \/ \E w \in Workers : WorkerStep(w)
    \/ \E r \in Slots : StartGateway(r) \/ HandleOther(r) \/ BudgetExceeded(r)
    \/ \E r \in Slots, m \in Messages : RecoveryStep(r, m)
    \/ Crash

Spec == Init /\ [][Next]_vars

\* A live process goes on with what it has in hand: sends return or throw, and a recovery
\* takes the entries it loaded one after the other.  Nothing is assumed of restarts.
Fairness ==
    /\ \A w \in Workers : WF_vars(WorkerStep(w))
    /\ \A r \in Slots : WF_vars(\E m \in Messages : RecoveryStep(r, m))

FairSpec == Spec /\ Fairness

-------------------------------------------------------------------------------
\* An accepted message is never lost, wherever the process dies: its entry is pending,
\* or it was sent, aborted or moved to failed/, except for the best-effort messages
\* whose error the core swallowed.
AcceptedIsKept ==
    \A m \in accepted \ swallowed :
        m \in Pending \/ sent[m] > 0 \/ m \in cancelled \/ m \in dead

\* A message reaches the channel twice only for one of the named reasons: the process
\* died or the rename failed between the send and its record, the send reported an
\* error although something went out, or two deliveries of it were at work at once.
DuplicateHasCause == \A m \in Messages : sent[m] = 2 => m \in uncertain \cup overlapped

\* An entry acknowledged or given up does not come back, so no later start resends it,
\* unless a recovery overlapped with another delivery of the message.
SettledStaysSettled == \A m \in settled \ overlapped : m \notin Pending

\* A recovery does not leave an entry as it was: unless the process dies, each entry it
\* loaded is acknowledged or given up, or its retry is counted, by a deferral too, or its
\* backoff had not elapsed.  So an entry that is deferred start after start comes nearer
\* to MaxRetries each time, and one that has reached it is only kept by another deferral.
RecoveryAdvances ==
    \A r \in Slots, m \in Messages, n \in 0..MaxRetries :
        (m \in DOMAIN todo[r] /\ todo[r][m].retries = n) ~>
            \/ m \notin Pending \/ json[m].retries > n
            \/ n = MaxRetries /\ phase[r] = "late"
            \/ <<r, m>> \in passed
            \/ ~up
================================================================================
