--------------------------- MODULE DeliveryQueueProofs ---------------------------
(***************************************************************************)
(* Proofs about DeliveryQueue: types, and what happens to one message, for *)
(* every set of messages, any number of recoveries in progress at once and *)
(* every retry limit.                                                      *)
(***************************************************************************)
EXTENDS DeliveryQueue, TLAPS

\* The worker w has the entry of m in hand; the recovery r will come to it.
Holds(w, m) == job[w].pc # "idle" /\ job[w].msg = m
Loaded(r, m) == m \in DOMAIN todo[r]

\* A live delivery has its own message, what failDelivery writes back is an entry, and only
\* accepted messages leave a trace.
Known ==
    /\ \A w \in Workers : job[w].pc = "failWrite" => job[w].copy \in Entry
    /\ \A m \in Messages : job[m].pc # "idle" => job[m].msg = m
    /\ \A m \in Messages :
        (m \in Pending \/ m \in settled \/ sent[m] > 0 \/ AtWork(m)) => m \in accepted

\* No recovery overlapped with another delivery of m: one actor at most is at work on it.
Alone ==
    \A m \in Messages \ overlapped :
        /\ \A v, w \in Workers : Holds(v, m) /\ Holds(w, m) => v = w
        /\ \A r, q \in Slots : Loaded(r, m) /\ Loaded(q, m) => r = q
        /\ \A r \in Slots, w \in Workers : ~(Loaded(r, m) /\ Holds(w, m))

\* A settled entry is gone, and nobody is at work on it but to remove its marker.
SettledIsDone ==
    \A m \in settled \ overlapped :
        /\ m \notin Pending
        /\ \A w \in Workers : Holds(w, m) => job[w].pc = "unlink"
        /\ \A r \in Slots : ~Loaded(r, m)

\* A message sent with a record of it: whoever is at work acknowledges it, and does so as
\* long as the entry is there.
SentIsRecorded ==
    \A m \in Messages \ (uncertain \cup overlapped) :
        /\ sent[m] <= 1
        /\ sent[m] = 1 =>
            /\ \A w \in Workers : Holds(w, m) => job[w].pc \in {"ack", "unlink"}
            /\ \A r \in Slots : ~Loaded(r, m)
            /\ m \in Pending => \E w \in Workers : Holds(w, m) /\ job[w].pc = "ack"

\* What is about to be acknowledged was sent, aborted or swallowed, and so was or
\* is in failed/ what was accepted and is not pending.
Accounted(m) == sent[m] > 0 \/ m \in cancelled \/ m \in swallowed
KeptOrAccounted ==
    /\ \A w \in Workers : job[w].pc = "ack" => Accounted(job[w].msg)
    /\ \A m \in accepted : m \in Pending \/ Accounted(m) \/ m \in dead

IInv == DeliveryTypeOK /\ Known /\ Alone /\ SettledIsDone /\ SentIsRecorded /\ KeptOrAccounted

-------------------------------------------------------------------------------
LEMMA EntryFacts ==
    /\ Entry \subseteq [retries : Nat, attempted : BOOLEAN]
    /\ NoEntry \notin Entry
    /\ [retries |-> 0, attempted |-> FALSE] \in Entry
    /\ \A e \in Entry : Failed(e) \in Entry
<1>1. MaxRetries \in Nat \ {0} /\ NoEntry \notin [retries : Nat, attempted : BOOLEAN]
  BY DeliveryAssumption
<1>2. Entry \subseteq [retries : Nat, attempted : BOOLEAN]
  BY <1>1 DEF Entry
<1>3. QED
  BY <1>1, <1>2 DEF Entry, Failed

LEMMA InitIInv == Init => IInv
<1> SUFFICES ASSUME Init PROVE IInv
  OBVIOUS
<1>1. /\ up = TRUE /\ Pending = {} /\ marker = {} /\ dead = {} /\ accepted = {}
      /\ settled = {} /\ cancelled = {} /\ swallowed = {} /\ uncertain = {} /\ overlapped = {}
      /\ \A w \in Workers : job[w] = Idle
      /\ \A r \in Slots : DOMAIN todo[r] = {}
      /\ \A m \in Messages : sent[m] = 0
  BY DEF Init, Pending, NoTodo
<1>2. Workers = Messages \cup Slots /\ Idle.pc = "idle" /\ SomeMessage \in Messages
  BY DeliveryAssumption DEF Workers, Idle, SomeMessage
<1>3. DeliveryTypeOK
  <2>1. Idle \in [pc : Pcs, msg : Messages, copy : Entry \cup {NoEntry}]
    BY <1>2 DEF Idle, Pcs
  <2>2. NoTodo \in [{} -> Entry]
    BY DEF NoTodo
  <2>3. todo \in [Slots -> UNION {[S -> Entry] : S \in SUBSET Messages}]
    BY <2>2 DEF Init
  <2>4. sent \in [Messages -> 0..2] /\ json \in [Messages -> Entry \cup {NoEntry}]
    BY DEF Init
  <2>5. QED
    BY <1>1, <2>1, <2>3, <2>4 DEF Init, DeliveryTypeOK
<1>4. Known /\ Alone /\ SettledIsDone /\ SentIsRecorded /\ KeptOrAccounted
  BY <1>1, <1>2 DEF Known, Alone, SettledIsDone, SentIsRecorded, KeptOrAccounted, AtWork,
     Holds, Loaded, Workers
<1>5. QED
  BY <1>3, <1>4 DEF IInv

-------------------------------------------------------------------------------
\* A step of one worker w on the entry it has in hand, after which it has the same
\* entry in hand or none.
WorkerMoves(w) ==
    /\ job[w].pc # "idle"
    /\ \E x \in [pc : Pcs, msg : Messages, copy : Entry \cup {NoEntry}] :
        job' = [job EXCEPT ![w] = x] /\ (x.pc # "idle" => x.msg = job[w].msg)
    /\ UNCHANGED <<todo, overlapped>>

LEMMA WorkerMovesFacts ==
  ASSUME IInv, NEW w \in Workers, WorkerMoves(w)
  PROVE  /\ job' \in [Workers -> [pc : Pcs, msg : Messages, copy : Entry \cup {NoEntry}]]
         /\ \A v \in Workers : v # w => job'[v] = job[v]
         /\ \A v \in Workers, m \in Messages : Holds(v, m)' => Holds(v, m)
         /\ \A m \in Messages : AtWork(m)' => AtWork(m)
         /\ job[w].msg \in Messages /\ Holds(w, job[w].msg)
         /\ Alone'
<1>1. PICK x \in [pc : Pcs, msg : Messages, copy : Entry \cup {NoEntry}] :
        job' = [job EXCEPT ![w] = x] /\ (x.pc # "idle" => x.msg = job[w].msg)
  BY DEF WorkerMoves
<1>2. job \in [Workers -> [pc : Pcs, msg : Messages, copy : Entry \cup {NoEntry}]]
  BY DEF IInv, DeliveryTypeOK
<1>3. /\ job' \in [Workers -> [pc : Pcs, msg : Messages, copy : Entry \cup {NoEntry}]]
      /\ \A v \in Workers : v # w => job'[v] = job[v]
      /\ job'[w] = x
  BY <1>1, <1>2
<1>4. \A v \in Workers, m \in Messages : Holds(v, m)' => Holds(v, m)
  BY <1>1, <1>3 DEF Holds, WorkerMoves
<1>5. todo' = todo /\ overlapped' = overlapped
  BY DEF WorkerMoves
<1>6. \A m \in Messages : AtWork(m)' => AtWork(m)
  BY <1>4, <1>5 DEF AtWork, Holds
<1>7. Alone'
  BY <1>4, <1>5 DEF IInv, Alone, Loaded
<1>8. QED
  BY <1>2, <1>3, <1>4, <1>6, <1>7 DEF Holds, WorkerMoves

LEMMA GotoMoves ==
  ASSUME IInv, NEW w \in Workers, NEW pc \in Pcs, job[w].pc # "idle", Goto(w, pc),
         UNCHANGED <<todo, overlapped>>
  PROVE  /\ WorkerMoves(w)
         /\ job'[w].pc = pc /\ job'[w].msg = job[w].msg /\ job'[w].copy = job[w].copy
<1>1. job \in [Workers -> [pc : Pcs, msg : Messages, copy : Entry \cup {NoEntry}]]
  BY DEF IInv, DeliveryTypeOK
<1> DEFINE x == [job[w] EXCEPT !.pc = pc]
<1>2. /\ x \in [pc : Pcs, msg : Messages, copy : Entry \cup {NoEntry}]
      /\ x.pc = pc /\ x.msg = job[w].msg /\ x.copy = job[w].copy
  BY <1>1
<1>3. job' = [job EXCEPT ![w] = x]
  BY DEF Goto
<1>4. job'[w] = x
  BY <1>1, <1>3
<1>5. QED
  BY <1>2, <1>3, <1>4 DEF WorkerMoves

LEMMA EndOfEntryMoves ==
  ASSUME IInv, NEW w \in Workers, job[w].pc # "idle", EndOfEntry(w),
         UNCHANGED <<todo, overlapped>>
  PROVE  WorkerMoves(w) /\ job'[w].pc = "idle"
<1>1. job \in [Workers -> [pc : Pcs, msg : Messages, copy : Entry \cup {NoEntry}]]
  BY DEF IInv, DeliveryTypeOK
<1>2. Idle \in [pc : Pcs, msg : Messages, copy : Entry \cup {NoEntry}] /\ Idle.pc = "idle"
  BY DeliveryAssumption DEF Idle, Pcs, SomeMessage
<1>3. job' = [job EXCEPT ![w] = Idle] /\ job'[w] = Idle
  BY <1>1 DEF EndOfEntry
<1>4. QED
  BY <1>2, <1>3 DEF WorkerMoves


-------------------------------------------------------------------------------
\* The end of a send: the channel may have got the message, and the worker goes on to
\* acknowledge it, if there is a reason to, or to record a failure.
SendEnds(w, m) ==
    /\ job[w].pc = "sending"
    /\ \E pc \in {"ack", "failRead", "bury"} : Goto(w, pc)
    /\ UNCHANGED <<up, json, marker, dead, todo, phase, passed, accepted, settled, overlapped>>
    /\ cancelled \subseteq cancelled' /\ cancelled' \subseteq Messages
    /\ swallowed \subseteq swallowed' /\ swallowed' \subseteq Messages
    /\ uncertain \subseteq uncertain' /\ uncertain' \subseteq Messages
    /\ \/ sent' = sent
       \/ CountSent(m, 1) /\ (job'[w].pc = "ack" \/ m \in uncertain')
    /\ job'[w].pc = "ack" => sent'[m] > 0 \/ m \in cancelled' \/ m \in swallowed'

LEMMA SendEndsKeeps ==
  ASSUME IInv, NEW w \in Workers, NEW m \in Messages, m = job[w].msg, SendEnds(w, m)
  PROVE  IInv'
<1>1. PICK pc \in {"ack", "failRead", "bury"} : Goto(w, pc)
  BY DEF SendEnds
<1>2. WorkerMoves(w) /\ job'[w].pc = pc /\ job'[w].msg = m
  BY <1>1, GotoMoves DEF SendEnds, Pcs
<1>3. /\ job' \in [Workers -> [pc : Pcs, msg : Messages, copy : Entry \cup {NoEntry}]]
      /\ \A v \in Workers : v # w => job'[v] = job[v]
      /\ \A v \in Workers, n \in Messages : Holds(v, n)' => Holds(v, n)
      /\ \A n \in Messages : AtWork(n)' => AtWork(n)
      /\ Holds(w, m)
      /\ Alone'
  BY <1>2, WorkerMovesFacts
<1>4. /\ sent' \in [Messages -> 0..2] /\ sent[m] \in 0..2
      /\ sent' = sent \/ (sent'[m] > 0 /\ (sent[m] = 0 => sent'[m] = 1)
                          /\ (pc = "ack" \/ m \in uncertain'))
      /\ \A n \in Messages : n # m => sent'[n] = sent[n]
      /\ \A n \in Messages : sent[n] > 0 => sent'[n] > 0
  <2>1. sent \in [Messages -> 0..2]
    BY DEF IInv, DeliveryTypeOK
  <2>2. \/ sent' = sent
        \/ CountSent(m, 1) /\ (pc = "ack" \/ m \in uncertain')
    BY <1>2 DEF SendEnds
  <2>3. QED
    BY <2>1, <2>2 DEF CountSent
<1>5. Pending' = Pending
  BY DEF Pending, SendEnds
<1>6. DeliveryTypeOK'
  BY <1>3, <1>4 DEF IInv, DeliveryTypeOK, SendEnds
<1>7. AtWork(m)
  BY <1>3 DEF AtWork, Holds
<1>8. Known'
  BY <1>2, <1>3, <1>4, <1>5, <1>7 DEF IInv, Known, Workers, Holds, SendEnds
<1>9. SettledIsDone'
  BY <1>2, <1>3, <1>5 DEF IInv, SettledIsDone, Loaded, Holds, SendEnds
<1>10. SentIsRecorded'
  <2>1. ASSUME NEW n \in Messages \ (uncertain \cup overlapped), n # m, sent[n] = 1
        PROVE  /\ \A v \in Workers : Holds(v, n)' => job'[v].pc \in {"ack", "unlink"}
               /\ \A r \in Slots : ~Loaded(r, n)'
               /\ n \in Pending' => \E v \in Workers : Holds(v, n)' /\ job'[v].pc = "ack"
    BY <1>2, <1>3, <1>5, <2>1 DEF IInv, SentIsRecorded, Loaded, Holds, SendEnds
  <2>2. m \notin uncertain \cup overlapped =>
            /\ sent[m] = 0
            /\ \A v \in Workers : Holds(v, m) => v = w
            /\ \A r \in Slots : ~Loaded(r, m)
    BY <1>3, <1>4 DEF IInv, SentIsRecorded, Alone, SendEnds
  <2>3. QED
    BY <1>2, <1>3, <1>4, <1>5, <2>1, <2>2 DEF IInv, SentIsRecorded, Loaded, Holds, SendEnds
<1>11. KeptOrAccounted'
  <2>1. \A n \in Messages : Accounted(n) => Accounted(n)'
    BY <1>4 DEF Accounted, SendEnds
  <2>2. (\A v \in Workers : job[v].msg \in Messages) /\ accepted \subseteq Messages
    BY DEF IInv, DeliveryTypeOK
  <2>3. job'[w].pc = "ack" => Accounted(m)'
    BY DEF Accounted, SendEnds
  <2>4. QED
    BY <1>2, <1>3, <1>5, <2>1, <2>2, <2>3 DEF IInv, KeptOrAccounted, SendEnds
<1>12. QED
  BY <1>3, <1>6, <1>8, <1>9, <1>10, <1>11 DEF IInv

LEMMA SendKeeps ==
  ASSUME IInv, NEW w \in Workers,
         SendSucceeds(w) \/ SendThrows(w) \/ SendAborted(w) \/ SendSwallowsError(w)
  PROVE  IInv'
<1> DEFINE m == job[w].msg
<1>1. m \in Messages /\ sent \in [Messages -> 0..2]
      /\ job \in [Workers -> [pc : Pcs, msg : Messages, copy : Entry \cup {NoEntry}]]
      /\ cancelled \subseteq Messages /\ swallowed \subseteq Messages /\ uncertain \subseteq Messages
  BY DEF IInv, DeliveryTypeOK
<1>2. \A pc : Goto(w, pc) => job'[w].pc = pc
  BY <1>1 DEF Goto
<1>3. CountSent(m, 0) => sent' = sent
  BY <1>1 DEF CountSent
<1>4. CountSent(m, 1) => sent'[m] > 0
  BY <1>1 DEF CountSent
<1>5. SendEnds(w, m)
  <2>1. CASE SendSucceeds(w)
    BY <1>1, <1>2, <1>4, <2>1 DEF SendSucceeds, SendEnds, At, files
  <2>2. CASE SendThrows(w)
    BY <1>1, <1>2, <1>3, <2>2 DEF SendThrows, SendEnds, At, files
  <2>3. CASE SendAborted(w)
    <3>1. w = m
      BY <2>3 DEF SendAborted, At, IInv, Known
    <3>2. QED
      BY <1>1, <1>2, <2>3, <3>1 DEF SendAborted, SendEnds, At, files
  <2>4. CASE SendSwallowsError(w)
    <3>1. PICK k \in {0, 1}, hasOnError \in BOOLEAN :
            /\ CountSent(m, k)
            /\ uncertain' = IF k = 1 THEN uncertain \cup {m} ELSE uncertain
            /\ swallowed' = IF hasOnError THEN swallowed ELSE swallowed \cup {m}
            /\ Goto(w, IF hasOnError THEN "failRead" ELSE "ack")
      BY <2>4 DEF SendSwallowsError
    <3>2. QED
      BY <1>1, <1>2, <1>3, <2>4, <3>1 DEF SendSwallowsError, SendEnds, At, files
  <2>5. QED
    BY <2>1, <2>2, <2>3, <2>4
<1>6. QED
  BY <1>1, <1>5, SendEndsKeeps

-------------------------------------------------------------------------------
\* Steps of a worker that read the files only.
LEMMA WorkerReadsKeeps ==
  ASSUME IInv, NEW w \in Workers, NEW m \in Messages, m = job[w].msg, WorkerMoves(w),
         UNCHANGED <<up, json, marker, dead, todo, phase, passed, accepted, settled, cancelled,
                     swallowed, sent, overlapped>>,
         uncertain \subseteq uncertain', uncertain' \subseteq Messages,
         job'[w].pc # "ack",
         job[w].pc = "ack" => m \in uncertain',
         job[w].pc = "unlink" => job'[w].pc = "idle",
         job'[w].pc = "failWrite" => job'[w].copy \in Entry
  PROVE  IInv'
<1>1. /\ job' \in [Workers -> [pc : Pcs, msg : Messages, copy : Entry \cup {NoEntry}]]
      /\ \A v \in Workers : v # w => job'[v] = job[v]
      /\ \A v \in Workers, n \in Messages : Holds(v, n)' => Holds(v, n)
      /\ \A n \in Messages : AtWork(n)' => AtWork(n)
      /\ Holds(w, m)
      /\ Alone'
  BY WorkerMovesFacts
<1>2. Pending' = Pending
  BY DEF Pending
<1>3. DeliveryTypeOK'
  BY <1>1 DEF IInv, DeliveryTypeOK
<1>4. Known'
  BY <1>1, <1>2 DEF IInv, Known, Workers, Holds
<1>5. SettledIsDone'
  BY <1>1, <1>2 DEF IInv, SettledIsDone, Loaded, Holds
<1>6. SentIsRecorded'
  <2>1. ASSUME NEW n \in Messages \ (uncertain' \cup overlapped)
        PROVE  /\ n \notin uncertain \cup overlapped
               /\ \A v \in Workers : Holds(v, n) /\ job[v].pc = "ack" => v # w
    BY <2>1 DEF Holds
  <2>2. QED
    BY <1>1, <1>2, <2>1 DEF IInv, SentIsRecorded, Loaded, Holds
<1>7. KeptOrAccounted'
  BY <1>1, <1>2 DEF IInv, KeptOrAccounted, Accounted, DeliveryTypeOK
<1>8. QED
  BY <1>1, <1>3, <1>4, <1>5, <1>6, <1>7 DEF IInv

LEMMA FailReadKeeps ==
  ASSUME IInv, NEW w \in Workers, FailRead(w)
  PROVE  IInv'
<1> DEFINE m == job[w].msg
<1>1. /\ job \in [Workers -> [pc : Pcs, msg : Messages, copy : Entry \cup {NoEntry}]]
      /\ m \in Messages /\ job[w].pc = "failRead" /\ uncertain \subseteq Messages
      /\ json[m] \in Entry \cup {NoEntry}
  BY DEF IInv, DeliveryTypeOK, FailRead, At
<1>2. UNCHANGED <<up, json, marker, dead, todo, phase, passed, accepted, settled, cancelled,
                  swallowed, sent, uncertain, overlapped>>
  BY DEF FailRead, files, history
<1>3. CASE m \in Pending
  <2> DEFINE x == [job[w] EXCEPT !.pc = "failWrite", !.copy = json[m]]
  <2>1. /\ x \in [pc : Pcs, msg : Messages, copy : Entry \cup {NoEntry}]
        /\ x.pc = "failWrite" /\ x.msg = m /\ x.copy \in Entry
    BY <1>1, <1>3 DEF Pcs, Pending
  <2>2. job' = [job EXCEPT ![w] = x]
    BY <1>3 DEF FailRead
  <2>3. WorkerMoves(w) /\ job'[w].pc = "failWrite" /\ job'[w].copy \in Entry
    BY <1>1, <1>2, <2>1, <2>2 DEF WorkerMoves
  <2>4. QED
    BY <1>1, <1>2, <2>3, WorkerReadsKeeps
<1>4. CASE m \notin Pending
  <2>1. EndOfEntry(w)
    BY <1>4 DEF FailRead
  <2>2. WorkerMoves(w) /\ job'[w].pc = "idle"
    BY <1>1, <1>2, <2>1, EndOfEntryMoves
  <2>3. QED
    BY <1>1, <1>2, <2>2, WorkerReadsKeeps
<1>5. QED
  BY <1>3, <1>4

LEMMA AckFailsKeeps ==
  ASSUME IInv, NEW w \in Workers, AckFails(w)
  PROVE  IInv'
<1> DEFINE m == job[w].msg
<1>1. /\ job \in [Workers -> [pc : Pcs, msg : Messages, copy : Entry \cup {NoEntry}]]
      /\ m \in Messages /\ job[w].pc = "ack" /\ uncertain \subseteq Messages
  BY DEF IInv, DeliveryTypeOK, AckFails, At
<1>2. /\ UNCHANGED <<up, json, marker, dead, todo, phase, passed, accepted, settled, cancelled,
                     swallowed, sent, overlapped>>
      /\ uncertain' = uncertain \cup {m}
      /\ EndOfEntry(w) \/ Goto(w, "failRead")
  BY DEF AckFails, files
<1>3. WorkerMoves(w) /\ job'[w].pc \in {"idle", "failRead"}
  BY <1>1, <1>2, EndOfEntryMoves, GotoMoves DEF Pcs
<1>4. QED
  BY <1>1, <1>2, <1>3, WorkerReadsKeeps

\* Steps of a worker on its entry that remove the file or write it anew.
LEMMA AckRenameKeeps ==
  ASSUME IInv, NEW w \in Workers, NEW m \in Messages, m = job[w].msg, AckRename(w)
  PROVE  IInv'
<1>1. /\ job[w].pc = "ack"
      /\ UNCHANGED <<up, dead, todo, phase, passed, accepted, cancelled, swallowed, sent, uncertain,
                     overlapped>>
      /\ IF m \in Pending
         THEN /\ json' = [json EXCEPT ![m] = NoEntry] /\ marker' = marker \cup {m}
              /\ settled' = settled \cup {m} /\ Goto(w, "unlink")
         ELSE /\ marker' = marker \ {m} /\ EndOfEntry(w) /\ UNCHANGED <<json, settled>>
  BY DEF AckRename, At
<1>2. WorkerMoves(w) /\ job'[w].pc = (IF m \in Pending THEN "unlink" ELSE "idle")
  BY <1>1, GotoMoves, EndOfEntryMoves DEF Pcs
<1>3. /\ job' \in [Workers -> [pc : Pcs, msg : Messages, copy : Entry \cup {NoEntry}]]
      /\ \A v \in Workers : v # w => job'[v] = job[v]
      /\ \A v \in Workers, n \in Messages : Holds(v, n)' => Holds(v, n)
      /\ \A n \in Messages : AtWork(n)' => AtWork(n)
      /\ Holds(w, m)
      /\ Alone'
  BY <1>2, WorkerMovesFacts
<1>4. Pending' = Pending \ {m} /\ json' \in [Messages -> Entry \cup {NoEntry}]
  BY <1>1 DEF Pending, IInv, DeliveryTypeOK
<1>5. DeliveryTypeOK'
  BY <1>1, <1>3, <1>4 DEF IInv, DeliveryTypeOK
<1>6. AtWork(m)
  BY <1>3 DEF AtWork, Holds
<1>7. Known'
  BY <1>1, <1>2, <1>3, <1>4, <1>6 DEF IInv, Known, Workers, Holds
<1>8. SettledIsDone'
  BY <1>1, <1>2, <1>3, <1>4 DEF IInv, SettledIsDone, Alone, Loaded, Holds
<1>9. SentIsRecorded'
  BY <1>1, <1>2, <1>3, <1>4 DEF IInv, SentIsRecorded, Loaded, Holds
<1>10. KeptOrAccounted'
  BY <1>1, <1>2, <1>3, <1>4 DEF IInv, KeptOrAccounted, Accounted, DeliveryTypeOK
<1>11. QED
  BY <1>3, <1>5, <1>7, <1>8, <1>9, <1>10 DEF IInv

LEMMA AckUnlinkKeeps ==
  ASSUME IInv, NEW w \in Workers, NEW m \in Messages, m = job[w].msg, AckUnlink(w)
  PROVE  IInv'
<1>1. /\ job[w].pc = "unlink" /\ EndOfEntry(w) /\ marker' = marker \ {m}
      /\ UNCHANGED <<up, json, dead, todo, phase, passed, accepted, settled, cancelled, swallowed,
                     sent, uncertain, overlapped>>
  BY DEF AckUnlink, At, history
<1>2. WorkerMoves(w) /\ job'[w].pc = "idle"
  BY <1>1, EndOfEntryMoves
<1>3. /\ job' \in [Workers -> [pc : Pcs, msg : Messages, copy : Entry \cup {NoEntry}]]
      /\ \A v \in Workers : v # w => job'[v] = job[v]
      /\ \A v \in Workers, n \in Messages : Holds(v, n)' => Holds(v, n)
      /\ \A n \in Messages : AtWork(n)' => AtWork(n)
      /\ Holds(w, m)
      /\ Alone'
  BY <1>2, WorkerMovesFacts
<1>4. Pending' = Pending
  BY <1>1 DEF Pending
<1>5. DeliveryTypeOK'
  BY <1>1, <1>3 DEF IInv, DeliveryTypeOK
<1>6. Known'
  BY <1>1, <1>2, <1>3, <1>4 DEF IInv, Known, Workers, Holds
<1>7. SettledIsDone'
  BY <1>1, <1>2, <1>3, <1>4 DEF IInv, SettledIsDone, Loaded, Holds
<1>8. SentIsRecorded'
  BY <1>1, <1>2, <1>3, <1>4 DEF IInv, SentIsRecorded, Loaded, Holds
<1>9. KeptOrAccounted'
  BY <1>1, <1>2, <1>3, <1>4 DEF IInv, KeptOrAccounted, Accounted, DeliveryTypeOK
<1>10. QED
  BY <1>3, <1>5, <1>6, <1>7, <1>8, <1>9 DEF IInv

LEMMA FailWriteKeeps ==
  ASSUME IInv, NEW w \in Workers, NEW m \in Messages, m = job[w].msg, FailWrite(w),
         job[w].copy \in Entry
  PROVE  IInv'
<1>1. /\ job[w].pc = "failWrite" /\ EndOfEntry(w)
      /\ json' = [json EXCEPT ![m] = Failed(job[w].copy)]
      /\ UNCHANGED <<up, marker, dead, todo, phase, passed, accepted, settled, cancelled, swallowed,
                     sent, uncertain, overlapped>>
  BY DEF FailWrite, At, history
<1>2. WorkerMoves(w) /\ job'[w].pc = "idle"
  BY <1>1, EndOfEntryMoves
<1>3. /\ job' \in [Workers -> [pc : Pcs, msg : Messages, copy : Entry \cup {NoEntry}]]
      /\ \A v \in Workers : v # w => job'[v] = job[v]
      /\ \A v \in Workers, n \in Messages : Holds(v, n)' => Holds(v, n)
      /\ \A n \in Messages : AtWork(n)' => AtWork(n)
      /\ Holds(w, m)
      /\ Alone'
  BY <1>2, WorkerMovesFacts
<1>4. Pending' = Pending \cup {m} /\ json' \in [Messages -> Entry \cup {NoEntry}]
  BY <1>1, EntryFacts DEF Pending, IInv, DeliveryTypeOK
<1>5. DeliveryTypeOK'
  BY <1>1, <1>3, <1>4 DEF IInv, DeliveryTypeOK
<1>6. AtWork(m)
  BY <1>3 DEF AtWork, Holds
<1>7. Known'
  BY <1>1, <1>2, <1>3, <1>4, <1>6 DEF IInv, Known, Workers, Holds
<1>8. SettledIsDone'
  BY <1>1, <1>2, <1>3, <1>4 DEF IInv, SettledIsDone, Loaded, Holds
<1>9. SentIsRecorded'
  BY <1>1, <1>2, <1>3, <1>4 DEF IInv, SentIsRecorded, Loaded, Holds
<1>10. KeptOrAccounted'
  BY <1>1, <1>2, <1>3, <1>4 DEF IInv, KeptOrAccounted, Accounted, DeliveryTypeOK
<1>11. QED
  BY <1>3, <1>5, <1>7, <1>8, <1>9, <1>10 DEF IInv

LEMMA MoveToFailedKeeps ==
  ASSUME IInv, NEW w \in Workers, NEW m \in Messages, m = job[w].msg, MoveToFailed(w)
  PROVE  IInv'
<1>1. /\ job[w].pc = "bury" /\ EndOfEntry(w)
      /\ UNCHANGED <<up, marker, todo, phase, passed, accepted, cancelled, swallowed, sent, uncertain,
                     overlapped>>
      /\ IF m \in Pending
         THEN /\ json' = [json EXCEPT ![m] = NoEntry] /\ dead' = dead \cup {m}
              /\ settled' = settled \cup {m}
         ELSE UNCHANGED <<json, dead, settled>>
  BY DEF MoveToFailed, At
<1>2. WorkerMoves(w) /\ job'[w].pc = "idle"
  BY <1>1, EndOfEntryMoves
<1>3. /\ job' \in [Workers -> [pc : Pcs, msg : Messages, copy : Entry \cup {NoEntry}]]
      /\ \A v \in Workers : v # w => job'[v] = job[v]
      /\ \A v \in Workers, n \in Messages : Holds(v, n)' => Holds(v, n)
      /\ \A n \in Messages : AtWork(n)' => AtWork(n)
      /\ Holds(w, m)
      /\ Alone'
  BY <1>2, WorkerMovesFacts
<1>4. Pending' = Pending \ {m} /\ json' \in [Messages -> Entry \cup {NoEntry}]
  BY <1>1 DEF Pending, IInv, DeliveryTypeOK
<1>5. DeliveryTypeOK'
  BY <1>1, <1>3, <1>4 DEF IInv, DeliveryTypeOK
<1>6. AtWork(m)
  BY <1>3 DEF AtWork, Holds
<1>7. Known'
  BY <1>1, <1>2, <1>3, <1>4, <1>6 DEF IInv, Known, Workers, Holds
<1>8. SettledIsDone'
  BY <1>1, <1>2, <1>3, <1>4 DEF IInv, SettledIsDone, Alone, Loaded, Holds
<1>9. SentIsRecorded'
  BY <1>1, <1>2, <1>3, <1>4 DEF IInv, SentIsRecorded, Loaded, Holds
<1>10. KeptOrAccounted'
  BY <1>1, <1>2, <1>3, <1>4 DEF IInv, KeptOrAccounted, Accounted, DeliveryTypeOK
<1>11. QED
  BY <1>3, <1>5, <1>7, <1>8, <1>9, <1>10 DEF IInv

-------------------------------------------------------------------------------
\* Steps that give an idle worker an entry, or a recovery its entries.
LEMMA EnqueueDeliveryKeeps ==
  ASSUME IInv, NEW m \in Messages, EnqueueDelivery(m)
  PROVE  IInv'
<1> DEFINE x == [Idle EXCEPT !.pc = "sending", !.msg = m]
<1>1. /\ job[m].pc = "idle" /\ m \notin accepted
      /\ json' = [json EXCEPT ![m] = [retries |-> 0, attempted |-> FALSE]]
      /\ job' = [job EXCEPT ![m] = x]
      /\ accepted' = accepted \cup {m}
      /\ UNCHANGED <<up, marker, dead, todo, phase, passed, settled, cancelled, swallowed, sent,
                     uncertain, overlapped>>
  BY DEF EnqueueDelivery
<1>2. x \in [pc : Pcs, msg : Messages, copy : Entry \cup {NoEntry}] /\ x.pc = "sending" /\ x.msg = m
  BY DeliveryAssumption DEF Idle, Pcs, SomeMessage
<1>3. /\ job' \in [Workers -> [pc : Pcs, msg : Messages, copy : Entry \cup {NoEntry}]]
      /\ m \in Workers /\ job'[m] = x
      /\ \A v \in Workers : v # m => job'[v] = job[v]
  BY <1>1, <1>2 DEF IInv, DeliveryTypeOK, Workers
<1>4. json' \in [Messages -> Entry \cup {NoEntry}] /\ Pending' = Pending \cup {m}
  <2> DEFINE e == [retries |-> 0, attempted |-> FALSE]
  <2>1. e \in Entry /\ e # NoEntry
    BY EntryFacts
  <2>2. json \in [Messages -> Entry \cup {NoEntry}] /\ json' = [json EXCEPT ![m] = e]
    BY <1>1 DEF IInv, DeliveryTypeOK
  <2> HIDE DEF e
  <2>3. QED
    BY <2>1, <2>2 DEF Pending
<1>5. /\ ~AtWork(m) /\ m \notin settled /\ ~(sent[m] > 0)
  BY <1>1 DEF IInv, Known
<1>6. /\ \A v \in Workers, n \in Messages : n # m => (Holds(v, n)' <=> Holds(v, n))
      /\ \A v \in Workers : Holds(v, m)' <=> v = m
      /\ \A r \in Slots : ~Loaded(r, m)'
  BY <1>1, <1>2, <1>3, <1>5 DEF Holds, Loaded, AtWork
<1>7. \A n \in Messages : n # m => (AtWork(n)' => AtWork(n))
  BY <1>1, <1>2, <1>3 DEF AtWork
<1>8. DeliveryTypeOK'
  BY <1>1, <1>3, <1>4 DEF IInv, DeliveryTypeOK
<1>9. Known'
  BY <1>1, <1>2, <1>3, <1>4, <1>7 DEF IInv, Known, Workers
<1>10. Alone'
  BY <1>1, <1>6 DEF IInv, Alone, Loaded
<1>11. SettledIsDone'
  BY <1>1, <1>3, <1>4, <1>5, <1>6 DEF IInv, SettledIsDone, Loaded, Holds
<1>12. SentIsRecorded'
  <2>1. sent[m] = 0
    BY <1>5 DEF IInv, DeliveryTypeOK
  <2>2. QED
    BY <1>1, <1>3, <1>4, <1>6, <2>1 DEF IInv, SentIsRecorded, Loaded, Holds
<1>13. KeptOrAccounted'
  BY <1>1, <1>2, <1>3, <1>4 DEF IInv, KeptOrAccounted, Accounted, DeliveryTypeOK
<1>14. QED
  BY <1>8, <1>9, <1>10, <1>11, <1>12, <1>13 DEF IInv

LEMMA StartGatewayKeeps ==
  ASSUME IInv, NEW r \in Slots, StartGateway(r)
  PROVE  IInv'
<1>1. /\ todo[r] = NoTodo /\ up' = TRUE /\ marker' = {}
      /\ todo' = [todo EXCEPT ![r] = [m \in Pending |-> json[m]]]
      /\ phase' = [phase EXCEPT ![r] = "fresh"]
      /\ overlapped' = overlapped \cup {m \in Pending : AtWork(m)}
      /\ passed' = passed \ ({r} \X Messages)
      /\ UNCHANGED <<json, dead, job, accepted, settled, cancelled, swallowed, sent, uncertain>>
  BY DEF StartGateway, LoadPending
<1>2. Pending' = Pending /\ Pending \subseteq Messages
  BY <1>1 DEF Pending
<1>3. [m \in Pending |-> json[m]] \in [Pending -> Entry]
  BY DEF Pending, IInv, DeliveryTypeOK
<1>4. todo' \in [Slots -> UNION {[S -> Entry] : S \in SUBSET Messages}]
  BY <1>1, <1>2, <1>3 DEF IInv, DeliveryTypeOK
<1>5. /\ DOMAIN todo'[r] = Pending
      /\ \A q \in Slots : q # r => todo'[q] = todo[q]
      /\ \A q \in Slots, m \in Messages :
            Loaded(q, m)' <=> (IF q = r THEN m \in Pending ELSE Loaded(q, m))
  BY <1>1 DEF IInv, DeliveryTypeOK, Loaded
<1>6. \A w \in Workers, m \in Messages : Holds(w, m)' <=> Holds(w, m)
  BY <1>1 DEF Holds
<1>7. \A m \in Messages : AtWork(m)' => AtWork(m) \/ m \in Pending
  BY <1>1, <1>5 DEF AtWork
<1>8. \A m \in Pending \ overlapped' :
        (\A w \in Workers : ~Holds(w, m)) /\ (\A q \in Slots : ~Loaded(q, m))
  BY <1>1 DEF AtWork, Holds, Loaded
<1>9. DeliveryTypeOK'
  BY <1>1, <1>2, <1>4 DEF IInv, DeliveryTypeOK
<1>10. Known'
  BY <1>1, <1>2, <1>7 DEF IInv, Known
<1>11. Alone'
  BY <1>1, <1>2, <1>5, <1>6, <1>8 DEF IInv, Alone
<1>12. SettledIsDone'
  <2>1. settled \subseteq Messages
    BY DEF IInv, DeliveryTypeOK
  <2>2. QED
    BY <1>1, <1>2, <1>5, <1>6, <2>1 DEF IInv, SettledIsDone
<1>13. SentIsRecorded'
  BY <1>1, <1>2, <1>5, <1>6, <1>8 DEF IInv, SentIsRecorded
<1>14. KeptOrAccounted'
  BY <1>1, <1>2 DEF IInv, KeptOrAccounted, Accounted
<1>15. QED
  BY <1>9, <1>10, <1>11, <1>12, <1>13, <1>14 DEF IInv

\* A recovery takes the entry of m out of what it loaded, and in hand unless it is skipped.
LEMMA RecoveryStepKeeps ==
  ASSUME IInv, NEW r \in Slots, NEW m \in Messages, RecoveryStep(r, m)
  PROVE  IInv'
<1>1. /\ job[r].pc = "idle" /\ m \in DOMAIN todo[r]
      /\ todo' = [todo EXCEPT ![r] = [x \in DOMAIN @ \ {m} |-> @[x]]]
      /\ phase' = [phase EXCEPT ![r] = IF @ = "late" THEN @ ELSE "begun"]
      /\ passed' = passed \/ passed' = passed \cup {<<r, m>>}
      /\ UNCHANGED <<up, json, marker, dead, accepted, settled, cancelled, swallowed, sent,
                     uncertain, overlapped>>
  BY DEF RecoveryStep, RecoverExhausted, RecoverEligible, RecoverTooEarly, DeferEntry,
     CanRetry, CanHandle, Handle, files, history
<1>2. job' = job \/ \E pc \in {"bury", "sending", "failRead"} :
                        job' = [job EXCEPT ![r] = [pc |-> pc, msg |-> m, copy |-> NoEntry]]
  BY DEF RecoveryStep, RecoverExhausted, RecoverEligible, RecoverTooEarly, DeferEntry, Take
<1>3. r \in Workers /\ r \notin Messages
  BY DeliveryAssumption DEF Workers
<1>4. /\ job' \in [Workers -> [pc : Pcs, msg : Messages, copy : Entry \cup {NoEntry}]]
      /\ \A v \in Workers : v # r => job'[v] = job[v]
      /\ job'[r].pc # "idle" => job'[r].msg = m
      /\ job'[r].pc \in {"idle", "bury", "sending", "failRead"}
  <2>1. job \in [Workers -> [pc : Pcs, msg : Messages, copy : Entry \cup {NoEntry}]]
    BY DEF IInv, DeliveryTypeOK
  <2>2. CASE job' = job
    BY <1>1, <2>1, <2>2
  <2>3. CASE job' # job
    <3>1. PICK pc \in {"bury", "sending", "failRead"} :
            job' = [job EXCEPT ![r] = [pc |-> pc, msg |-> m, copy |-> NoEntry]]
      BY <1>2, <2>3
    <3> DEFINE x == [pc |-> pc, msg |-> m, copy |-> NoEntry]
    <3>2. /\ x \in [pc : Pcs, msg : Messages, copy : Entry \cup {NoEntry}]
          /\ x.pc = pc /\ x.msg = m
      BY DEF Pcs
    <3>3. job' = [job EXCEPT ![r] = x]
      BY <3>1
    <3> HIDE DEF x
    <3>4. QED
      BY <1>3, <2>1, <3>2, <3>3
  <2>4. QED
    BY <2>2, <2>3
<1>5. PICK S \in SUBSET Messages : todo[r] \in [S -> Entry]
  BY DEF IInv, DeliveryTypeOK
<1>6. [x \in S \ {m} |-> todo[r][x]] \in [S \ {m} -> Entry]
  BY <1>5
<1>7. todo' = [todo EXCEPT ![r] = [x \in S \ {m} |-> todo[r][x]]]
  BY <1>1, <1>5
<1>8. todo' \in [Slots -> UNION {[T -> Entry] : T \in SUBSET Messages}]
  <2>1. todo \in [Slots -> UNION {[T -> Entry] : T \in SUBSET Messages}]
    BY DEF IInv, DeliveryTypeOK
  <2>2. S \ {m} \in SUBSET Messages
    OBVIOUS
  <2>3. QED
    BY <1>6, <1>7, <2>1, <2>2
<1>9. \A q \in Slots, n \in Messages :
        Loaded(q, n)' <=> (Loaded(q, n) /\ (q # r \/ n # m))
  BY <1>5, <1>7 DEF IInv, DeliveryTypeOK, Loaded
<1>10. /\ Loaded(r, m) /\ AtWork(m)
       /\ \A v \in Workers, n \in Messages :
            Holds(v, n)' => (Holds(v, n) \/ (v = r /\ n = m))
       /\ \A n \in Messages : ~Holds(r, n)
  BY <1>1, <1>4 DEF Loaded, AtWork, Holds
<1>11. Pending' = Pending
  BY <1>1 DEF Pending
<1>12. \A n \in Messages : AtWork(n)' => AtWork(n)
  BY <1>9, <1>10 DEF AtWork, Holds, Loaded
<1>13. DeliveryTypeOK'
  <2>1. passed' \subseteq Slots \X Messages
    BY <1>1 DEF IInv, DeliveryTypeOK
  <2>2. QED
    BY <1>1, <1>4, <1>8, <2>1 DEF IInv, DeliveryTypeOK
<1>14. Known'
  BY <1>1, <1>3, <1>4, <1>11, <1>12 DEF IInv, Known, Workers
<1>15. Alone'
  BY <1>1, <1>9, <1>10 DEF IInv, Alone
<1>16. SettledIsDone'
  <2>1. settled \subseteq Messages
    BY DEF IInv, DeliveryTypeOK
  <2>2. QED
    BY <1>1, <1>4, <1>9, <1>10, <1>11, <2>1 DEF IInv, SettledIsDone, Holds
<1>17. SentIsRecorded'
  BY <1>1, <1>4, <1>9, <1>10, <1>11 DEF IInv, SentIsRecorded, Holds
<1>18. KeptOrAccounted'
  BY <1>1, <1>4, <1>11 DEF IInv, KeptOrAccounted, Accounted
<1>19. QED
  BY <1>13, <1>14, <1>15, <1>16, <1>17, <1>18 DEF IInv

LEMMA PhaseKeeps ==
  ASSUME IInv, NEW r \in Slots, HandleOther(r) \/ BudgetExceeded(r)
  PROVE  IInv'
<1>1. /\ phase' = [phase EXCEPT ![r] = "begun"] \/ phase' = [phase EXCEPT ![r] = "late"]
      /\ UNCHANGED <<up, json, marker, dead, job, todo, passed, accepted, settled, cancelled,
                     swallowed, sent, uncertain, overlapped>>
  BY DEF HandleOther, BudgetExceeded, files, history
<1>2. Pending' = Pending /\ \A m \in Messages : AtWork(m)' <=> AtWork(m)
  BY <1>1 DEF Pending, AtWork
<1>3. DeliveryTypeOK'
  BY <1>1 DEF IInv, DeliveryTypeOK
<1>4. Known' /\ Alone' /\ SettledIsDone' /\ SentIsRecorded' /\ KeptOrAccounted'
  BY <1>1, <1>2 DEF IInv, Known, Alone, SettledIsDone, SentIsRecorded, KeptOrAccounted,
     Accounted, Holds, Loaded
<1>5. QED
  BY <1>3, <1>4 DEF IInv

LEMMA CrashKeeps ==
  ASSUME IInv, Crash
  PROVE  IInv'
<1>1. /\ up' = FALSE /\ job' = [w \in Workers |-> Idle] /\ todo' = [r \in Slots |-> NoTodo]
      /\ phase' = [r \in Slots |-> "fresh"]
      /\ uncertain' = uncertain \cup {m \in Pending : \E w \in Workers :
                            job[w].pc = "ack" /\ job[w].msg = m}
      /\ UNCHANGED <<json, marker, dead, passed, accepted, settled, cancelled, swallowed, sent,
                     overlapped>>
  BY DEF Crash, files
<1>2. Idle \in [pc : Pcs, msg : Messages, copy : Entry \cup {NoEntry}] /\ Idle.pc = "idle"
  BY DeliveryAssumption DEF Idle, Pcs, SomeMessage
<1>3. NoTodo \in [{} -> Entry]
  BY DEF NoTodo
<1>4. todo' \in [Slots -> UNION {[S -> Entry] : S \in SUBSET Messages}]
  BY <1>1, <1>3
<1>5. /\ \A w \in Workers : job'[w].pc = "idle"
      /\ \A r \in Slots, m \in Messages : ~Loaded(r, m)'
      /\ \A w \in Workers, m \in Messages : ~Holds(w, m)'
      /\ \A m \in Messages : ~AtWork(m)'
  BY <1>1, <1>2, <1>3 DEF Loaded, Holds, AtWork
<1>6. Pending' = Pending /\ Pending \subseteq Messages
  BY <1>1 DEF Pending
<1>7. DeliveryTypeOK'
  <2>1. job' \in [Workers -> [pc : Pcs, msg : Messages, copy : Entry \cup {NoEntry}]]
    BY <1>1, <1>2
  <2>2. phase' \in [Slots -> {"fresh", "begun", "late"}] /\ up' \in BOOLEAN
    BY <1>1
  <2>3. uncertain' \subseteq Messages
    BY <1>1, <1>6 DEF IInv, DeliveryTypeOK
  <2>4. QED
    BY <1>1, <1>4, <2>1, <2>2, <2>3 DEF IInv, DeliveryTypeOK
<1>8. Known'
  BY <1>1, <1>5, <1>6 DEF IInv, Known, Workers
<1>9. Alone' /\ SettledIsDone'
  <2>1. settled \subseteq Messages
    BY DEF IInv, DeliveryTypeOK
  <2>2. Alone'
    BY <1>1, <1>5 DEF Alone
  <2>3. SettledIsDone'
    BY <1>1, <1>5, <1>6, <2>1 DEF IInv, SettledIsDone
  <2>4. QED
    BY <2>2, <2>3
<1>10. SentIsRecorded'
  BY <1>1, <1>5, <1>6 DEF IInv, SentIsRecorded, Holds
<1>11. KeptOrAccounted'
  BY <1>1, <1>5, <1>6 DEF IInv, KeptOrAccounted, Accounted
<1>12. QED
  BY <1>7, <1>8, <1>9, <1>10, <1>11 DEF IInv

-------------------------------------------------------------------------------
LEMMA NextKeepsIInv == IInv /\ [Next]_vars => IInv'
<1> SUFFICES ASSUME IInv, [Next]_vars PROVE IInv'
  OBVIOUS
<1>1. \A w \in Workers : job[w].msg \in Messages
  BY DEF IInv, DeliveryTypeOK
<1>2. ASSUME NEW m \in Messages, EnqueueDelivery(m) \/ SendAborted(m)
      PROVE  IInv'
  BY <1>2, EnqueueDeliveryKeeps, SendKeeps DEF Workers
<1>3. ASSUME NEW w \in Workers, WorkerStep(w)
      PROVE  IInv'
  <2>1. CASE SendSucceeds(w) \/ SendThrows(w) \/ SendSwallowsError(w)
    BY <2>1, SendKeeps
  <2>2. CASE AckRename(w)
    BY <1>1, <2>2, AckRenameKeeps
  <2>3. CASE AckFails(w)
    BY <2>3, AckFailsKeeps
  <2>4. CASE AckUnlink(w)
    BY <1>1, <2>4, AckUnlinkKeeps
  <2>5. CASE FailRead(w)
    BY <2>5, FailReadKeeps
  <2>6. CASE FailWrite(w)
    BY <1>1, <2>6, FailWriteKeeps DEF IInv, Known, FailWrite, At
  <2>7. CASE MoveToFailed(w)
    BY <1>1, <2>7, MoveToFailedKeeps
  <2>8. QED
    BY <1>3, <2>1, <2>2, <2>3, <2>4, <2>5, <2>6, <2>7 DEF WorkerStep
<1>4. ASSUME NEW r \in Slots, StartGateway(r) \/ HandleOther(r) \/ BudgetExceeded(r)
      PROVE  IInv'
  BY <1>4, StartGatewayKeeps, PhaseKeeps
<1>5. ASSUME NEW r \in Slots, NEW m \in Messages, RecoveryStep(r, m)
      PROVE  IInv'
  BY <1>5, RecoveryStepKeeps
<1>6. CASE UNCHANGED vars
  <2>1. UNCHANGED <<up, json, marker, dead, job, todo, phase, passed, accepted, settled, cancelled,
                    swallowed, sent, uncertain, overlapped>>
    BY <1>6 DEF vars, files, history
  <2>2. Pending' = Pending /\ \A m \in Messages : AtWork(m)' <=> AtWork(m)
    BY <2>1 DEF Pending, AtWork
  <2>3. QED
    BY <2>1, <2>2 DEF IInv, DeliveryTypeOK, Known, Alone, SettledIsDone, SentIsRecorded,
       KeptOrAccounted, Accounted, Holds, Loaded
<1>7. QED
  BY <1>2, <1>3, <1>4, <1>5, <1>6, CrashKeeps DEF Next

THEOREM InductiveInvariant == Spec => []IInv
BY InitIInv, NextKeepsIInv, PTL DEF Spec

\* Every variable keeps its type: the count of retries of an entry never passes
\* MAX_RETRIES as far as the recovery can tell.
THEOREM DeliveryTypes == Spec => []DeliveryTypeOK
<1>1. IInv => DeliveryTypeOK
  BY DEF IInv
<1>2. QED
  BY <1>1, InductiveInvariant, PTL

\* An accepted message is pending, sent, aborted or in failed/, whatever the order of
\* sends, acknowledgements, recoveries and deaths, unless its error was swallowed.
THEOREM NothingLost == Spec => []AcceptedIsKept
<1>1. IInv => AcceptedIsKept
  BY DEF IInv, KeptOrAccounted, Accounted, AcceptedIsKept
<1>2. QED
  BY <1>1, InductiveInvariant, PTL

\* A message reaches the channel twice only after an unrecorded send, or when a recovery
\* loaded its entry while another delivery of it was at work.
THEOREM DuplicatesExplained == Spec => []DuplicateHasCause
<1>1. IInv => DuplicateHasCause
  BY DEF IInv, SentIsRecorded, DuplicateHasCause
<1>2. QED
  BY <1>1, InductiveInvariant, PTL

\* The entry of a settled message stays away, unless recoveries overlapped with another
\* delivery of it.
THEOREM SettledForGood == Spec => []SettledStaysSettled
<1>1. IInv => SettledStaysSettled
  BY DEF IInv, SettledIsDone, SettledStaysSettled
<1>2. QED
  BY <1>1, InductiveInvariant, PTL
================================================================================
