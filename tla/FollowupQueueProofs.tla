-------------------------- MODULE FollowupQueueProofs --------------------------
(***************************************************************************)
(* Proofs about FollowupQueue, for every set of settings, every routing of *)
(* the messages and every bound.  Unless a queue was cleared during its    *)
(* drain, the only object that is drained or holds messages is the         *)
(* registered one.                                                         *)
(***************************************************************************)
EXTENDS FollowupQueue, SequenceTheorems, WellFoundedInduction, TLAPS

-----------------------------------------------------------------------------
(* The inductive invariant, of the registry and of what waits in it.       *)

QueueRecord == [items : Seq(Messages), mode : {"collect", "followup"},
                dropPolicy : {"summarize", "old", "new"}, cap : Nat \ {0},
                draining : BOOLEAN, dropped : Seq(Messages), lastRun : BOOLEAN]
DrainRecord == [pc : {"idle", "debounce", "collecting", "running"},
                force : BOOLEAN, batch : Seq(Messages), told : Seq(Messages),
                take : Nat, overflowed : BOOLEAN]
Registries  == [queues : [Queues -> QueueRecord], drains : [Queues -> DrainRecord],
                registered : 0..MaxQueues]

\* A registry with the flag up exactly while a drain of the object is under way.
Sound(reg) ==
  /\ reg \in Registries
  /\ \A o \in Queues : reg.queues[o].draining <=> reg.drains[o].pc # "idle"

\* Only the registered object is drained.
DrainsRegistered(reg) == \A o \in Queues : reg.queues[o].draining => o = reg.registered

\* What waits, by its fate, waits in the registered object.
WaitsInRegistered(reg, f) ==
  \A m \in Messages :
    /\ f[m] = "queued" =>
         reg.registered # 0 /\ m \in Elems(reg.queues[reg.registered].items)
    /\ f[m] = "dropped" =>
         reg.registered # 0 /\ m \in Elems(reg.queues[reg.registered].dropped)

\* The registered object is drained or holds nothing.
Tended(reg) ==
  reg.registered # 0 =>
    reg.queues[reg.registered].draining \/ ~Pending(reg.queues[reg.registered])

QueueInv ==
  /\ FollowupTypeOK
  /\ turn = "other" => othersRan
  /\ ~clearedMidDrain =>
       /\ DrainsRegistered(Registry)
       /\ WaitsInRegistered(Registry, fate)
       /\ othersRan \/ turn # "none" \/ Tended(Registry)

-----------------------------------------------------------------------------
(* Sequences.                                                              *)

\* Without its first n elements a sequence is what it was.
LEMMA RestFacts ==
  ASSUME NEW M, NEW s \in Seq(M), NEW n \in Nat
  PROVE  /\ SubSeq(s, n + 1, Len(s)) \in Seq(M)
         /\ Len(SubSeq(s, n + 1, Len(s))) = IF n < Len(s) THEN Len(s) - n ELSE 0
         /\ \A i \in 1..(Len(s) - n) : SubSeq(s, n + 1, Len(s))[i] = s[n + i]
         /\ Elems(SubSeq(s, n + 1, Len(s))) \subseteq Elems(s)
<1>1. Len(s) \in Nat
  OBVIOUS
<1>2. CASE n < Len(s)
  <2>1. SubSeq(s, n + 1, Len(s)) \in Seq(M)
    BY <1>1, <1>2
  <2>2. Len(SubSeq(s, n + 1, Len(s))) = Len(s) - n
    BY <1>1, <1>2
  <2>3. \A i \in 1..(Len(s) - n) : SubSeq(s, n + 1, Len(s))[i] = s[n + i]
    BY <1>1, <1>2
  <2>4. \A i \in 1..(Len(s) - n) : n + i \in DOMAIN s
    BY <1>1, <1>2
  <2>5. DOMAIN SubSeq(s, n + 1, Len(s)) = 1..(Len(s) - n)
    BY <2>1, <2>2
  <2>6. Elems(SubSeq(s, n + 1, Len(s))) \subseteq Elems(s)
    BY <2>3, <2>4, <2>5 DEF Elems
  <2>7. QED
    BY <1>2, <2>1, <2>2, <2>3, <2>6
<1>3. CASE n >= Len(s)
  <2>1. SubSeq(s, n + 1, Len(s)) = <<>>
    BY <1>1, <1>3
  <2>2. QED
    BY <1>1, <1>3, <2>1 DEF Elems
<1>4. QED
  BY <1>1, <1>2, <1>3

\* And its first n elements are the rest of it.
LEMMA FirstFacts ==
  ASSUME NEW M, NEW s \in Seq(M), NEW n \in 0..Len(s)
  PROVE  /\ SubSeq(s, 1, n) \in Seq(M) /\ Len(SubSeq(s, 1, n)) = n
         /\ \A i \in 1..n : SubSeq(s, 1, n)[i] = s[i]
         /\ Elems(s) = Elems(SubSeq(s, 1, n)) \cup Elems(SubSeq(s, n + 1, Len(s)))
<1> DEFINE t == SubSeq(s, 1, n)
           u == SubSeq(s, n + 1, Len(s))
<1>1. t \in Seq(M) /\ Len(t) = n /\ \A i \in 1..n : t[i] = s[i]
  OBVIOUS
<1>2. n \in Nat
  OBVIOUS
<1>3. u \in Seq(M) /\ Elems(u) \subseteq Elems(s) /\ \A i \in 1..(Len(s) - n) : u[i] = s[n + i]
  BY <1>2, RestFacts
<1>4. DOMAIN u = 1..(Len(s) - n)
  <2>1. Len(u) = Len(s) - n
    <3>1. Len(u) = IF n < Len(s) THEN Len(s) - n ELSE 0
      BY <1>2, RestFacts
    <3>2. QED
      BY <3>1
  <2>2. QED
    BY <1>3, <2>1
<1>5. Elems(t) \subseteq Elems(s)
  BY <1>1 DEF Elems
<1> HIDE DEF t, u
<1>6. ASSUME NEW i \in 1..Len(s) PROVE s[i] \in Elems(t) \cup Elems(u)
  <2>1. CASE i \in 1..n
    BY <1>1, <2>1 DEF Elems
  <2>2. CASE i \notin 1..n
    <3>1. i - n \in 1..(Len(s) - n) /\ n + (i - n) = i
      BY <2>2
    <3>2. QED
      BY <1>3, <1>4, <3>1 DEF Elems
  <2>3. QED
    BY <2>1, <2>2
<1>7. Elems(s) \subseteq Elems(t) \cup Elems(u)
  BY <1>6 DEF Elems
<1>8. QED
  BY <1>1, <1>3, <1>5, <1>7 DEF t, u

LEMMA AppendFacts ==
  ASSUME NEW M, NEW s \in Seq(M), NEW m \in M
  PROVE  /\ Append(s, m) \in Seq(M) /\ Append(s, m) # <<>>
         /\ Elems(Append(s, m)) = Elems(s) \cup {m}
<1> DEFINE t == Append(s, m)
<1>1. t \in Seq(M) /\ t # <<>> /\ Len(t) = Len(s) + 1
  BY AppendProperties
<1>2. (\A i \in 1..Len(s) : t[i] = s[i]) /\ t[Len(s) + 1] = m
  BY AppendProperties
<1>4. DOMAIN t = DOMAIN s \cup {Len(s) + 1} /\ DOMAIN s = 1..Len(s)
  BY <1>1
<1> HIDE DEF t
<1>5. Elems(t) = Elems(s) \cup {m}
  BY <1>2, <1>4 DEF Elems
<1>6. QED
  BY <1>1, <1>5 DEF t

LEMMA ConcatFacts ==
  ASSUME NEW M, NEW s \in Seq(M), NEW t \in Seq(M)
  PROVE  s \o t \in Seq(M) /\ Elems(s \o t) = Elems(s) \cup Elems(t)
<1>1. Elems(s \o t) \subseteq Elems(s) \cup Elems(t)
  BY DEF Elems
<1>2. Elems(s) \subseteq Elems(s \o t)
  BY DEF Elems
<1>3. Elems(t) \subseteq Elems(s \o t)
  <2>0. DOMAIN t = 1..Len(t)
    OBVIOUS
  <2> SUFFICES ASSUME NEW i \in 1..Len(t) PROVE t[i] \in Elems(s \o t)
    <3> DEFINE u == s \o t
    <3> HIDE DEF u
    <3>1. ASSUME \A i \in 1..Len(t) : t[i] \in Elems(u) PROVE Elems(t) \subseteq Elems(u)
      BY <2>0, <3>1 DEF Elems
    <3>2. QED
      BY <3>1 DEF u
  <2>1. Len(s) + i \in 1..(Len(s) + Len(t)) /\ ~(Len(s) + i <= Len(s))
    OBVIOUS
  <2>2. (s \o t)[Len(s) + i] = t[Len(s) + i - Len(s)]
    BY <2>1, ConcatProperties
  <2>3. DOMAIN (s \o t) = 1..(Len(s) + Len(t)) /\ Len(s) + i - Len(s) = i
    OBVIOUS
  <2>4. QED
    BY <2>1, <2>2, <2>3 DEF Elems
<1>4. s \o t \in Seq(M)
  OBVIOUS
<1>5. QED
  BY <1>1, <1>2, <1>3, <1>4

LEMMA ElemsFacts ==
  ASSUME NEW M
  PROVE  /\ Elems(<<>>) = {} /\ <<>> \in Seq(M)
         /\ \A s \in Seq(M) : Elems(s) \subseteq M
BY DEF Elems

-----------------------------------------------------------------------------
(* Registries.                                                             *)

LEMMA QueueFacts ==
  0 \notin Queues /\ 0 \in 0..MaxQueues /\ \A o \in 0..MaxQueues : o # 0 <=> o \in Queues
BY BoundsAssumption DEF Queues

LEMMA RecordFacts ==
  /\ NoQueue \in QueueRecord /\ ~NoQueue.draining /\ ~Pending(NoQueue)
  /\ NoDrain \in DrainRecord /\ NoDrain.pc = "idle"
  /\ NoQueue.draining <=> NoDrain.pc # "idle"
<1>1. <<>> \in Seq(Messages)
  BY ElemsFacts
<1>2. NoQueue \in QueueRecord /\ ~NoQueue.draining /\ ~Pending(NoQueue)
  BY <1>1 DEF NoQueue, QueueRecord, Pending
<1>3. NoDrain \in DrainRecord /\ NoDrain.pc = "idle"
  BY <1>1 DEF NoDrain, DrainRecord
<1>4. QED
  BY <1>2, <1>3

\* A drain record of no run.
Unused(d) == d.pc # "running" /\ d.batch = <<>> /\ d.told = <<>>

LEMMA DebounceFacts ==
  ASSUME NEW f \in BOOLEAN
  PROVE  LET d == [NoDrain EXCEPT !.pc = "debounce", !.force = f]
         IN  d \in DrainRecord /\ d.pc = "debounce" /\ Unused(d)
BY RecordFacts DEF DrainRecord, NoDrain, Unused

\* The registry reg with the object o and its drain replaced.
Put(reg, o, q, d, n) ==
  [queues |-> [reg.queues EXCEPT ![o] = q], drains |-> [reg.drains EXCEPT ![o] = d],
   registered |-> n]

LEMMA PutGone ==
  ASSUME NEW reg \in Registries, NEW o \in Queues
  PROVE  [reg EXCEPT !.queues[o] = NoQueue, !.drains[o] = NoDrain, !.registered = 0]
           = Put(reg, o, NoQueue, NoDrain, 0)
<1> DEFINE e == [reg EXCEPT !.queues[o] = NoQueue, !.drains[o] = NoDrain, !.registered = 0]
<1>0. NoQueue \in QueueRecord /\ NoDrain \in DrainRecord /\ 0 \in 0..MaxQueues
  BY RecordFacts, QueueFacts
<1>1. /\ e \in Registries
      /\ e.queues = [reg.queues EXCEPT ![o] = NoQueue]
      /\ e.drains = [reg.drains EXCEPT ![o] = NoDrain] /\ e.registered = 0
  BY <1>0 DEF Registries
<1> HIDE DEF e
<1>2. e = Put(reg, o, NoQueue, NoDrain, 0)
  BY <1>1 DEF Put, Registries
<1>3. QED
  BY <1>2 DEF e

LEMMA PutFlagDown ==
  ASSUME NEW reg \in Registries, NEW o \in Queues, NEW d \in DrainRecord
  PROVE  [reg EXCEPT !.queues[o].draining = FALSE, !.drains[o] = d]
           = Put(reg, o, [reg.queues[o] EXCEPT !.draining = FALSE], d, reg.registered)
<1> DEFINE e == [reg EXCEPT !.queues[o].draining = FALSE, !.drains[o] = d]
           x == [reg.queues[o] EXCEPT !.draining = FALSE]
<1>0. x \in QueueRecord
  <2>1. \A q \in QueueRecord : [q EXCEPT !.draining = FALSE] \in QueueRecord
    BY DEF QueueRecord
  <2>2. reg.queues[o] \in QueueRecord
    BY DEF Registries
  <2>3. QED
    BY <2>1, <2>2
<1>1. /\ e \in Registries
      /\ e.queues = [reg.queues EXCEPT ![o] = x]
      /\ e.drains = [reg.drains EXCEPT ![o] = d] /\ e.registered = reg.registered
  BY <1>0 DEF Registries
<1> HIDE DEF e, x
<1>2. e = Put(reg, o, [reg.queues[o] EXCEPT !.draining = FALSE], d, reg.registered)
  BY <1>1 DEF Put, Registries, x
<1>3. QED
  BY <1>2 DEF e, x

LEMMA PutQueue ==
  ASSUME NEW reg \in Registries, NEW o \in Queues, NEW x \in QueueRecord
  PROVE  [reg EXCEPT !.queues[o] = x] = Put(reg, o, x, reg.drains[o], reg.registered)
<1> DEFINE e == [reg EXCEPT !.queues[o] = x]
<1>1. /\ e \in Registries /\ e.queues = [reg.queues EXCEPT ![o] = x]
      /\ e.drains = reg.drains /\ e.registered = reg.registered
  BY DEF Registries
<1>2. reg.drains = [reg.drains EXCEPT ![o] = reg.drains[o]]
  BY DEF Registries
<1> HIDE DEF e
<1>3. e = Put(reg, o, x, reg.drains[o], reg.registered)
  BY <1>1, <1>2 DEF Put, Registries
<1>4. QED
  BY <1>3 DEF e

\* The queue o with the record x, and whether it has overflowed during a run.
WithQueue(reg, o, x, b) == [reg EXCEPT !.queues[o] = x, !.drains[o].overflowed = b]

LEMMA PutOverflow ==
  ASSUME NEW reg \in Registries, NEW o \in Queues, NEW x \in QueueRecord, NEW b \in BOOLEAN
  PROVE  WithQueue(reg, o, x, b)
           = Put(reg, o, x, [reg.drains[o] EXCEPT !.overflowed = b], reg.registered)
<1> DEFINE d == [reg.drains[o] EXCEPT !.overflowed = b]
           e == WithQueue(reg, o, x, b)
<1>1. d \in DrainRecord
  <2>1. \A c \in DrainRecord : [c EXCEPT !.overflowed = b] \in DrainRecord
    BY DEF DrainRecord
  <2>2. reg.drains[o] \in DrainRecord
    BY DEF Registries
  <2>3. QED
    BY <2>1, <2>2
<1>2. /\ e \in Registries /\ e.queues = [reg.queues EXCEPT ![o] = x]
      /\ e.drains = [reg.drains EXCEPT ![o] = d] /\ e.registered = reg.registered
  <2>1. e.queues = [reg.queues EXCEPT ![o] = x] /\ e.registered = reg.registered
    BY DEF Registries, WithQueue
  <2>2. e.drains = [reg.drains EXCEPT ![o] = d]
    BY DEF Registries, WithQueue
  <2>3. e \in Registries
    BY <1>1 DEF Registries, WithQueue
  <2>4. QED
    BY <2>1, <2>2, <2>3
<1> HIDE DEF e, d
<1>3. e = Put(reg, o, x, d, reg.registered)
  BY <1>2 DEF Put, Registries
<1>4. QED
  BY <1>3 DEF e, d

LEMMA PutFacts ==
  ASSUME NEW reg, Sound(reg), NEW o \in Queues, NEW q \in QueueRecord, NEW d \in DrainRecord,
         q.draining <=> d.pc # "idle", NEW n \in 0..MaxQueues
  PROVE  LET r == Put(reg, o, q, d, n)
         IN  /\ Sound(r) /\ r.registered = n
             /\ r.queues[o] = q /\ r.drains[o] = d
             /\ \A p \in Queues \ {o} : r.queues[p] = reg.queues[p] /\ r.drains[p] = reg.drains[p]
BY DEF Put, Sound, Registries

\* Nothing waits in a registry, or what waits is in q.
Holds(q, f) ==
  \A m \in Messages :
    /\ f[m] = "queued" => m \in Elems(q.items)
    /\ f[m] = "dropped" => m \in Elems(q.dropped)

NothingWaits(f) == \A m \in Messages : f[m] \notin {"queued", "dropped"}

LEMMA WaitsFacts ==
  ASSUME NEW reg, NEW f
  PROVE  /\ WaitsInRegistered(reg, f) <=>
              IF reg.registered = 0 THEN NothingWaits(f) ELSE Holds(reg.queues[reg.registered], f)
         /\ \A q : ~Pending(q) /\ Holds(q, f) => NothingWaits(f)
         /\ \A q : NothingWaits(f) => Holds(q, f)
BY ElemsFacts DEF WaitsInRegistered, NothingWaits, Holds, Pending

\* From reg to r no message joined a queue and no prompt was begun: each object keeps what it
\* held or is empty and gone, and each drain but that of o goes on or has no run.
QueuesKept(reg, r, o) ==
  /\ r.registered \in {0, reg.registered}
  /\ \A p \in Queues :
       /\ \/ /\ r.queues[p].items = reg.queues[p].items
             /\ r.queues[p].dropped = reg.queues[p].dropped
          \/ ~Pending(r.queues[p]) /\ r.registered = 0
       /\ (p # o /\ r.drains[p] = reg.drains[p]) \/ Unused(r.drains[p])

LEMMA KeptFacts ==
  /\ Unused(NoDrain)
  /\ \A reg : QueuesKept(reg, reg, 0)
  /\ \A reg, y, r, o : QueuesKept(reg, y, o) /\ QueuesKept(y, r, 0) => QueuesKept(reg, r, o)
<1>1. Unused(NoDrain)
  BY DEF Unused, NoDrain
<1>2. ASSUME NEW reg PROVE QueuesKept(reg, reg, 0)
  BY QueueFacts DEF QueuesKept
<1>3. ASSUME NEW reg, NEW y, NEW r, NEW o, QueuesKept(reg, y, o), QueuesKept(y, r, 0)
      PROVE  QueuesKept(reg, r, o)
  BY <1>3 DEF QueuesKept, Pending
<1>4. QED
  BY <1>1, <1>2, <1>3

\* Starting a drain leaves a registered queue that is drained, or none.
LEMMA ScheduleFacts ==
  ASSUME NEW reg, Sound(reg)
  PROVE  LET r == ScheduleFollowupDrain(reg)
         IN  /\ Sound(r) /\ Tended(r)
             /\ DrainsRegistered(reg) => DrainsRegistered(r)
             /\ \A f : WaitsInRegistered(reg, f) => WaitsInRegistered(r, f)
             /\ QueuesKept(reg, r, 0)
<1> DEFINE o == reg.registered
           q == reg.queues[o]
           r == ScheduleFollowupDrain(reg)
<1>1. CASE o = 0 \/ q.draining
  BY <1>1, KeptFacts DEF ScheduleFollowupDrain, Tended
<1>2. CASE o # 0 /\ ~q.draining
  <2>1. o \in Queues /\ q \in QueueRecord /\ reg.drains[o] \in DrainRecord /\ o \in 0..MaxQueues
        /\ reg.drains[o].pc = "idle" /\ reg \in Registries
    BY <1>2, BoundsAssumption DEF Sound, Registries, Queues
  <2>2. CASE Pending(q)
    <3> DEFINE x == [q EXCEPT !.draining = TRUE]
               d == [NoDrain EXCEPT !.pc = "debounce"]
    <3>1. r = Put(reg, o, x, d, o)
      BY <1>2, <2>1, <2>2 DEF ScheduleFollowupDrain, Put, Registries
    <3>2. /\ x \in QueueRecord /\ x.draining /\ x.items = q.items /\ x.dropped = q.dropped
          /\ d \in DrainRecord /\ d.pc = "debounce" /\ Unused(d)
      BY <2>1, ElemsFacts DEF QueueRecord, DrainRecord, NoDrain, Unused
    <3> HIDE DEF x, d, o, q, r
    <3>3. /\ Sound(r) /\ r.registered = o /\ r.queues[o] = x /\ r.drains[o] = d
          /\ \A p \in Queues \ {o} : r.queues[p] = reg.queues[p] /\ r.drains[p] = reg.drains[p]
      BY <2>1, <3>1, <3>2, PutFacts
    <3>4. Tended(r)
      BY <3>2, <3>3 DEF Tended
    <3>5. DrainsRegistered(reg) => DrainsRegistered(r)
      BY <3>3 DEF DrainsRegistered, o
    <3>6. \A f : WaitsInRegistered(reg, f) => WaitsInRegistered(r, f)
      BY <3>2, <3>3 DEF WaitsInRegistered, o, q
    <3>7. QueuesKept(reg, r, 0)
      BY <3>2, <3>3, QueueFacts DEF QueuesKept, o, q
    <3>8. QED
      BY <3>3, <3>4, <3>5, <3>6, <3>7 DEF r
  <2>3. CASE ~Pending(q)
    <3>1. r = Put(reg, o, NoQueue, reg.drains[o], 0)
      BY <1>2, <2>1, <2>3 DEF ScheduleFollowupDrain, Put, Registries
    <3> HIDE DEF o, q, r
    <3>2. /\ Sound(r) /\ r.registered = 0 /\ r.queues[o] = NoQueue /\ r.drains[o] = reg.drains[o]
          /\ \A p \in Queues \ {o} : r.queues[p] = reg.queues[p] /\ r.drains[p] = reg.drains[p]
      BY <2>1, <3>1, RecordFacts, PutFacts, QueueFacts
    <3>3. DrainsRegistered(reg) => DrainsRegistered(r)
      BY <1>2, <2>1, <3>2, RecordFacts DEF DrainsRegistered, o
    <3>4. \A f : WaitsInRegistered(reg, f) => WaitsInRegistered(r, f)
      BY <1>2, <2>3, <3>2, WaitsFacts DEF o, q
    <3>5. QueuesKept(reg, r, 0)
      BY <3>2, QueueFacts, RecordFacts DEF QueuesKept
    <3>6. QED
      BY <3>2, <3>3, <3>4, <3>5 DEF Tended, r
  <2>4. QED
    BY <2>2, <2>3
<1>3. QED
  BY <1>1, <1>2

\* The end of a drain, too, if it is the drain of the registered queue.
LEMMA EndDrainFacts ==
  ASSUME NEW reg, Sound(reg), NEW o \in Queues
  PROVE  LET r == EndDrain(reg, o)
         IN  /\ Sound(r) /\ QueuesKept(reg, r, o)
             /\ DrainsRegistered(reg) /\ o = reg.registered =>
                  /\ DrainsRegistered(r) /\ Tended(r)
                  /\ \A f : WaitsInRegistered(reg, f) => WaitsInRegistered(r, f)
<1> DEFINE q == reg.queues[o]
           r == EndDrain(reg, o)
<1>1. /\ q \in QueueRecord /\ reg \in Registries
      /\ reg.registered \in 0..MaxQueues /\ o # 0 /\ 0 \in 0..MaxQueues
  BY QueueFacts DEF Sound, Registries
<1>2. CASE Pending(q)
  <2> DEFINE x == [q EXCEPT !.draining = FALSE]
             y == Put(reg, o, x, NoDrain, reg.registered)
  <2>1. r = ScheduleFollowupDrain(y)
    <3>1. [reg EXCEPT !.queues[o].draining = FALSE, !.drains[o] = NoDrain] = y
      BY <1>1, RecordFacts, PutFlagDown
    <3>2. QED
      BY <1>2, <3>1 DEF EndDrain
  <2>2. x \in QueueRecord /\ ~x.draining /\ x.items = q.items /\ x.dropped = q.dropped
    BY <1>1 DEF QueueRecord
  <2> HIDE DEF x, y, q, r
  <2>3. /\ Sound(y) /\ y.registered = reg.registered /\ y.queues[o] = x /\ y.drains[o] = NoDrain
        /\ \A p \in Queues \ {o} : y.queues[p] = reg.queues[p] /\ y.drains[p] = reg.drains[p]
    BY <1>1, <2>2, RecordFacts, PutFacts DEF y
  <2>4. DrainsRegistered(reg) => DrainsRegistered(y)
    BY <2>2, <2>3 DEF DrainsRegistered
  <2>5. o = reg.registered => \A f : WaitsInRegistered(reg, f) => WaitsInRegistered(y, f)
    BY <2>2, <2>3 DEF WaitsInRegistered, q
  <2>6. /\ Sound(r) /\ Tended(r) /\ (DrainsRegistered(y) => DrainsRegistered(r))
        /\ \A f : WaitsInRegistered(y, f) => WaitsInRegistered(r, f)
        /\ QueuesKept(y, r, 0)
    BY <2>1, <2>3, ScheduleFacts
  <2>7. QueuesKept(reg, y, o)
    BY <2>2, <2>3, KeptFacts DEF QueuesKept, q
  <2>8. QED
    BY <2>4, <2>5, <2>6, <2>7, KeptFacts DEF r
<1>3. CASE ~Pending(q)
  <2>1. r = Put(reg, o, NoQueue, NoDrain, 0)
    <3>1. [reg EXCEPT !.queues[o] = NoQueue, !.drains[o] = NoDrain, !.registered = 0]
            = Put(reg, o, NoQueue, NoDrain, 0)
      BY <1>1, PutGone
    <3>2. QED
      BY <1>3, <3>1 DEF EndDrain
  <2> HIDE DEF q, r
  <2>2. /\ Sound(r) /\ r.registered = 0 /\ r.queues[o] = NoQueue /\ r.drains[o] = NoDrain
        /\ \A p \in Queues \ {o} : r.queues[p] = reg.queues[p] /\ r.drains[p] = reg.drains[p]
    BY <1>1, <2>1, RecordFacts, PutFacts
  <2>3. DrainsRegistered(reg) /\ o = reg.registered => DrainsRegistered(r)
    BY <2>2, RecordFacts DEF DrainsRegistered
  <2>4. o = reg.registered => \A f : WaitsInRegistered(reg, f) => WaitsInRegistered(r, f)
    BY <1>1, <1>3, <2>2, WaitsFacts DEF q
  <2>5. QueuesKept(reg, r, o)
    BY <2>2, RecordFacts, KeptFacts DEF QueuesKept
  <2>6. QED
    BY <2>2, <2>3, <2>4, <2>5 DEF Tended, r
<1>4. QED
  BY <1>2, <1>3

\* And the next round.
LEMMA NextRoundFacts ==
  ASSUME NEW reg, Sound(reg), NEW o \in Queues, reg.queues[o].draining
  PROVE  LET r == NextRound(reg, o)
         IN  /\ Sound(r) /\ QueuesKept(reg, r, o)
             /\ DrainsRegistered(reg) =>
                  /\ DrainsRegistered(r) /\ Tended(r)
                  /\ \A f : WaitsInRegistered(reg, f) => WaitsInRegistered(r, f)
<1> DEFINE q == reg.queues[o]
           r == NextRound(reg, o)
<1>1. /\ q \in QueueRecord /\ reg \in Registries /\ reg.drains[o].force \in BOOLEAN
      /\ reg.registered \in 0..MaxQueues
  BY DEF Sound, Registries, DrainRecord
<1>2. CASE Pending(q)
  <2> DEFINE d == [NoDrain EXCEPT !.pc = "debounce", !.force = reg.drains[o].force]
  <2>1. r = Put(reg, o, q, d, reg.registered)
    BY <1>1, <1>2 DEF NextRound, Put, Registries
  <2>2. d \in DrainRecord /\ d.pc = "debounce" /\ Unused(d)
    BY <1>1, DebounceFacts
  <2> HIDE DEF d, r, q
  <2>3. /\ Sound(r) /\ r.registered = reg.registered /\ \A p \in Queues : r.queues[p] = reg.queues[p]
        /\ r.drains[o] = d /\ \A p \in Queues \ {o} : r.drains[p] = reg.drains[p]
    BY <1>1, <2>1, <2>2, PutFacts DEF q
  <2>4. DrainsRegistered(reg) => DrainsRegistered(r) /\ o = reg.registered
    BY <2>3 DEF DrainsRegistered
  <2>5. o = reg.registered =>
          Tended(r) /\ \A f : WaitsInRegistered(reg, f) => WaitsInRegistered(r, f)
    BY <2>3 DEF WaitsInRegistered, Tended
  <2>6. QueuesKept(reg, r, o)
    BY <2>2, <2>3 DEF QueuesKept
  <2>7. QED
    BY <2>3, <2>4, <2>5, <2>6 DEF r
<1>3. CASE ~Pending(q)
  <2>1. r = EndDrain(reg, o)
    BY <1>3 DEF NextRound
  <2>2. DrainsRegistered(reg) => o = reg.registered
    BY DEF DrainsRegistered
  <2>3. QED
    BY <2>1, <2>2, EndDrainFacts
<1>4. QED
  BY <1>2, <1>3

\* A drain goes on with the record d.
LEMMA GoOnFacts ==
  ASSUME NEW reg, Sound(reg), NEW o \in Queues, reg.queues[o].draining,
         NEW d \in DrainRecord, d.pc # "idle"
  PROVE  LET r == [reg EXCEPT !.drains[o] = d]
         IN  /\ Sound(r)
             /\ DrainsRegistered(reg) =>
                  /\ DrainsRegistered(r) /\ Tended(r)
                  /\ \A f : WaitsInRegistered(reg, f) => WaitsInRegistered(r, f)
<1> DEFINE r == [reg EXCEPT !.drains[o] = d]
<1>1. reg \in Registries /\ \A p \in Queues : reg.queues[p].draining <=> reg.drains[p].pc # "idle"
  BY DEF Sound
<1>2. /\ r \in Registries /\ r.queues = reg.queues /\ r.registered = reg.registered
      /\ r.drains = [reg.drains EXCEPT ![o] = d]
  BY <1>1 DEF Registries
<1> HIDE DEF r
<1>3. Sound(r)
  <2>1. \A p \in Queues : r.drains[p] = IF p = o THEN d ELSE reg.drains[p]
    BY <1>1, <1>2 DEF Registries
  <2>2. QED
    BY <1>1, <1>2, <2>1 DEF Sound
<1>4. DrainsRegistered(reg) => DrainsRegistered(r) /\ o = reg.registered
  BY <1>2 DEF DrainsRegistered
<1>5. o = reg.registered => Tended(r)
  BY <1>2 DEF Tended
<1>6. \A f : WaitsInRegistered(reg, f) => WaitsInRegistered(r, f)
  BY <1>2 DEF WaitsInRegistered
<1>7. QED
  BY <1>3, <1>4, <1>5, <1>6 DEF r

-----------------------------------------------------------------------------
(* A step, by the registry it leaves.                                      *)

\* The types of the other variables.
RestTyped ==
  /\ arrivals \in 0..MaxMessages /\ route \in Routings /\ fate \in [Messages -> Fates]
  /\ turn \in Turns /\ failures \in 0..MaxFailures
  /\ othersRan \in BOOLEAN /\ clearedMidDrain \in BOOLEAN

LEMMA TypeParts == FollowupTypeOK <=> Sound(Registry) /\ RestTyped
<1>1. Registry \in Registries <=>
        /\ queues \in [Queues -> QueueRecord] /\ drains \in [Queues -> DrainRecord]
        /\ registered \in 0..MaxQueues
  BY DEF Registry, Registries
<1>2. Registry.queues = queues /\ Registry.drains = drains /\ Registry.registered = registered
  BY DEF Registry
<1>3. Sound(Registry) <=>
        /\ queues \in [Queues -> QueueRecord] /\ drains \in [Queues -> DrainRecord]
        /\ registered \in 0..MaxQueues
        /\ \A o \in Queues : queues[o].draining <=> drains[o].pc # "idle"
  BY <1>1, <1>2 DEF Sound
<1>4. QED
  BY <1>3 DEF FollowupTypeOK, RestTyped, QueueRecord, DrainRecord

LEMMA BecomesFacts ==
  ASSUME NEW reg, Sound(reg), Becomes(reg)
  PROVE  Registry' = reg
<1>1. reg = [queues |-> reg.queues, drains |-> reg.drains, registered |-> reg.registered]
  BY DEF Sound, Registries
<1>2. QED
  BY <1>1 DEF Becomes, Registry

LEMMA StepKeeps ==
  ASSUME NEW reg, Sound(reg), Becomes(reg), RestTyped',
         turn' = "other" => othersRan',
         ~clearedMidDrain' =>
           /\ DrainsRegistered(reg) /\ WaitsInRegistered(reg, fate')
           /\ othersRan' \/ turn' # "none" \/ Tended(reg)
  PROVE  QueueInv'
<1>1. Registry' = reg
  BY BecomesFacts
<1>2. FollowupTypeOK'
  <2>1. Sound(Registry)'
    BY <1>1
  <2>2. FollowupTypeOK' <=> Sound(Registry)' /\ RestTyped'
    BY TypeParts, PTL
  <2>3. QED
    BY <2>1, <2>2
<1>3. QED
  BY <1>1, <1>2 DEF QueueInv

LEMMA InvFacts ==
  ASSUME QueueInv
  PROVE  /\ Sound(Registry) /\ RestTyped /\ (turn = "other" => othersRan)
         /\ Registry.queues = queues /\ Registry.drains = drains
         /\ Registry.registered = registered /\ registered \in 0..MaxQueues
         /\ \A o \in Queues : /\ queues[o] \in QueueRecord /\ drains[o] \in DrainRecord
                              /\ queues[o].draining <=> drains[o].pc # "idle"
         /\ ~clearedMidDrain => DrainsRegistered(Registry) /\ WaitsInRegistered(Registry, fate)
<1>1. Sound(Registry) /\ RestTyped
  BY TypeParts DEF QueueInv
<1>2. Registry.queues = queues /\ Registry.drains = drains /\ Registry.registered = registered
  BY DEF Registry
<1>3. /\ registered \in 0..MaxQueues
      /\ \A o \in Queues : /\ queues[o] \in QueueRecord /\ drains[o] \in DrainRecord
                           /\ queues[o].draining <=> drains[o].pc # "idle"
  BY <1>1, <1>2 DEF Sound, Registries
<1>4. QED
  BY <1>1, <1>2, <1>3 DEF QueueInv

\* A step of a drain that settles no message.
LEMMA DrainStepKeeps ==
  ASSUME QueueInv, NEW reg, Sound(reg), Becomes(reg),
         UNCHANGED <<arrivals, route, fate, turn, othersRan, clearedMidDrain>>,
         failures' \in 0..MaxFailures,
         DrainsRegistered(Registry) =>
           /\ DrainsRegistered(reg) /\ Tended(reg)
           /\ \A f : WaitsInRegistered(Registry, f) => WaitsInRegistered(reg, f)
  PROVE  QueueInv'
<1>1. RestTyped'
  BY InvFacts DEF RestTyped
<1>2. ~clearedMidDrain' => /\ DrainsRegistered(reg) /\ WaitsInRegistered(reg, fate')
                           /\ Tended(reg)
  BY InvFacts
<1>3. turn' = "other" => othersRan'
  BY InvFacts
<1>4. QED
  BY <1>1, <1>2, <1>3, StepKeeps

-----------------------------------------------------------------------------
(* The steps of a drain.                                                   *)

LEMMA EndDrainKeeps ==
  ASSUME QueueInv, NEW o \in Queues, drains[o].pc # "idle", Becomes(EndDrain(Registry, o)),
         UNCHANGED <<arrivals, route, fate, turn, othersRan, clearedMidDrain>>,
         failures' \in 0..MaxFailures
  PROVE  QueueInv'
<1> DEFINE r == EndDrain(Registry, o)
<1>1. Sound(Registry) /\ Registry.queues[o].draining
  BY InvFacts
<1>2. DrainsRegistered(Registry) => o = Registry.registered
  BY <1>1 DEF DrainsRegistered
<1>3. /\ Sound(r)
      /\ DrainsRegistered(Registry) =>
           /\ DrainsRegistered(r) /\ Tended(r)
           /\ \A f : WaitsInRegistered(Registry, f) => WaitsInRegistered(r, f)
  BY <1>1, <1>2, EndDrainFacts
<1>4. QED
  BY <1>3, DrainStepKeeps

LEMMA GoOnKeeps ==
  ASSUME QueueInv, NEW o \in Queues, drains[o].pc # "idle",
         NEW d \in DrainRecord, d.pc # "idle",
         Becomes([Registry EXCEPT !.drains[o] = d]),
         UNCHANGED <<arrivals, route, fate, turn, failures, othersRan, clearedMidDrain>>
  PROVE  QueueInv'
<1> DEFINE r == [Registry EXCEPT !.drains[o] = d]
<1>1. Sound(Registry) /\ Registry.queues[o].draining /\ failures' \in 0..MaxFailures
  BY InvFacts DEF RestTyped
<1>2. /\ Sound(r)
      /\ DrainsRegistered(Registry) =>
           /\ DrainsRegistered(r) /\ Tended(r)
           /\ \A f : WaitsInRegistered(Registry, f) => WaitsInRegistered(r, f)
  BY <1>1, GoOnFacts
<1> HIDE DEF r
<1>3. Becomes(r)
  BY DEF r
<1>4. QED
  BY <1>1, <1>2, <1>3, DrainStepKeeps

\* A run is begun with the record d of its drain.
LEMMA RunKeeps ==
  ASSUME QueueInv, NEW o \in Queues, drains[o].pc # "idle", NEW d \in DrainRecord, Run(o, d),
         UNCHANGED <<arrivals, route, fate, turn, failures, othersRan, clearedMidDrain>>
  PROVE  QueueInv'
<1> DEFINE e == [d EXCEPT !.pc = "running", !.overflowed = FALSE]
<1>1. e \in DrainRecord /\ e.pc # "idle"
  BY DEF DrainRecord
<1> HIDE DEF e
<1>2. Becomes([Registry EXCEPT !.drains[o] = e])
  BY DEF Run, e
<1>3. QED
  BY <1>1, <1>2, GoOnKeeps

LEMMA RunNextItemKeeps ==
  ASSUME QueueInv, NEW o \in Queues, drains[o].pc # "idle",
         NEW d \in DrainRecord, RunNextItem(o, d),
         UNCHANGED <<arrivals, route, fate, turn, failures, othersRan, clearedMidDrain>>
  PROVE  QueueInv'
<1>1. failures' \in 0..MaxFailures /\ queues[o] \in QueueRecord
  BY InvFacts DEF RestTyped
<1>2. CASE queues[o].items = <<>>
  BY <1>1, <1>2, EndDrainKeeps DEF RunNextItem
<1>3. CASE queues[o].items # <<>>
  <2> DEFINE e == [d EXCEPT !.batch = <<Head(queues[o].items)>>, !.take = 1]
  <2>1. queues[o].items \in Seq(Messages)
    BY <1>1 DEF QueueRecord
  <2>2. <<Head(queues[o].items)>> \in Seq(Messages)
    BY <1>3, <2>1
  <2>3. e \in DrainRecord
    BY <2>2 DEF DrainRecord
  <2>4. Run(o, e)
    BY <1>3 DEF RunNextItem
  <2>5. QED
    BY <2>3, <2>4, RunKeeps
<1>4. QED
  BY <1>2, <1>3

LEMMA DecideKeeps ==
  ASSUME QueueInv, NEW o \in Queues, Decide(o)
  PROVE  QueueInv'
<1> DEFINE q == queues[o]
           cross == HasCrossChannelItems(q.items)
<1>1. /\ drains[o].pc = "debounce" /\ drains[o] \in DrainRecord /\ q \in QueueRecord
      /\ UNCHANGED <<arrivals, route, fate, turn, failures, othersRan, clearedMidDrain>>
      /\ failures' \in 0..MaxFailures
  BY InvFacts DEF Decide, RestTyped
<1>2. CASE RunNextItem(o, [drains[o] EXCEPT !.force = @ \/ cross])
  <2>1. (drains[o].force \/ cross) \in BOOLEAN
    OBVIOUS
  <2> HIDE DEF cross
  <2>2. [drains[o] EXCEPT !.force = @ \/ cross] \in DrainRecord
    BY <1>1, <2>1 DEF DrainRecord
  <2>3. QED
    BY <1>1, <1>2, <2>2, RunNextItemKeeps
<1>3. CASE Becomes([Registry EXCEPT !.drains[o].pc = "collecting"])
  <2> DEFINE d == [drains[o] EXCEPT !.pc = "collecting"]
  <2>1. d \in DrainRecord /\ d.pc # "idle"
    BY <1>1 DEF DrainRecord
  <2>2. [Registry EXCEPT !.drains[o].pc = "collecting"] = [Registry EXCEPT !.drains[o] = d]
    BY DEF Registry
  <2> HIDE DEF d
  <2>3. QED
    BY <1>1, <1>3, <2>1, <2>2, GoOnKeeps
<1>4. CASE RunSummary(o)
  <2>1. CASE q.items = <<>> \/ ~q.lastRun
    BY <1>1, <1>4, <2>1, EndDrainKeeps DEF RunSummary
  <2>2. CASE ~(q.items = <<>> \/ ~q.lastRun)
    <3> DEFINE d == [drains[o] EXCEPT !.told = q.dropped, !.take = 1]
    <3>1. d \in DrainRecord
      BY <1>1 DEF DrainRecord, QueueRecord
    <3>2. Run(o, d)
      BY <1>4, <2>2 DEF RunSummary
    <3>3. QED
      BY <1>1, <3>1, <3>2, RunKeeps
  <2>3. QED
    BY <2>1, <2>2
<1>5. CASE RunNextItem(o, drains[o])
  BY <1>1, <1>5, RunNextItemKeeps
<1>6. QED
  BY <1>2, <1>3, <1>4, <1>5 DEF Decide

LEMMA CollectKeeps ==
  ASSUME QueueInv, NEW o \in Queues, Collect(o)
  PROVE  QueueInv'
<1> DEFINE q == queues[o]
           d == [drains[o] EXCEPT !.batch = q.items, !.take = Len(q.items),
                                  !.told = IF HasSummary(q) THEN q.dropped ELSE <<>>]
<1>1. /\ drains[o].pc = "collecting" /\ drains[o] \in DrainRecord /\ q \in QueueRecord
      /\ UNCHANGED <<arrivals, route, fate, turn, failures, othersRan, clearedMidDrain>>
      /\ failures' \in 0..MaxFailures
  BY InvFacts DEF Collect, RestTyped
<1>2. CASE q.items = <<>> /\ ~q.lastRun
  BY <1>1, <1>2, EndDrainKeeps DEF Collect
<1>3. CASE ~(q.items = <<>> /\ ~q.lastRun)
  <2>1. q.items \in Seq(Messages) /\ q.dropped \in Seq(Messages) /\ <<>> \in Seq(Messages)
    BY <1>1, ElemsFacts DEF QueueRecord
  <2>2. Len(q.items) \in Nat
    BY <2>1
  <2>3. d \in DrainRecord
    BY <1>1, <2>1, <2>2 DEF DrainRecord
  <2>4. Run(o, d)
    BY <1>3 DEF Collect
  <2>5. QED
    BY <1>1, <2>3, <2>4, RunKeeps
<1>4. QED
  BY <1>2, <1>3

LEMMA FailRunKeeps ==
  ASSUME QueueInv, NEW o \in Queues, FailRun(o)
  PROVE  QueueInv'
<1>1. failures' \in 0..MaxFailures
  BY InvFacts, BoundsAssumption DEF FailRun, RestTyped
<1>2. QED
  BY <1>1, EndDrainKeeps DEF FailRun

\* What leaves the queue with a run has a new fate.
LEMMA FinishRunKeeps ==
  ASSUME QueueInv, NEW o \in Queues, FinishRun(o)
  PROVE  QueueInv'
<1> DEFINE d == drains[o]
           q == AfterRun(o)
           gone == (Elems(queues[o].items) \ Elems(q.items))
                     \cup (Elems(queues[o].dropped) \ Elems(q.dropped))
           new(m) == IF m \in Elems(d.batch) THEN "delivered"
                     ELSE IF m \in gone /\ fate[m] # "delivered"
                     THEN IF m \in Elems(d.told) THEN "summarized" ELSE "skipped"
                     ELSE fate[m]
           y == Put(Registry, o, q, d, registered)
<1>1. /\ d.pc = "running" /\ d \in DrainRecord /\ queues[o] \in QueueRecord /\ queues[o].draining
      /\ UNCHANGED <<arrivals, route, turn, failures, othersRan, clearedMidDrain>>
      /\ Sound(Registry) /\ Registry.queues = queues /\ Registry.drains = drains
      /\ Registry.registered = registered /\ registered \in 0..MaxQueues
  BY InvFacts DEF FinishRun
<1>2. q \in QueueRecord /\ q.draining
  <2>1. queues[o].items \in Seq(Messages) /\ d.take \in Nat
    BY <1>1 DEF QueueRecord, DrainRecord
  <2>2. SubSeq(queues[o].items, d.take + 1, Len(queues[o].items)) \in Seq(Messages)
    BY <2>1, RestFacts
  <2>3. QED
    BY <1>1, <2>2, ElemsFacts DEF AfterRun, QueueRecord
<1>3. fate' = [m \in Messages |-> new(m)]
  BY DEF FinishRun
<1>4. Becomes(NextRound(y, o))
  <2>1. [Registry EXCEPT !.queues[o] = q] = y
    <3> HIDE DEF q
    <3>1. QED
      BY <1>1, <1>2, PutQueue DEF Sound
  <2>2. QED
    BY <2>1 DEF FinishRun
<1> HIDE DEF q, y, gone
<1>5. /\ Sound(y) /\ y.registered = registered /\ y.queues[o] = q
      /\ \A p \in Queues \ {o} : y.queues[p] = queues[p]
  BY <1>1, <1>2, PutFacts DEF y
<1>6. DrainsRegistered(Registry) => DrainsRegistered(y) /\ o = registered
  BY <1>1, <1>2, <1>5 DEF DrainsRegistered
<1>7. o = registered /\ WaitsInRegistered(Registry, fate) => WaitsInRegistered(y, fate')
  <2> SUFFICES ASSUME o = registered, WaitsInRegistered(Registry, fate), NEW m \in Messages
               PROVE  /\ fate'[m] = "queued" => o # 0 /\ m \in Elems(q.items)
                      /\ fate'[m] = "dropped" => o # 0 /\ m \in Elems(q.dropped)
    BY <1>5 DEF WaitsInRegistered
  <2>1. /\ fate[m] = "queued" => o # 0 /\ m \in Elems(queues[o].items)
        /\ fate[m] = "dropped" => o # 0 /\ m \in Elems(queues[o].dropped)
    BY <1>1 DEF WaitsInRegistered
  <2>2. fate'[m] \in {"queued", "dropped"} => fate'[m] = fate[m] /\ m \notin gone
    BY <1>3
  <2>3. QED
    BY <2>1, <2>2 DEF gone
<1> DEFINE r == NextRound(y, o)
<1>8. /\ Sound(r)
      /\ DrainsRegistered(y) =>
           /\ DrainsRegistered(r) /\ Tended(r)
           /\ \A f : WaitsInRegistered(y, f) => WaitsInRegistered(r, f)
  BY <1>2, <1>5, NextRoundFacts
<1>9. RestTyped'
  <2>1. \A m \in Messages : new(m) \in Fates
    BY InvFacts DEF RestTyped, Fates
  <2>2. fate' \in [Messages -> Fates]
    BY <1>3, <2>1
  <2>3. QED
    BY <1>1, <2>2, InvFacts DEF RestTyped
<1> HIDE DEF r
<1>10. ~clearedMidDrain' => DrainsRegistered(r) /\ WaitsInRegistered(r, fate') /\ Tended(r)
  BY <1>1, <1>6, <1>7, <1>8, InvFacts
<1>11. Becomes(r) /\ (turn' = "other" => othersRan')
  BY <1>1, <1>4, InvFacts DEF r
<1>12. QED
  BY <1>8, <1>9, <1>10, <1>11, StepKeeps

-----------------------------------------------------------------------------
(* Enqueueing.                                                             *)

LEMMA LeastFacts ==
  ASSUME NEW S, S \subseteq Queues, S # {}
  PROVE  (CHOOSE p \in S : \A r \in S : p <= r) \in S
<1>1. S \subseteq Nat
  BY DEF Queues
<1>2. PICK p \in S : \A r \in S : ~(<<r, p>> \in OpToRel(<, Nat))
  BY <1>1, NatLessThanWellFounded, WFMin
<1>3. \A r \in S : p <= r
  <2> SUFFICES ASSUME NEW r \in S, ~(p <= r) PROVE FALSE
    OBVIOUS
  <2>1. p \in Nat /\ r \in Nat /\ r < p
    BY <1>1
  <2>2. <<r, p>> \in OpToRel(<, Nat)
    BY <2>1 DEF OpToRel
  <2>3. QED
    BY <1>2, <2>2
<1>4. QED
  BY <1>3

\* The queue a message goes to: the registered one, or one that nothing refers to.
LEMMA GetQueueFacts ==
  ASSUME QueueInv, NEW s \in Settings, registered # 0 \/ FreeQueues # {}
  PROVE  LET reg == GetFollowupQueue(s)
             o == reg.registered
         IN  /\ Sound(reg) /\ o \in Queues
             /\ \A p \in Queues : /\ reg.queues[p].draining <=> queues[p].draining
                                  /\ reg.drains[p] = drains[p]
             /\ DrainsRegistered(Registry) => DrainsRegistered(reg)
             /\ \A f : WaitsInRegistered(Registry, f) => WaitsInRegistered(reg, f)
             /\ \A p \in Queues \ {o} : reg.queues[p] = queues[p]
             /\ IF registered = 0
                THEN ~Pending(reg.queues[o]) /\ drains[o].pc = "idle"
                ELSE /\ o = registered
                     /\ reg.queues[o].items = queues[o].items
                     /\ reg.queues[o].dropped = queues[o].dropped
<1> DEFINE reg == GetFollowupQueue(s)
           o == IF registered # 0 THEN registered
                ELSE CHOOSE p \in FreeQueues : \A r \in FreeQueues : p <= r
           q == IF registered # 0 THEN queues[o] ELSE NoQueue
           x == [q EXCEPT !.mode = s.mode, !.dropPolicy = s.dropPolicy, !.cap = s.cap]
           y == Put(Registry, o, x, drains[o], o)
<1>1. /\ Sound(Registry) /\ Registry.queues = queues /\ Registry.drains = drains
      /\ Registry.registered = registered /\ registered \in 0..MaxQueues
      /\ \A p \in Queues : /\ queues[p] \in QueueRecord /\ drains[p] \in DrainRecord
                           /\ queues[p].draining <=> drains[p].pc # "idle"
  BY InvFacts
<1>2. /\ o \in Queues /\ o \in 0..MaxQueues /\ o # 0
      /\ registered = 0 => ~queues[o].draining
      /\ registered # 0 => o = registered
  <2>1. CASE registered # 0
    BY <1>1, <2>1, QueueFacts
  <2>2. CASE registered = 0
    <3>1. o \in FreeQueues
      BY <2>2, LeastFacts DEF FreeQueues
    <3>2. o \in Queues /\ ~queues[o].draining
      BY <3>1 DEF FreeQueues
    <3>3. \A p \in Queues : p \in 0..MaxQueues /\ p # 0
      BY BoundsAssumption DEF Queues
    <3> HIDE DEF o
    <3>4. QED
      BY <2>2, <3>2, <3>3
  <2>3. QED
    BY <2>1, <2>2
<1>3. /\ s.mode \in {"collect", "followup"} /\ s.dropPolicy \in {"summarize", "old", "new"}
      /\ s.cap \in Nat \ {0}
  BY SettingsAssumption
<1> HIDE DEF o
<1>4. q \in QueueRecord
  BY <1>1, <1>2, RecordFacts
<1> HIDE DEF q
<1>5. x \in QueueRecord /\ x.items = q.items /\ x.dropped = q.dropped /\ x.draining = q.draining
  BY <1>3, <1>4 DEF QueueRecord
<1>6. q.draining <=> queues[o].draining
  BY <1>2, RecordFacts DEF q
<1>7. reg = y
  <2> DEFINE e == [Registry EXCEPT !.registered = o, !.queues[o] = x]
  <2>1. reg = e
    BY <1>1 DEF GetFollowupQueue, o, q
  <2> HIDE DEF reg, x
  <2>2. /\ e \in Registries
        /\ e.queues = [queues EXCEPT ![o] = x] /\ e.drains = drains /\ e.registered = o
    BY <1>1, <1>2, <1>5 DEF Sound, Registries
  <2>3. drains = [drains EXCEPT ![o] = drains[o]]
    BY <1>1 DEF Sound, Registries
  <2> HIDE DEF e
  <2>4. e = y
    BY <1>1, <2>2, <2>3 DEF Put, Registries
  <2>5. QED
    BY <2>1, <2>4
<1> HIDE DEF reg
<1> HIDE DEF x, y
<1>8. /\ Sound(reg) /\ reg.registered = o /\ reg.queues[o] = x /\ reg.drains[o] = drains[o]
      /\ \A p \in Queues \ {o} : reg.queues[p] = queues[p] /\ reg.drains[p] = drains[p]
  <2>1. x.draining <=> drains[o].pc # "idle"
    BY <1>1, <1>2, <1>5, <1>6, QueueFacts DEF Sound
  <2>2. o \in 0..MaxQueues /\ drains[o] \in DrainRecord
    BY <1>1, <1>2, QueueFacts DEF Sound, Registries
  <2>3. /\ Sound(Registry) /\ o \in Queues
        /\ Registry.queues = queues /\ Registry.drains = drains
    BY <1>1, <1>2 DEF Registry
  <2>4. x \in QueueRecord
    BY <1>5
  <2> DEFINE e == drains[o]
             z == Put(Registry, o, x, e, o)
  <2> HIDE DEF e
  <2>5. /\ Sound(z) /\ z.registered = o /\ z.queues[o] = x /\ z.drains[o] = e
        /\ \A p \in Queues \ {o} : /\ z.queues[p] = Registry.queues[p]
                                   /\ z.drains[p] = Registry.drains[p]
    <3>1. e \in DrainRecord /\ (x.draining <=> e.pc # "idle") /\ o \in 0..MaxQueues
      BY <2>1, <2>2 DEF e
    <3>2. QED
      BY <2>3, <2>4, <3>1, PutFacts
  <2>6. reg = z
    BY <1>7 DEF y, e
  <2> HIDE DEF z
  <2>7. QED
    BY <2>3, <2>5, <2>6 DEF e
<1>9. \A p \in Queues : /\ reg.queues[p].draining <=> queues[p].draining
                        /\ reg.drains[p] = drains[p]
  BY <1>5, <1>6, <1>8
<1>10. DrainsRegistered(Registry) => DrainsRegistered(reg)
  BY <1>1, <1>2, <1>8, <1>9, QueueFacts DEF DrainsRegistered
<1>11. \A f : WaitsInRegistered(Registry, f) => WaitsInRegistered(reg, f)
  <2>1. CASE registered = 0
    <3>1. \A f : WaitsInRegistered(Registry, f) => NothingWaits(f)
      BY <1>1, <2>1, WaitsFacts
    <3>2. QED
      BY <3>1 DEF WaitsInRegistered, NothingWaits
  <2>2. CASE registered # 0
    <3>1. q = queues[o] /\ o = registered
      BY <1>2, <2>2 DEF q
    <3>2. QED
      BY <1>1, <1>5, <1>8, <2>2, <3>1 DEF WaitsInRegistered
  <2>3. QED
    BY <2>1, <2>2
<1>12. IF registered = 0
       THEN ~Pending(reg.queues[o]) /\ drains[o].pc = "idle"
       ELSE /\ o = registered
            /\ reg.queues[o].items = queues[o].items
            /\ reg.queues[o].dropped = queues[o].dropped
  BY <1>1, <1>2, <1>5, <1>8, RecordFacts DEF Pending, q
<1>13. QED
  BY <1>2, <1>8, <1>9, <1>10, <1>11, <1>12 DEF reg

\* After the enqueue: a run that is active will schedule the drain when it ends, or is one
\* of the drain itself.
LEMMA FinalizeKeeps ==
  ASSUME QueueInv, NEW active \in BOOLEAN, IsRunActive(active),
         NEW reg, Sound(reg), FinalizeUnlessActive(reg, active), RestTyped',
         UNCHANGED <<turn, othersRan, clearedMidDrain>>,
         \A p \in Queues : queues[p].draining => reg.queues[p].draining,
         ~clearedMidDrain => DrainsRegistered(reg) /\ WaitsInRegistered(reg, fate')
  PROVE  QueueInv'
<1>1. turn = "other" => othersRan
  BY InvFacts
<1>2. CASE active
  <2>1. Becomes(reg)
    BY <1>2 DEF FinalizeUnlessActive
  <2>2. ASSUME ~clearedMidDrain, turn = "none" PROVE Tended(reg)
    <3>1. PICK p \in Queues : drains[p].pc = "running"
      BY <1>2, <2>2 DEF IsRunActive
    <3>2. reg.queues[p].draining
      BY <3>1, InvFacts
    <3>3. p = reg.registered
      BY <2>2, <3>2 DEF DrainsRegistered
    <3>4. QED
      BY <3>2, <3>3 DEF Tended
  <2>3. QED
    BY <1>1, <2>1, <2>2, StepKeeps
<1>3. CASE ~active
  <2> DEFINE r == ScheduleFollowupDrain(reg)
  <2>1. Becomes(r)
    BY <1>3 DEF FinalizeUnlessActive
  <2>2. /\ Sound(r) /\ Tended(r)
        /\ DrainsRegistered(reg) => DrainsRegistered(r)
        /\ \A f : WaitsInRegistered(reg, f) => WaitsInRegistered(r, f)
    BY ScheduleFacts
  <2> HIDE DEF r
  <2>3. QED
    BY <1>1, <2>1, <2>2, StepKeeps
<1>4. QED
  BY <1>2, <1>3

LEMMA EnqueueDuplicateKeeps ==
  ASSUME QueueInv, NEW s \in Settings, NEW active \in BOOLEAN, EnqueueDuplicate(s, active)
  PROVE  QueueInv'
<1> DEFINE reg == GetFollowupQueue(s)
<1>1. /\ Sound(reg) /\ \A p \in Queues : reg.queues[p].draining <=> queues[p].draining
      /\ DrainsRegistered(Registry) => DrainsRegistered(reg)
      /\ \A f : WaitsInRegistered(Registry, f) => WaitsInRegistered(reg, f)
  BY GetQueueFacts DEF EnqueueDuplicate
<1>2. /\ IsRunActive(active) /\ FinalizeUnlessActive(reg, active)
      /\ UNCHANGED <<arrivals, route, fate, turn, failures, othersRan, clearedMidDrain>>
  BY DEF EnqueueDuplicate
<1> HIDE DEF reg
<1>3. RestTyped' /\ fate' = fate
  BY <1>2, InvFacts DEF RestTyped
<1>4. ~clearedMidDrain => DrainsRegistered(reg) /\ WaitsInRegistered(reg, fate')
  BY <1>1, <1>3, InvFacts
<1>5. QED
  BY <1>1, <1>2, <1>3, <1>4, FinalizeKeeps

\* A push drops messages from the head only, and keeps those of a summary.
LEMMA PushFacts ==
  ASSUME NEW q \in QueueRecord, NEW m \in Messages
  PROVE  LET x == Push(q, m)
             n == DropCount(q)
             dropped == Elems(SubSeq(q.items, 1, n))
         IN  /\ x \in QueueRecord /\ x.draining = q.draining
             /\ m \in Elems(x.items)
             /\ Elems(q.items) \subseteq dropped \cup Elems(x.items)
             /\ Elems(q.dropped) \subseteq Elems(x.dropped)
             /\ q.dropPolicy = "summarize" => dropped \subseteq Elems(x.dropped)
             /\ n \in 0..Len(q.items) /\ Len(x.items) = Len(q.items) - n + 1
             /\ \A i \in 1..(Len(q.items) - n) : x.items[i] = q.items[n + i]
             /\ x.items[Len(x.items)] = m
             /\ dropped = {} => n = 0 /\ Elems(x.dropped) = Elems(q.dropped)
<1> DEFINE n == DropCount(q)
           first == SubSeq(q.items, 1, n)
           rest == SubSeq(q.items, n + 1, Len(q.items))
           items == Append(rest, m)
           dropped == IF q.dropPolicy = "summarize" THEN q.dropped \o first ELSE q.dropped
           x == Push(q, m)
<1>1. q.items \in Seq(Messages) /\ q.dropped \in Seq(Messages) /\ q.cap \in Nat \ {0}
  BY DEF QueueRecord
<1>2. n \in 0..Len(q.items) /\ n \in Nat
  <2>1. Len(q.items) \in Nat
    BY <1>1
  <2>2. QED
    BY <1>1, <2>1 DEF DropCount
<1> HIDE DEF n
<1>3. /\ first \in Seq(Messages) /\ rest \in Seq(Messages)
      /\ Elems(q.items) = Elems(first) \cup Elems(rest)
      /\ Len(rest) = Len(q.items) - n /\ Len(first) = n
      /\ \A i \in 1..(Len(q.items) - n) : rest[i] = q.items[n + i]
  <2>1. /\ first \in Seq(Messages) /\ Len(first) = n
        /\ Elems(q.items) = Elems(first) \cup Elems(rest)
    BY <1>1, <1>2, FirstFacts
  <2>2. /\ rest \in Seq(Messages)
        /\ Len(rest) = IF n < Len(q.items) THEN Len(q.items) - n ELSE 0
        /\ \A i \in 1..(Len(q.items) - n) : rest[i] = q.items[n + i]
    BY <1>1, <1>2, RestFacts
  <2> HIDE DEF first, rest
  <2>3. QED
    BY <1>1, <1>2, <2>1, <2>2
<1> HIDE DEF first, rest
<1>4. /\ items \in Seq(Messages) /\ Elems(items) = Elems(rest) \cup {m}
      /\ Len(items) = Len(rest) + 1 /\ items[Len(rest) + 1] = m
      /\ \A i \in 1..Len(rest) : items[i] = rest[i]
  BY <1>3, AppendFacts, AppendProperties
<1>5. /\ q.dropped \o first \in Seq(Messages)
      /\ Elems(q.dropped \o first) = Elems(q.dropped) \cup Elems(first)
  BY <1>1, <1>3, ConcatFacts
<1>6. /\ dropped \in Seq(Messages) /\ Elems(q.dropped) \subseteq Elems(dropped)
      /\ q.dropPolicy = "summarize" => Elems(first) \subseteq Elems(dropped)
  BY <1>1, <1>5
<1>7. Elems(first) = {} => n = 0 /\ Elems(dropped) = Elems(q.dropped)
  <2>1. Elems(first) = {} => n = 0
    <3> SUFFICES ASSUME n # 0 PROVE first[1] \in Elems(first)
      OBVIOUS
    <3>1. 1 \in DOMAIN first
      BY <1>2, <1>3
    <3>2. QED
      BY <3>1 DEF Elems
  <2>2. QED
    BY <1>5, <2>1
<1>8. x = [q EXCEPT !.items = items, !.dropped = dropped, !.lastRun = TRUE]
  BY DEF Push, n, first, rest
<1> HIDE DEF items, dropped, x
<1>9. x \in QueueRecord /\ x.draining = q.draining /\ x.items = items /\ x.dropped = dropped
  BY <1>4, <1>6, <1>8 DEF QueueRecord
<1>10. /\ Len(x.items) = Len(q.items) - n + 1 /\ x.items[Len(x.items)] = m
       /\ \A i \in 1..(Len(q.items) - n) : x.items[i] = q.items[n + i]
  BY <1>3, <1>4, <1>9
<1>11. QED
  BY <1>2, <1>3, <1>4, <1>6, <1>7, <1>9, <1>10 DEF x, first, n

LEMMA EnqueueFollowupRunKeeps ==
  ASSUME QueueInv, NEW s \in Settings, NEW active \in BOOLEAN, EnqueueFollowupRun(s, active)
  PROVE  QueueInv'
<1> DEFINE reg == GetFollowupQueue(s)
           o == reg.registered
           q == reg.queues[o]
           m == arrivals + 1
           refuse == q.dropPolicy = "new" /\ DropCount(q) > 0
           dropped == Elems(SubSeq(q.items, 1, DropCount(q)))
<1>1. /\ Sound(reg) /\ o \in Queues
      /\ \A p \in Queues : reg.queues[p].draining <=> queues[p].draining
      /\ DrainsRegistered(Registry) => DrainsRegistered(reg)
      /\ \A f : WaitsInRegistered(Registry, f) => WaitsInRegistered(reg, f)
  BY GetQueueFacts DEF EnqueueFollowupRun
<1>2. /\ IsRunActive(active) /\ arrivals' = m /\ arrivals < MaxMessages
      /\ UNCHANGED <<route, turn, failures, othersRan, clearedMidDrain>>
  BY DEF EnqueueFollowupRun
<1>3. /\ m \in Messages /\ m \in 0..MaxMessages /\ RestTyped
  BY <1>2, InvFacts, BoundsAssumption DEF RestTyped, Messages
<1>4. /\ q \in QueueRecord /\ reg.drains[o] \in DrainRecord /\ reg \in Registries
      /\ q.draining <=> reg.drains[o].pc # "idle"
      /\ o \in 0..MaxQueues /\ o # 0
  BY <1>1, QueueFacts DEF Sound, Registries
<1>5. ~clearedMidDrain =>
        DrainsRegistered(reg) /\ WaitsInRegistered(reg, fate)
  BY <1>1, InvFacts
<1>6. CASE refuse
  <2> DEFINE x == [q EXCEPT !.lastRun = TRUE]
             y == Put(reg, o, x, reg.drains[o], o)
             e == [reg EXCEPT !.queues[o].lastRun = TRUE]
  <2>1. FinalizeUnlessActive(e, active) /\ fate' = [fate EXCEPT ![m] = "dismissed"]
    BY <1>6 DEF EnqueueFollowupRun
  <2>2. x \in QueueRecord /\ x.items = q.items /\ x.dropped = q.dropped /\ x.draining = q.draining
    BY <1>4 DEF QueueRecord
  <2> HIDE DEF reg, q
  <2>3. e = y
    <3>1. e = [reg EXCEPT !.queues[o] = x]
      BY DEF q
    <3> HIDE DEF e, x
    <3>2. QED
      BY <1>1, <1>4, <2>2, <3>1, PutQueue
  <2> HIDE DEF e, y, x
  <2>4. /\ Sound(y) /\ y.registered = o /\ y.queues[o] = x
        /\ \A p \in Queues \ {o} : y.queues[p] = reg.queues[p]
    BY <1>1, <1>4, <2>2, PutFacts DEF y
  <2>5. \A p \in Queues : y.queues[p].draining <=> reg.queues[p].draining
    BY <1>1, <2>2, <2>4 DEF q
  <2>6. DrainsRegistered(reg) => DrainsRegistered(y)
    BY <2>4, <2>5 DEF DrainsRegistered
  <2>7. WaitsInRegistered(reg, fate) => WaitsInRegistered(y, fate')
    <3>1. \A k \in Messages : fate'[k] = fate[k] \/ fate'[k] = "dismissed"
      BY <1>3, <2>1 DEF RestTyped
    <3>2. QED
      BY <2>2, <2>4, <3>1 DEF WaitsInRegistered, q
  <2>8. RestTyped'
    BY <1>2, <1>3, <2>1 DEF RestTyped, Fates
  <2>9. QED
    BY <1>1, <1>2, <1>5, <2>1, <2>3, <2>4, <2>5, <2>6, <2>7, <2>8, FinalizeKeeps
<1>7. CASE ~refuse
  <2> DEFINE x == Push(q, m)
             over == reg.drains[o].overflowed \/ (dropped # {} /\ queues[o].draining)
             d == [reg.drains[o] EXCEPT !.overflowed = over]
             y == Put(reg, o, x, d, o)
             e == [reg EXCEPT !.queues[o] = x,
                              !.drains[o].overflowed = @ \/ (dropped # {} /\ queues[o].draining)]
             new(k) == IF k = m THEN "queued"
                       ELSE IF k \in dropped /\ fate[k] = "queued"
                       THEN IF q.dropPolicy = "summarize" THEN "dropped" ELSE "dismissed"
                       ELSE fate[k]
  <2>1. FinalizeUnlessActive(e, active) /\ fate' = [k \in Messages |-> new(k)]
    BY <1>7 DEF EnqueueFollowupRun
  <2>2. /\ x \in QueueRecord /\ x.draining = q.draining
        /\ m \in Elems(x.items)
        /\ Elems(q.items) \subseteq dropped \cup Elems(x.items)
        /\ Elems(q.dropped) \subseteq Elems(x.dropped)
        /\ q.dropPolicy = "summarize" => dropped \subseteq Elems(x.dropped)
    BY <1>3, <1>4, PushFacts
  <2>3. over \in BOOLEAN
    OBVIOUS
  <2> HIDE DEF reg, q, m, dropped, x
  <2>4. e = WithQueue(reg, o, x, over)
    BY DEF WithQueue
  <2> HIDE DEF over
  <2>5. d \in DrainRecord /\ d.pc = reg.drains[o].pc
    BY <1>4, <2>3 DEF DrainRecord
  <2>6. e = y
    <3> HIDE DEF e
    <3>1. QED
      BY <1>1, <1>4, <2>2, <2>3, <2>4, PutOverflow
  <2> HIDE DEF e, y, d
  <2>7. /\ Sound(y) /\ y.registered = o /\ y.queues[o] = x
        /\ \A p \in Queues \ {o} : y.queues[p] = reg.queues[p]
    BY <1>1, <1>4, <2>2, <2>5, PutFacts DEF y
  <2>8. \A p \in Queues : y.queues[p].draining <=> reg.queues[p].draining
    BY <1>1, <2>2, <2>7 DEF q
  <2>9. DrainsRegistered(reg) => DrainsRegistered(y)
    BY <2>7, <2>8 DEF DrainsRegistered
  <2>10. WaitsInRegistered(reg, fate) => WaitsInRegistered(y, fate')
    <3> SUFFICES ASSUME WaitsInRegistered(reg, fate), NEW k \in Messages
                 PROVE  /\ fate'[k] = "queued" => k \in Elems(x.items)
                        /\ fate'[k] = "dropped" => k \in Elems(x.dropped)
      BY <1>4, <2>7 DEF WaitsInRegistered
    <3>1. /\ fate[k] = "queued" => k \in Elems(q.items)
          /\ fate[k] = "dropped" => k \in Elems(q.dropped)
      BY DEF WaitsInRegistered, q
    <3>2. fate'[k] = new(k)
      BY <2>1
    <3>3. QED
      BY <2>2, <3>1, <3>2
  <2>11. RestTyped'
    <3>1. \A k \in Messages : new(k) \in Fates
      BY <1>3 DEF RestTyped, Fates
    <3>2. fate' \in [Messages -> Fates]
      BY <2>1, <3>1
    <3>3. QED
      BY <1>2, <1>3, <3>2 DEF RestTyped
  <2>12. QED
    BY <1>1, <1>2, <1>5, <2>1, <2>6, <2>7, <2>8, <2>9, <2>10, <2>11, FinalizeKeeps
<1>8. QED
  BY <1>6, <1>7

LEMMA ClearFollowupQueueKeeps ==
  ASSUME QueueInv, ClearFollowupQueue
  PROVE  QueueInv'
<1> DEFINE o == registered
           q == queues[o]
           gone == Elems(q.items) \cup Elems(q.dropped)
           x == IF q.draining
                THEN [q EXCEPT !.items = <<>>, !.dropped = <<>>, !.lastRun = FALSE]
                ELSE NoQueue
           y == Put(Registry, o, x, drains[o], 0)
           new(m) == IF m \in gone /\ fate[m] \in {"queued", "dropped"} THEN "dismissed" ELSE fate[m]
<1>1. /\ o \in Queues /\ registered' = 0 /\ queues' = [queues EXCEPT ![o] = x]
      /\ fate' = [m \in Messages |-> new(m)]
      /\ clearedMidDrain' = (clearedMidDrain \/ q.draining)
      /\ UNCHANGED <<drains, arrivals, route, turn, failures, othersRan>>
  BY InvFacts, QueueFacts DEF ClearFollowupQueue
<1>2. /\ Sound(Registry) /\ Registry.queues = queues /\ Registry.drains = drains
      /\ Registry.registered = registered /\ RestTyped
      /\ q \in QueueRecord /\ drains[o] \in DrainRecord /\ (q.draining <=> drains[o].pc # "idle")
  BY <1>1, InvFacts
<1>3. x \in QueueRecord /\ (x.draining <=> q.draining)
  BY <1>2, RecordFacts, ElemsFacts DEF QueueRecord
<1> HIDE DEF x, y
<1>4. /\ Sound(y) /\ y.registered = 0 /\ y.queues[o] = x
      /\ \A p \in Queues \ {o} : y.queues[p] = queues[p]
  BY <1>1, <1>2, <1>3, QueueFacts, PutFacts DEF y
<1>5. Becomes(y)
  <2>1. drains = [drains EXCEPT ![o] = drains[o]]
    BY <1>2 DEF Sound, Registries
  <2>2. QED
    BY <1>1, <1>2, <2>1 DEF Becomes, Put, y
<1>6. RestTyped'
  <2>1. \A m \in Messages : new(m) \in Fates
    BY <1>2 DEF RestTyped, Fates
  <2>2. fate' \in [Messages -> Fates]
    BY <1>1, <2>1
  <2>3. clearedMidDrain' \in BOOLEAN
    BY <1>1
  <2>4. QED
    BY <1>1, <1>2, <2>2, <2>3 DEF RestTyped
<1>7. ASSUME ~clearedMidDrain' PROVE DrainsRegistered(y) /\ WaitsInRegistered(y, fate')
  <2>1. ~clearedMidDrain /\ ~q.draining
    BY <1>1, <1>7
  <2>2. DrainsRegistered(Registry) /\ WaitsInRegistered(Registry, fate)
    BY <2>1, InvFacts
  <2>3. DrainsRegistered(y)
    BY <1>2, <1>3, <1>4, <2>1, <2>2 DEF DrainsRegistered
  <2>4. \A m \in Messages : fate[m] \in {"queued", "dropped"} => m \in gone
    BY <1>2, <2>2 DEF WaitsInRegistered
  <2>5. WaitsInRegistered(y, fate')
    BY <1>1, <2>4 DEF WaitsInRegistered
  <2>6. QED
    BY <2>3, <2>5
<1>8. Tended(y) /\ (turn' = "other" => othersRan')
  BY <1>1, <1>4, InvFacts DEF Tended
<1>9. QED
  BY <1>4, <1>5, <1>6, <1>7, <1>8, StepKeeps

-----------------------------------------------------------------------------
(* The runs beside the drain.                                              *)

LEMMA FinalizeWithFollowupKeeps ==
  ASSUME QueueInv, FinalizeWithFollowup
  PROVE  QueueInv'
<1> DEFINE r == ScheduleFollowupDrain(Registry)
<1>1. /\ Sound(r) /\ Tended(r)
      /\ DrainsRegistered(Registry) => DrainsRegistered(r)
      /\ \A f : WaitsInRegistered(Registry, f) => WaitsInRegistered(r, f)
  BY InvFacts, ScheduleFacts
<1>2. /\ Becomes(r) /\ turn' = "none"
      /\ UNCHANGED <<arrivals, route, fate, failures, othersRan, clearedMidDrain>>
  BY DEF FinalizeWithFollowup
<1> HIDE DEF r
<1>3. RestTyped' /\ fate' = fate
  BY <1>2, InvFacts DEF RestTyped, Turns
<1>4. ~clearedMidDrain' => DrainsRegistered(r) /\ WaitsInRegistered(r, fate') /\ Tended(r)
  BY <1>1, <1>2, <1>3, InvFacts
<1>5. QED
  BY <1>1, <1>2, <1>3, <1>4, StepKeeps

\* A step that leaves the registry and the messages alone.
LEMMA TurnKeeps ==
  ASSUME QueueInv, turn' \in Turns, othersRan' \in BOOLEAN,
         turn' = "other" => othersRan',
         othersRan' \/ turn' # "none" \/ (turn = "none" /\ ~othersRan),
         UNCHANGED <<queues, drains, registered, arrivals, route, fate, failures, clearedMidDrain>>
  PROVE  QueueInv'
<1>1. Becomes(Registry) /\ Sound(Registry) /\ RestTyped' /\ fate' = fate
  BY InvFacts DEF Becomes, RestTyped
<1>2. ~clearedMidDrain' =>
        /\ DrainsRegistered(Registry) /\ WaitsInRegistered(Registry, fate')
        /\ othersRan' \/ turn' # "none" \/ Tended(Registry)
  BY <1>1 DEF QueueInv
<1>3. QED
  BY <1>1, <1>2, StepKeeps

-----------------------------------------------------------------------------
(* The theorems.                                                           *)

LEMMA InitQueueInv == FollowupInit => QueueInv
<1> SUFFICES ASSUME FollowupInit PROVE QueueInv
  OBVIOUS
<1>1. Sound(Registry)
  <2>1. queues \in [Queues -> QueueRecord] /\ drains \in [Queues -> DrainRecord]
    BY RecordFacts DEF FollowupInit
  <2>2. \A o \in Queues : queues[o].draining <=> drains[o].pc # "idle"
    BY RecordFacts DEF FollowupInit
  <2>3. QED
    BY <2>1, <2>2, QueueFacts DEF FollowupInit, Sound, Registry, Registries
<1>2. RestTyped
  <2>1. arrivals \in 0..MaxMessages /\ failures \in 0..MaxFailures
    BY BoundsAssumption DEF FollowupInit
  <2>2. fate \in [Messages -> Fates] /\ route \in Routings
    BY DEF FollowupInit, Fates
  <2>3. turn \in Turns /\ othersRan \in BOOLEAN /\ clearedMidDrain \in BOOLEAN
    BY DEF FollowupInit, Turns
  <2>4. QED
    BY <2>1, <2>2, <2>3 DEF RestTyped
<1>3. FollowupTypeOK
  BY <1>1, <1>2, TypeParts
<1>4. DrainsRegistered(Registry) /\ WaitsInRegistered(Registry, fate) /\ Tended(Registry)
  BY RecordFacts DEF FollowupInit, DrainsRegistered, WaitsInRegistered, Tended, Registry
<1>5. turn = "other" => othersRan
  BY DEF FollowupInit
<1>6. QED
  BY <1>3, <1>4, <1>5 DEF QueueInv

LEMMA NextKeepsQueueInv == QueueInv /\ [FollowupNext]_followupVars => QueueInv'
<1> SUFFICES ASSUME QueueInv, [FollowupNext]_followupVars PROVE QueueInv'
  OBVIOUS
<1>1. ASSUME NEW o \in Queues, Decide(o) \/ Collect(o) \/ FinishRun(o) \/ FailRun(o)
      PROVE  QueueInv'
  BY <1>1, DecideKeeps, CollectKeeps, FinishRunKeeps, FailRunKeeps
<1>2. ASSUME NEW s \in Settings, NEW active \in BOOLEAN,
             EnqueueFollowupRun(s, active) \/ EnqueueDuplicate(s, active)
      PROVE  QueueInv'
  BY <1>2, EnqueueFollowupRunKeeps, EnqueueDuplicateKeeps
<1>3. CASE ClearFollowupQueue \/ FinalizeWithFollowup
  BY <1>3, ClearFollowupQueueKeeps, FinalizeWithFollowupKeeps
<1>4. CASE BeginTurn \/ EndRunOfTurn \/ BeginOtherRun \/ EndOtherRun
  <2>1. (turn = "other" => othersRan) /\ othersRan \in BOOLEAN
    BY InvFacts DEF RestTyped
  <2>2. CASE BeginTurn
    BY <2>1, <2>2, TurnKeeps DEF BeginTurn, Turns
  <2>3. CASE EndRunOfTurn
    BY <2>1, <2>3, TurnKeeps DEF EndRunOfTurn, Turns
  <2>4. CASE BeginOtherRun
    BY <2>1, <2>4, TurnKeeps DEF BeginOtherRun, Turns
  <2>5. CASE EndOtherRun
    BY <2>1, <2>5, TurnKeeps DEF EndOtherRun, Turns
  <2>6. QED
    BY <1>4, <2>2, <2>3, <2>4, <2>5
<1>5. CASE UNCHANGED followupVars
  BY <1>5, InvFacts, TurnKeeps DEF followupVars, RestTyped
<1>6. QED
  BY <1>1, <1>2, <1>3, <1>4, <1>5 DEF FollowupNext

LEMMA QueueInductive == FollowupSpec => []QueueInv
<1>1. QED
  BY InitQueueInv, NextKeepsQueueInv, PTL DEF FollowupSpec

\* Every state has its type; in particular the flag draining of a queue is up exactly while
\* a drain of it is under way, through retries and restarts (drain.ts).
THEOREM FollowupTypes == FollowupSpec => []FollowupTypeOK
<1>1. QueueInv => FollowupTypeOK
  BY DEF QueueInv
<1>2. QED
  BY <1>1, QueueInductive, PTL

\* The follow-up runs of a session never overlap, unless a queue was cleared during its
\* drain: a drain begins only through the registered queue, and only if its flag is down
\* (drain.ts, state.ts).
THEOREM OneDrain == FollowupSpec => []OneDrainPerSession
<1>1. QueueInv => OneDrainPerSession
  <2> SUFFICES ASSUME QueueInv, ~clearedMidDrain, NEW o \in Queues, NEW p \in Queues,
                      drains[o].pc # "idle", drains[p].pc # "idle"
               PROVE  o = p
    BY DEF OneDrainPerSession
  <2>1. DrainsRegistered(Registry) /\ queues[o].draining /\ queues[p].draining
    BY InvFacts
  <2>2. o = registered /\ p = registered
    BY <2>1, InvFacts DEF DrainsRegistered
  <2>3. QED
    BY <2>2
<1>2. QED
  BY <1>1, QueueInductive, PTL

\* A message that waits is in a queue that can still be drained: neither the end of a drain
\* nor a failed run loses it (drain.ts, enqueue.ts).
THEOREM WaitingReachable == FollowupSpec => []WaitingIsReachable
<1>1. QueueInv => WaitingIsReachable
  <2> SUFFICES ASSUME QueueInv, ~clearedMidDrain, NEW m \in Messages,
                      fate[m] \in {"queued", "dropped"}
               PROVE  /\ registered \in Queues
                      /\ m \in Elems(queues[registered].items)
                                 \cup Elems(queues[registered].dropped)
    BY DEF WaitingIsReachable
  <2>1. WaitsInRegistered(Registry, fate) /\ Registry.queues = queues
        /\ Registry.registered = registered /\ registered \in 0..MaxQueues
    BY InvFacts
  <2>2. QED
    BY <2>1, QueueFacts DEF WaitsInRegistered
<1>2. QED
  BY <1>1, QueueInductive, PTL

\* As long as only turns make messages wait, a queue that holds messages while no turn is
\* under way is being drained: the enqueue looks at the active run once more, and the end
\* of a drain looks at the queue (agent-runner.ts, drain.ts).
THEOREM IdleQueueTended == FollowupSpec => []IdleQueueIsTended
<1>1. QueueInv => IdleQueueIsTended
  BY InvFacts DEF QueueInv, Tended, IdleQueueIsTended
<1>2. QED
  BY <1>1, QueueInductive, PTL


-----------------------------------------------------------------------------
(* The order of prompts, and what leaves a queue.                          *)

\* The run tells a summary on its own, in place of the head item.
TellsSummary(d) == d.told # <<>> /\ d.batch = <<>>

\* The prompt of a run is the head of the queue and the dropped messages that it tells, as
\* long as nothing overflowed.
PromptSound(reg, o) ==
  LET q == reg.queues[o]
      d == reg.drains[o]
  IN  /\ d.pc # "running" => Unused(d)
      /\ d.pc = "running" /\ ~d.overflowed /\ ~TellsSummary(d) =>
           /\ \A i \in 1..Len(q.items) : i <= d.take => q.items[i] \in Elems(d.batch)
           /\ d.told # <<>> => Elems(q.dropped) \subseteq Elems(d.told)
           /\ o = reg.registered => d.take <= Len(q.items)

\* The items are in the order of arrival, all of them younger than what was delivered.
ItemsInOrder(s, f, n) ==
  /\ \A i, j \in 1..Len(s) : i < j => s[i] < s[j]
  /\ \A i \in 1..Len(s) : s[i] <= n
  /\ \A i \in 1..Len(s), m \in Messages : f[m] = "delivered" => m < s[i]

\* What stays in the queue after a run is younger than what the run was given.
StaysYounger(s, d, n) ==
  \A b \in Elems(d.batch) : b <= n /\ \A i \in 1..Len(s) : i > d.take => b < s[i]

\* In the registry, but for a run of the object o.
OrderSound(reg, o, f, n) ==
  /\ \A m \in Messages : f[m] = "delivered" => m <= n
  /\ \A p \in Queues : p = reg.registered =>
       /\ ItemsInOrder(reg.queues[p].items, f, n)
       /\ p # o /\ reg.drains[p].pc = "running" =>
            StaysYounger(reg.queues[p].items, reg.drains[p], n)

PromptInv ==
  /\ \A o \in Queues : PromptSound(Registry, o)
  /\ ~clearedMidDrain => OrderSound(Registry, 0, fate, arrivals)

\* What the two action properties say of a step.
PromptInOrder ==
  \A o \in Queues :
    (drains[o].pc # "running" /\ drains'[o].pc = "running") =>
      \A m \in Elems(drains'[o].batch), d \in Messages :
        fate[d] = "delivered" => d < m \/ clearedMidDrain

SkipExplained ==
  \A m \in Messages : fate[m] # "skipped" /\ fate'[m] = "skipped" =>
    \E o \in Queues :
      /\ drains[o].pc = "running"
      /\ drains[o].overflowed \/ (drains[o].told # <<>> /\ drains[o].batch = <<>>)

StepSound == PromptInv' /\ PromptInOrder /\ SkipExplained

\* Where no message joins a queue, and no prompt is begun, both stay as they are.
LEMMA KeptPrompts ==
  ASSUME NEW reg, NEW r, NEW o, QueuesKept(reg, r, o), NEW f, NEW n,
         \A p \in Queues \ {o} : PromptSound(reg, p)
  PROVE  /\ \A p \in Queues : PromptSound(r, p)
         /\ OrderSound(reg, o, f, n) => OrderSound(r, 0, f, n)
<1>1. Elems(<<>>) = {} /\ Len(<<>>) = 0
  BY ElemsFacts
<1>2. ASSUME NEW p \in Queues PROVE PromptSound(r, p)
  <2>1. CASE Unused(r.drains[p])
    BY <2>1 DEF PromptSound, Unused
  <2>2. CASE p # o /\ r.drains[p] = reg.drains[p]
    <3>1. PromptSound(reg, p)
      BY <2>2
    <3>2. CASE /\ r.queues[p].items = reg.queues[p].items
               /\ r.queues[p].dropped = reg.queues[p].dropped
      BY <2>2, <3>1, <3>2, QueueFacts DEF PromptSound, QueuesKept
    <3>3. CASE ~Pending(r.queues[p]) /\ r.registered = 0
      <4>1. r.queues[p].items = <<>> /\ r.queues[p].dropped = <<>> /\ p # r.registered
        BY <3>3, QueueFacts DEF Pending
      <4>2. QED
        BY <1>1, <2>2, <3>1, <4>1 DEF PromptSound
    <3>4. QED
      BY <3>2, <3>3 DEF QueuesKept
  <2>3. QED
    BY <2>1, <2>2 DEF QueuesKept
<1>3. ASSUME OrderSound(reg, o, f, n) PROVE OrderSound(r, 0, f, n)
  <2>1. ASSUME NEW p \in Queues, p = r.registered
        PROVE  /\ ItemsInOrder(r.queues[p].items, f, n)
               /\ r.drains[p].pc = "running" => StaysYounger(r.queues[p].items, r.drains[p], n)
    <3>1. p = reg.registered /\ r.queues[p].items = reg.queues[p].items
      BY <2>1, QueueFacts DEF QueuesKept
    <3>2. r.drains[p].pc = "running" => p # o /\ r.drains[p] = reg.drains[p]
      BY DEF QueuesKept, Unused
    <3>3. QED
      BY <1>3, <3>1, <3>2 DEF OrderSound
  <2>2. QED
    BY <1>3, <2>1 DEF OrderSound
<1>4. QED
  BY <1>2, <1>3

\* A step that begins no prompt, by a registry on its way: base is the registry with what
\* joined or left the queues.
LEMMA StepSoundFrom ==
  ASSUME NEW base, NEW r, Sound(r), NEW o, QueuesKept(base, r, o), Becomes(r),
         \A p \in Queues \ {o} : /\ PromptSound(base, p)
                                 /\ base.drains[p].pc = "running" => drains[p].pc = "running",
         ~clearedMidDrain' => OrderSound(base, o, fate', arrivals'),
         SkipExplained
  PROVE  StepSound
<1>1. Registry' = r /\ drains' = r.drains
  BY BecomesFacts DEF Becomes
<1>2. PromptInv'
  <2>1. \A p \in Queues : PromptSound(r, p)
    BY KeptPrompts
  <2>2. ~clearedMidDrain' => OrderSound(r, 0, fate', arrivals')
    BY KeptPrompts
  <2>3. QED
    BY <1>1, <2>1, <2>2 DEF PromptInv
<1>3. PromptInOrder
  BY <1>1 DEF PromptInOrder, QueuesKept, Unused
<1>4. QED
  BY <1>2, <1>3 DEF StepSound

\* A step that settles no message, either.
LEMMA QuietStep ==
  ASSUME PromptInv, NEW r, Sound(r), NEW o, QueuesKept(Registry, r, o), Becomes(r),
         UNCHANGED <<fate, arrivals, clearedMidDrain>>
  PROVE  StepSound
<1>1. Registry.drains = drains
  BY DEF Registry
<1>2. ~clearedMidDrain' => OrderSound(Registry, o, fate', arrivals')
  BY QueueFacts DEF PromptInv, OrderSound
<1>3. SkipExplained
  BY DEF SkipExplained
<1>4. QED
  BY <1>1, <1>2, <1>3, StepSoundFrom DEF PromptInv


\* A run that is begun with the head of the queue, or with what was dropped.
LEMMA RunStep ==
  ASSUME QueueInv, PromptInv, NEW o \in Queues, drains[o].pc \notin {"idle", "running"},
         NEW d \in DrainRecord, Run(o, d),
         \/ TellsSummary(d)
         \/ /\ d.take <= Len(queues[o].items)
            /\ \A i \in 1..Len(queues[o].items) :
                 i <= d.take => queues[o].items[i] \in Elems(d.batch)
            /\ d.told # <<>> => d.told = queues[o].dropped,
         \A m \in Elems(d.batch) : \E i \in 1..Len(queues[o].items) :
           i <= d.take /\ m = queues[o].items[i],
         UNCHANGED <<arrivals, route, fate, turn, failures, othersRan, clearedMidDrain>>
  PROVE  StepSound
<1> DEFINE e == [d EXCEPT !.pc = "running", !.overflowed = FALSE]
           r == [Registry EXCEPT !.drains[o] = e]
           s == queues[o].items
<1>1. /\ e \in DrainRecord /\ e.pc = "running" /\ ~e.overflowed
      /\ e.batch = d.batch /\ e.told = d.told /\ e.take = d.take
  BY DEF DrainRecord
<1>2. /\ Sound(Registry) /\ Registry \in Registries /\ queues[o].draining
      /\ Registry.queues = queues /\ Registry.drains = drains
      /\ Registry.registered = registered
      /\ queues[o] \in QueueRecord
      /\ ~clearedMidDrain => DrainsRegistered(Registry)
  BY InvFacts DEF Sound
<1> HIDE DEF e
<1>3. Becomes(r) /\ Sound(r)
  BY <1>1, <1>2, GoOnFacts DEF Run, e
<1>4. /\ Registry' = r /\ r.queues = queues /\ r.registered = registered
      /\ r.drains[o] = e /\ \A p \in Queues \ {o} : r.drains[p] = drains[p]
  <2>1. r.queues = queues /\ r.registered = registered /\ r.drains = [drains EXCEPT ![o] = e]
    BY <1>2 DEF Registries
  <2>2. QED
    BY <1>2, <1>3, <2>1, BecomesFacts DEF Registries
<1>5. drains' = r.drains
  BY <1>3 DEF Becomes
<1> HIDE DEF r
<1>6. ASSUME NEW p \in Queues PROVE PromptSound(r, p)
  <2>1. PromptSound(Registry, p)
    BY DEF PromptInv
  <2>2. CASE p # o
    BY <1>2, <1>4, <2>1, <2>2 DEF PromptSound
  <2>3. CASE p = o
    BY <1>1, <1>4, <2>3 DEF PromptSound, TellsSummary
  <2>4. QED
    BY <2>2, <2>3
<1>7. ASSUME ~clearedMidDrain
      PROVE  /\ OrderSound(r, 0, fate, arrivals)
             /\ \A m \in Elems(d.batch), k \in Messages : fate[k] = "delivered" => k < m
  <2>1. o = registered /\ OrderSound(Registry, 0, fate, arrivals)
    BY <1>2, <1>7 DEF PromptInv, DrainsRegistered
  <2>2. ItemsInOrder(s, fate, arrivals)
    BY <1>2, <2>1 DEF OrderSound
  <2>3. StaysYounger(s, e, arrivals)
    <3> SUFFICES ASSUME NEW m \in Elems(d.batch)
                 PROVE  m <= arrivals /\ \A i \in 1..Len(s) : i > d.take => m < s[i]
      BY <1>1 DEF StaysYounger
    <3>1. PICK j \in 1..Len(s) : j <= d.take /\ m = s[j]
      OBVIOUS
    <3>2. d.take \in Nat
      BY DEF DrainRecord
    <3>3. QED
      BY <2>2, <3>1, <3>2 DEF ItemsInOrder
  <2>4. OrderSound(r, 0, fate, arrivals)
    BY <1>4, <2>1, <2>2, <2>3 DEF OrderSound
  <2>5. \A m \in Elems(d.batch), k \in Messages : fate[k] = "delivered" => k < m
    BY <2>2 DEF ItemsInOrder
  <2>6. QED
    BY <2>4, <2>5
<1>8. PromptInv'
  BY <1>4, <1>6, <1>7 DEF PromptInv
<1>9. PromptInOrder
  BY <1>1, <1>4, <1>5, <1>7 DEF PromptInOrder
<1>10. QED
  BY <1>8, <1>9 DEF StepSound, SkipExplained

LEMMA EndDrainStep ==
  ASSUME QueueInv, PromptInv, NEW o \in Queues, Becomes(EndDrain(Registry, o)),
         UNCHANGED <<fate, arrivals, clearedMidDrain>>
  PROVE  StepSound
BY InvFacts, EndDrainFacts, QuietStep

LEMMA RunNextItemStep ==
  ASSUME QueueInv, PromptInv, NEW o \in Queues, drains[o].pc = "debounce",
         NEW d \in DrainRecord, d.told = <<>>, RunNextItem(o, d),
         UNCHANGED <<arrivals, route, fate, turn, failures, othersRan, clearedMidDrain>>
  PROVE  StepSound
<1> DEFINE s == queues[o].items
           e == [d EXCEPT !.batch = <<Head(s)>>, !.take = 1]
<1>1. s \in Seq(Messages)
  BY InvFacts DEF QueueRecord
<1>2. CASE s = <<>>
  BY <1>2, EndDrainStep DEF RunNextItem
<1>3. CASE s # <<>>
  <2>1. Head(s) = s[1] /\ Head(s) \in Messages /\ 1 \in 1..Len(s) /\ 1 <= Len(s)
    BY <1>1, <1>3
  <2>2. e \in DrainRecord /\ e.batch = <<Head(s)>> /\ e.take = 1 /\ e.told = <<>>
    <3>1. <<Head(s)>> \in Seq(Messages)
      BY <2>1
    <3> HIDE DEF s
    <3>2. QED
      BY <3>1 DEF DrainRecord
  <2>3. Elems(<<Head(s)>>) = {s[1]}
    BY <2>1 DEF Elems
  <2>4. Run(o, e)
    BY <1>3 DEF RunNextItem
  <2> HIDE DEF e
  <2>5. \A i \in 1..Len(s) : i <= e.take => s[i] \in Elems(e.batch)
    BY <1>1, <2>2, <2>3
  <2>6. QED
    BY <2>1, <2>2, <2>3, <2>4, <2>5, RunStep
<1>4. QED
  BY <1>2, <1>3

LEMMA DecideStep ==
  ASSUME QueueInv, PromptInv, NEW o \in Queues, Decide(o)
  PROVE  StepSound
<1> DEFINE q == queues[o]
           cross == HasCrossChannelItems(q.items)
<1>1. /\ drains[o].pc = "debounce" /\ drains[o] \in DrainRecord /\ q \in QueueRecord
      /\ Registry.drains = drains /\ Sound(Registry) /\ Registry.queues[o].draining
      /\ UNCHANGED <<arrivals, route, fate, turn, failures, othersRan, clearedMidDrain>>
  BY InvFacts DEF Decide
<1>2. drains[o].batch = <<>> /\ drains[o].told = <<>>
  BY <1>1 DEF PromptInv, PromptSound, Unused
<1>3. CASE RunNextItem(o, [drains[o] EXCEPT !.force = @ \/ cross])
  <2>1. (drains[o].force \/ cross) \in BOOLEAN
    OBVIOUS
  <2> HIDE DEF cross
  <2> DEFINE d == [drains[o] EXCEPT !.force = @ \/ cross]
  <2>2. d \in DrainRecord /\ d.told = <<>>
    BY <1>1, <1>2, <2>1 DEF DrainRecord
  <2>3. QED
    BY <1>1, <1>3, <2>2, RunNextItemStep
<1>4. CASE Becomes([Registry EXCEPT !.drains[o].pc = "collecting"])
  <2> DEFINE d == [drains[o] EXCEPT !.pc = "collecting"]
             r == [Registry EXCEPT !.drains[o] = d]
  <2>1. d \in DrainRecord /\ d.pc = "collecting" /\ Unused(d)
    BY <1>1, <1>2 DEF DrainRecord, Unused
  <2>2. [Registry EXCEPT !.drains[o].pc = "collecting"] = r
    BY DEF Registry
  <2> HIDE DEF d
  <2>3. Sound(r)
    BY <1>1, <2>1, GoOnFacts
  <2>4. QueuesKept(Registry, r, o)
    <3>1. /\ r.queues = Registry.queues /\ r.registered = Registry.registered
          /\ r.drains = [drains EXCEPT ![o] = d]
      BY DEF Registry
    <3>2. \A p \in Queues : r.drains[p] = IF p = o THEN d ELSE Registry.drains[p]
      BY <1>1, <3>1 DEF Sound, Registries
    <3> HIDE DEF r
    <3>3. QED
      BY <2>1, <3>1, <3>2 DEF QueuesKept
  <2>5. QED
    BY <1>1, <1>4, <2>2, <2>3, <2>4, QuietStep
<1>5. CASE HasSummary(q) /\ RunSummary(o)
  <2>1. CASE q.items = <<>> \/ ~q.lastRun
    BY <1>1, <1>5, <2>1, EndDrainStep DEF RunSummary
  <2>2. CASE ~(q.items = <<>> \/ ~q.lastRun)
    <3> DEFINE d == [drains[o] EXCEPT !.told = q.dropped, !.take = 1]
    <3>1. d \in DrainRecord /\ d.told # <<>> /\ d.batch = <<>>
      BY <1>1, <1>2, <1>5 DEF DrainRecord, QueueRecord, HasSummary
    <3>2. Run(o, d)
      BY <1>5, <2>2 DEF RunSummary
    <3> HIDE DEF d
    <3>3. QED
      BY <1>1, <3>1, <3>2, RunStep, ElemsFacts DEF TellsSummary
  <2>3. QED
    BY <2>1, <2>2
<1>6. CASE RunNextItem(o, drains[o])
  BY <1>1, <1>2, <1>6, RunNextItemStep
<1>7. QED
  BY <1>3, <1>4, <1>5, <1>6 DEF Decide

LEMMA CollectStep ==
  ASSUME QueueInv, PromptInv, NEW o \in Queues, Collect(o)
  PROVE  StepSound
<1> DEFINE q == queues[o]
           d == [drains[o] EXCEPT !.batch = q.items, !.take = Len(q.items),
                                  !.told = IF HasSummary(q) THEN q.dropped ELSE <<>>]
<1>1. /\ drains[o].pc = "collecting" /\ drains[o] \in DrainRecord /\ q \in QueueRecord
      /\ UNCHANGED <<arrivals, route, fate, turn, failures, othersRan, clearedMidDrain>>
  BY InvFacts DEF Collect
<1>2. CASE q.items = <<>> /\ ~q.lastRun
  BY <1>1, <1>2, EndDrainStep DEF Collect
<1>3. CASE ~(q.items = <<>> /\ ~q.lastRun)
  <2>1. /\ q.items \in Seq(Messages) /\ q.dropped \in Seq(Messages) /\ <<>> \in Seq(Messages)
        /\ Len(q.items) \in Nat /\ DOMAIN q.items = 1..Len(q.items)
    BY <1>1, ElemsFacts DEF QueueRecord
  <2>2. /\ d \in DrainRecord /\ d.batch = q.items /\ d.take = Len(q.items)
        /\ d.told # <<>> => d.told = q.dropped
    BY <1>1, <2>1 DEF DrainRecord
  <2>3. Run(o, d)
    BY <1>3 DEF Collect
  <2> HIDE DEF d
  <2>4. /\ \A i \in 1..Len(q.items) : i <= d.take => q.items[i] \in Elems(d.batch)
        /\ \A m \in Elems(d.batch) : \E i \in 1..Len(q.items) : i <= d.take /\ m = q.items[i]
    BY <2>1, <2>2 DEF Elems
  <2>5. QED
    BY <1>1, <2>1, <2>2, <2>3, <2>4, RunStep
<1>4. QED
  BY <1>2, <1>3


\* The end of a run removes `take` items by position, which are those of its prompt unless
\* the queue overflowed.
LEMMA FinishRunStep ==
  ASSUME QueueInv, PromptInv, NEW o \in Queues, FinishRun(o)
  PROVE  StepSound
<1> DEFINE d == drains[o]
           s == queues[o].items
           q == AfterRun(o)
           gone == (Elems(s) \ Elems(q.items)) \cup (Elems(queues[o].dropped) \ Elems(q.dropped))
           y == Put(Registry, o, q, d, registered)
           r == NextRound(y, o)
<1>1. /\ d.pc = "running" /\ d \in DrainRecord /\ queues[o] \in QueueRecord /\ queues[o].draining
      /\ UNCHANGED <<arrivals, route, turn, failures, othersRan, clearedMidDrain>>
      /\ Sound(Registry) /\ Registry.queues = queues /\ Registry.drains = drains
      /\ Registry.registered = registered /\ registered \in 0..MaxQueues
      /\ ~clearedMidDrain => DrainsRegistered(Registry)
  BY InvFacts DEF FinishRun
<1>2. /\ q \in QueueRecord /\ q.draining
      /\ q.items = SubSeq(s, d.take + 1, Len(s))
      /\ q.dropped = IF d.told # <<>> THEN <<>> ELSE queues[o].dropped
  <2>1. s \in Seq(Messages) /\ d.take \in Nat
    BY <1>1 DEF QueueRecord, DrainRecord
  <2>2. SubSeq(s, d.take + 1, Len(s)) \in Seq(Messages)
    BY <2>1, RestFacts
  <2>3. QED
    BY <1>1, <2>2, ElemsFacts DEF AfterRun, QueueRecord
<1>3. fate' = [m \in Messages |->
        IF m \in Elems(d.batch) THEN "delivered"
        ELSE IF m \in gone /\ fate[m] # "delivered"
        THEN IF m \in Elems(d.told) THEN "summarized" ELSE "skipped"
        ELSE fate[m]]
  BY DEF FinishRun
<1>4. Becomes(r)
  <2> HIDE DEF q
  <2>1. [Registry EXCEPT !.queues[o] = q] = y
    BY <1>1, <1>2, PutQueue DEF Sound
  <2>2. QED
    BY <2>1 DEF FinishRun, q
<1> HIDE DEF q, y, gone
<1>5. /\ Sound(y) /\ y.registered = registered /\ y.queues[o] = q
      /\ \A p \in Queues \ {o} : y.queues[p] = queues[p] /\ y.drains[p] = drains[p]
  BY <1>1, <1>2, PutFacts DEF y
<1>6. Sound(r) /\ QueuesKept(y, r, o)
  BY <1>2, <1>5, NextRoundFacts
<1> HIDE DEF r
<1>7. \A p \in Queues \ {o} : PromptSound(y, p)
  <2> SUFFICES ASSUME NEW p \in Queues \ {o} PROVE PromptSound(y, p)
    OBVIOUS
  <2>1. /\ y.queues[p] = Registry.queues[p] /\ y.drains[p] = Registry.drains[p]
        /\ y.registered = Registry.registered
    BY <1>5 DEF Registry
  <2>2. PromptSound(Registry, p)
    BY <1>1 DEF PromptInv
  <2> HIDE DEF s, d
  <2>3. QED
    BY <2>1, <2>2 DEF PromptSound
<1>8. /\ s \in Seq(Messages) /\ d.take \in Nat /\ Len(s) \in Nat
      /\ Len(q.items) = IF d.take < Len(s) THEN Len(s) - d.take ELSE 0
      /\ \A i \in 1..(Len(s) - d.take) : q.items[i] = s[d.take + i]
  <2>1. s \in Seq(Messages) /\ d.take \in Nat
    BY <1>1 DEF QueueRecord, DrainRecord
  <2> DEFINE u == SubSeq(s, d.take + 1, Len(s))
  <2>2. /\ Len(u) = IF d.take < Len(s) THEN Len(s) - d.take ELSE 0
        /\ \A i \in 1..(Len(s) - d.take) : u[i] = s[d.take + i]
    <3> HIDE DEF s
    <3>1. QED
      BY <2>1, RestFacts
  <2>3. Len(s) \in Nat
    BY <2>1
  <2> HIDE DEF u
  <2>4. q.items = u
    BY <1>2 DEF u
  <2>5. QED
    BY <2>1, <2>2, <2>3, <2>4
<1>9. ASSUME ~clearedMidDrain' PROVE OrderSound(y, o, fate', arrivals')
  <2>1. o = registered /\ OrderSound(Registry, 0, fate, arrivals) /\ o # 0
    BY <1>1, <1>9, QueueFacts DEF PromptInv, DrainsRegistered
  <2>2. ItemsInOrder(s, fate, arrivals) /\ StaysYounger(s, d, arrivals)
    BY <1>1, <2>1 DEF OrderSound
  <2>3. \A m \in Messages : fate'[m] = "delivered" => m \in Elems(d.batch) \/ fate[m] = "delivered"
    BY <1>3
  <2>4. \A m \in Messages : fate'[m] = "delivered" => m <= arrivals
    BY <2>1, <2>2, <2>3 DEF OrderSound, StaysYounger
  <2>5. ItemsInOrder(q.items, fate', arrivals)
    <3>0. d.take \in Nat /\ Len(s) \in Nat
          /\ Len(q.items) = IF d.take < Len(s) THEN Len(s) - d.take ELSE 0
      BY <1>8
    <3>1. \A i \in 1..Len(q.items) : /\ d.take + i \in 1..Len(s) /\ d.take + i > d.take
                                     /\ q.items[i] = s[d.take + i]
      <4> SUFFICES ASSUME NEW i \in 1..Len(q.items)
                   PROVE  /\ d.take + i \in 1..Len(s) /\ d.take + i > d.take
                          /\ q.items[i] = s[d.take + i]
        OBVIOUS
      <4>1. /\ d.take + i \in 1..Len(s) /\ d.take + i > d.take
            /\ i \in 1..(Len(s) - d.take)
        BY <3>0
      <4>2. QED
        BY <1>8, <4>1
    <3>2. \A i, j \in 1..Len(q.items) : i < j => d.take + i < d.take + j
      BY <3>0
    <3>3. \A i, j \in 1..Len(q.items) : i < j => q.items[i] < q.items[j]
      BY <2>2, <3>1, <3>2 DEF ItemsInOrder
    <3>4. \A i \in 1..Len(q.items) : q.items[i] <= arrivals
      BY <2>2, <3>1 DEF ItemsInOrder
    <3>5. \A i \in 1..Len(q.items), m \in Messages : fate'[m] = "delivered" => m < q.items[i]
      BY <2>2, <2>3, <3>1 DEF ItemsInOrder, StaysYounger
    <3>6. QED
      BY <3>3, <3>4, <3>5 DEF ItemsInOrder
  <2>6. QED
    BY <1>1, <1>5, <2>1, <2>4, <2>5 DEF OrderSound
<1>10. SkipExplained
  <2> SUFFICES ASSUME NEW m \in Messages, fate[m] # "skipped", fate'[m] = "skipped",
                      ~d.overflowed, ~TellsSummary(d)
               PROVE  FALSE
    BY <1>1 DEF SkipExplained, TellsSummary
  <2>1. m \in gone /\ m \notin Elems(d.batch) /\ m \notin Elems(d.told)
    BY <1>3
  <2>2. /\ \A i \in 1..Len(s) : i <= d.take => s[i] \in Elems(d.batch)
        /\ d.told # <<>> => Elems(queues[o].dropped) \subseteq Elems(d.told)
    BY <1>1 DEF PromptInv, PromptSound
  <2>3. CASE m \in Elems(s) \ Elems(q.items)
    <3>1. PICK i \in 1..Len(s) : m = s[i]
      BY <1>8, <2>3 DEF Elems
    <3>2. i > d.take
      BY <1>8, <2>1, <2>2, <3>1
    <3> DEFINE j == i - d.take
    <3>3. j \in 1..(Len(s) - d.take) /\ d.take + j = i /\ j \in 1..Len(q.items)
      BY <1>8, <3>2
    <3> HIDE DEF j
    <3>4. q.items[j] = m /\ q.items \in Seq(Messages)
      BY <1>2, <1>8, <3>1, <3>3 DEF QueueRecord
    <3>5. m \in Elems(q.items)
      BY <3>3, <3>4 DEF Elems
    <3>6. QED
      BY <2>3, <3>5
  <2>4. CASE m \in Elems(queues[o].dropped) \ Elems(q.dropped)
    BY <1>2, <2>1, <2>2, <2>4
  <2>5. QED
    BY <2>1, <2>3, <2>4 DEF gone
<1>11. QED
  BY <1>4, <1>6, <1>7, <1>5, <1>9, <1>10, StepSoundFrom


\* After the enqueue the drain may begin.
LEMMA FinalizeStep ==
  ASSUME NEW active \in BOOLEAN, NEW base, Sound(base), FinalizeUnlessActive(base, active),
         \A p \in Queues : PromptSound(base, p),
         \A p \in Queues : base.drains[p].pc = "running" => drains[p].pc = "running",
         ~clearedMidDrain' => OrderSound(base, 0, fate', arrivals'),
         \A m \in Messages : fate'[m] = "skipped" => fate[m] = "skipped"
  PROVE  StepSound
<1>1. SkipExplained
  BY DEF SkipExplained
<1>2. CASE active
  BY <1>1, <1>2, KeptFacts, StepSoundFrom DEF FinalizeUnlessActive
<1>3. CASE ~active
  BY <1>1, <1>3, ScheduleFacts, StepSoundFrom DEF FinalizeUnlessActive
<1>4. QED
  BY <1>2, <1>3

\* A queue as it is found, or created, for a message.
LEMMA GetQueueStep ==
  ASSUME QueueInv, PromptInv, NEW s \in Settings, registered # 0 \/ FreeQueues # {}
  PROVE  LET reg == GetFollowupQueue(s)
         IN  /\ \A p \in Queues : PromptSound(reg, p)
             /\ ~clearedMidDrain => OrderSound(reg, 0, fate, arrivals)
<1> DEFINE reg == GetFollowupQueue(s)
           o == reg.registered
<1>1. /\ o \in Queues
      /\ \A p \in Queues : reg.drains[p] = drains[p]
      /\ \A p \in Queues \ {o} : reg.queues[p] = queues[p]
      /\ IF registered = 0
         THEN ~Pending(reg.queues[o]) /\ drains[o].pc = "idle"
         ELSE /\ o = registered
              /\ reg.queues[o].items = queues[o].items
              /\ reg.queues[o].dropped = queues[o].dropped
  BY GetQueueFacts
<1>2. /\ Registry.queues = queues /\ Registry.drains = drains
      /\ Registry.registered = registered
  BY DEF Registry
<1> HIDE DEF reg
<1>3. ASSUME NEW p \in Queues PROVE PromptSound(reg, p)
  <2>1. PromptSound(Registry, p)
    BY DEF PromptInv
  <2>2. CASE registered = 0 /\ p = o
    BY <1>1, <1>2, <2>1, <2>2 DEF PromptSound
  <2>3. CASE ~(registered = 0 /\ p = o)
    <3>1. /\ reg.queues[p].items = queues[p].items /\ reg.queues[p].dropped = queues[p].dropped
          /\ reg.drains[p] = drains[p] /\ (p = reg.registered => p = registered)
      BY <1>1, <2>3
    <3>2. QED
      BY <1>2, <2>1, <3>1 DEF PromptSound
  <2>4. QED
    BY <2>2, <2>3
<1>4. ASSUME ~clearedMidDrain PROVE OrderSound(reg, 0, fate, arrivals)
  <2>1. OrderSound(Registry, 0, fate, arrivals)
    BY <1>4 DEF PromptInv
  <2>2. CASE registered = 0
    <3>1. reg.queues[o].items = <<>> /\ Len(<<>>) = 0 /\ reg.drains[o].pc = "idle"
      BY <1>1, <2>2 DEF Pending
    <3>2. ItemsInOrder(reg.queues[o].items, fate, arrivals)
      BY <3>1 DEF ItemsInOrder
    <3>3. QED
      BY <2>1, <3>1, <3>2 DEF OrderSound
  <2>3. CASE registered # 0
    BY <1>1, <1>2, <2>1, <2>3 DEF OrderSound
  <2>4. QED
    BY <2>2, <2>3
<1>5. QED
  BY <1>3, <1>4 DEF reg

LEMMA EnqueueDuplicateStep ==
  ASSUME QueueInv, PromptInv, NEW s \in Settings, NEW active \in BOOLEAN,
         EnqueueDuplicate(s, active)
  PROVE  StepSound
<1> DEFINE reg == GetFollowupQueue(s)
<1>1. registered # 0 \/ FreeQueues # {}
  BY DEF EnqueueDuplicate
<1>2. Sound(reg) /\ \A p \in Queues : reg.drains[p] = drains[p]
  BY <1>1, GetQueueFacts
<1>3. /\ \A p \in Queues : PromptSound(reg, p)
      /\ ~clearedMidDrain => OrderSound(reg, 0, fate, arrivals)
  BY <1>1, GetQueueStep
<1>4. /\ FinalizeUnlessActive(reg, active)
      /\ UNCHANGED <<arrivals, fate, clearedMidDrain>>
  BY DEF EnqueueDuplicate
<1> HIDE DEF reg
<1>5. QED
  BY <1>2, <1>3, <1>4, FinalizeStep

\* A push keeps the prompts and the order: what it drops is noted as an overflow, what it
\* adds is the youngest.
LEMMA PushStep ==
  ASSUME NEW reg, Sound(reg), NEW o \in Queues, o = reg.registered,
         NEW n \in Nat, n + 1 \in Messages,
         \A p \in Queues : PromptSound(reg, p)
  PROVE  LET q == reg.queues[o]
             x == Push(q, n + 1)
             dropped == Elems(SubSeq(q.items, 1, DropCount(q)))
             d == [reg.drains[o] EXCEPT !.overflowed = @ \/ (dropped # {} /\ q.draining)]
             y == Put(reg, o, x, d, o)
         IN  /\ Sound(y)
             /\ \A p \in Queues : PromptSound(y, p) /\ y.drains[p].pc = reg.drains[p].pc
             /\ \A f, g : /\ OrderSound(reg, 0, f, n)
                          /\ \A m \in Messages : g[m] = "delivered" => f[m] = "delivered"
                          => OrderSound(y, 0, g, n + 1)
<1> DEFINE q == reg.queues[o]
           m == n + 1
           x == Push(q, m)
           k == DropCount(q)
           dropped == Elems(SubSeq(q.items, 1, k))
           over == reg.drains[o].overflowed \/ (dropped # {} /\ q.draining)
           d == [reg.drains[o] EXCEPT !.overflowed = over]
           y == Put(reg, o, x, d, o)
<1>1. /\ q \in QueueRecord /\ reg.drains[o] \in DrainRecord /\ reg \in Registries
      /\ q.draining <=> reg.drains[o].pc # "idle"
      /\ o \in 0..MaxQueues /\ q.items \in Seq(Messages) /\ Len(q.items) \in Nat
  BY QueueFacts DEF Sound, Registries, QueueRecord
<1>2. /\ x \in QueueRecord /\ x.draining = q.draining
      /\ k \in 0..Len(q.items) /\ Len(x.items) = Len(q.items) - k + 1
      /\ \A i \in 1..(Len(q.items) - k) : x.items[i] = q.items[k + i]
      /\ x.items[Len(x.items)] = m
      /\ dropped = {} => k = 0 /\ Elems(x.dropped) = Elems(q.dropped)
  <2> HIDE DEF q
  <2>1. QED
    BY <1>1, PushFacts
<1>3. over \in BOOLEAN
  OBVIOUS
<1> HIDE DEF q, x, k, dropped
<1>4. /\ d \in DrainRecord /\ d.pc = reg.drains[o].pc /\ d.overflowed = over
      /\ d.batch = reg.drains[o].batch /\ d.told = reg.drains[o].told
      /\ d.take = reg.drains[o].take /\ d.take \in Nat
  <2> HIDE DEF over
  <2>1. QED
    BY <1>1, <1>3 DEF DrainRecord
<1> HIDE DEF d, y
<1>5. /\ Sound(y) /\ y.registered = o /\ y.queues[o] = x /\ y.drains[o] = d
      /\ \A p \in Queues \ {o} : y.queues[p] = reg.queues[p] /\ y.drains[p] = reg.drains[p]
  <2>1. x.draining <=> d.pc # "idle"
    BY <1>1, <1>2, <1>4
  <2>2. o \in 0..MaxQueues /\ x \in QueueRecord /\ d \in DrainRecord
    BY <1>1, <1>2, <1>4
  <2>3. QED
    BY <2>1, <2>2, PutFacts DEF y
<1>6. PromptSound(y, o)
  <2>1. PromptSound(reg, o)
    OBVIOUS
  <2>2. CASE d.pc # "running"
    BY <1>4, <1>5, <2>1, <2>2 DEF PromptSound, Unused
  <2>3. ASSUME d.pc = "running", ~over, ~TellsSummary(d)
        PROVE  /\ \A i \in 1..Len(x.items) : i <= d.take => x.items[i] \in Elems(d.batch)
               /\ d.told # <<>> => Elems(x.dropped) \subseteq Elems(d.told)
               /\ d.take <= Len(x.items)
    <3>1. ~reg.drains[o].overflowed /\ dropped = {}
      BY <1>1, <1>4, <2>3
    <3>2. k = 0 /\ Elems(x.dropped) = Elems(q.dropped)
      BY <1>2, <3>1
    <3>3. /\ \A i \in 1..Len(q.items) : i <= d.take => q.items[i] \in Elems(d.batch)
          /\ d.told # <<>> => Elems(q.dropped) \subseteq Elems(d.told)
          /\ d.take <= Len(q.items)
      BY <1>4, <2>1, <2>3, <3>1 DEF PromptSound, TellsSummary, q
    <3>4. /\ Len(x.items) = Len(q.items) + 1
          /\ \A i \in 1..Len(q.items) : x.items[i] = q.items[i]
      BY <1>1, <1>2, <3>2
    <3>5. \A i \in 1..Len(x.items) : i <= d.take => i \in 1..Len(q.items)
      BY <1>1, <1>4, <3>3, <3>4
    <3>6. d.take <= Len(x.items)
      BY <1>1, <1>4, <3>3, <3>4
    <3>7. QED
      BY <3>2, <3>3, <3>4, <3>5, <3>6
  <2>4. QED
    BY <1>4, <1>5, <2>2, <2>3 DEF PromptSound
<1>7. \A p \in Queues : PromptSound(y, p) /\ y.drains[p].pc = reg.drains[p].pc
  <2>1. ASSUME NEW p \in Queues \ {o} PROVE PromptSound(y, p)
    BY <1>5 DEF PromptSound
  <2>2. QED
    BY <1>4, <1>5, <1>6, <2>1
<1>8. ASSUME NEW f, NEW g, OrderSound(reg, 0, f, n),
             \A i \in Messages : g[i] = "delivered" => f[i] = "delivered"
      PROVE  OrderSound(y, 0, g, n + 1)
  <2>0. /\ k \in Nat /\ k <= Len(q.items) /\ Len(q.items) \in Nat /\ d.take \in Nat
        /\ Len(x.items) = Len(q.items) - k + 1
    BY <1>1, <1>2, <1>4
  <2>1. /\ ItemsInOrder(q.items, f, n)
        /\ o # 0 /\ (reg.drains[o].pc = "running" => StaysYounger(q.items, reg.drains[o], n))
        /\ \A i \in Messages : g[i] = "delivered" => i <= n
    BY <1>8, QueueFacts DEF OrderSound, q
  <2>2. \A i \in 1..Len(x.items) :
          \/ k + i \in 1..Len(q.items) /\ k + i >= i /\ x.items[i] = q.items[k + i]
          \/ i = Len(x.items) /\ x.items[i] = n + 1
    <3> SUFFICES ASSUME NEW i \in 1..Len(x.items)
                 PROVE  \/ /\ k + i \in 1..Len(q.items) /\ k + i >= i
                           /\ x.items[i] = q.items[k + i]
                        \/ i = Len(x.items) /\ x.items[i] = n + 1
      OBVIOUS
    <3>1. i \in 1..(Len(q.items) - k) \/ i = Len(x.items)
      BY <2>0
    <3>2. CASE i \in 1..(Len(q.items) - k)
      <4>1. k + i \in 1..Len(q.items) /\ k + i >= i
        BY <2>0, <3>2
      <4>2. QED
        BY <1>2, <3>2, <4>1
    <3>3. QED
      BY <1>2, <3>1, <3>2
  <2>3. \A i, j \in 1..Len(x.items) : i < j => k + i < k + j /\ i # Len(x.items)
    BY <2>0
  <2>4. (\A i \in Messages : i \in Nat) /\ \A i \in 1..Len(q.items) : q.items[i] \in Messages
    <3>1. \A i \in 1..Len(q.items) : q.items[i] \in Messages
      BY <1>1
    <3>2. QED
      BY <3>1 DEF Messages
  <2>5. \A i \in 1..Len(x.items) : x.items[i] <= n + 1
    BY <2>1, <2>2, <2>4 DEF ItemsInOrder
  <2>6. \A i, j \in 1..Len(x.items) : i < j => x.items[i] < x.items[j]
    <3> SUFFICES ASSUME NEW i \in 1..Len(x.items), NEW j \in 1..Len(x.items), i < j
                 PROVE  x.items[i] < x.items[j]
      OBVIOUS
    <3>1. k + i \in 1..Len(q.items) /\ x.items[i] = q.items[k + i] /\ k + i < k + j
      BY <2>2, <2>3
    <3>2. CASE x.items[j] = n + 1
      BY <2>1, <2>4, <3>1, <3>2 DEF ItemsInOrder
    <3>3. CASE k + j \in 1..Len(q.items) /\ x.items[j] = q.items[k + j]
      BY <2>1, <3>1, <3>3 DEF ItemsInOrder
    <3>4. QED
      BY <2>2, <3>2, <3>3
  <2>7. \A i \in 1..Len(x.items), j \in Messages : g[j] = "delivered" => j < x.items[i]
    <3> SUFFICES ASSUME NEW i \in 1..Len(x.items), NEW j \in Messages, g[j] = "delivered"
                 PROVE  j < x.items[i]
      OBVIOUS
    <3>1. f[j] = "delivered" /\ j <= n /\ j \in Nat
      BY <1>8, <2>1, <2>4
    <3>2. CASE x.items[i] = n + 1
      BY <3>1, <3>2
    <3>3. CASE k + i \in 1..Len(q.items) /\ x.items[i] = q.items[k + i]
      BY <2>1, <3>1, <3>3 DEF ItemsInOrder
    <3>4. QED
      BY <2>2, <3>2, <3>3
  <2>8. ItemsInOrder(x.items, g, n + 1)
    BY <2>5, <2>6, <2>7 DEF ItemsInOrder
  <2>9. d.pc = "running" => StaysYounger(x.items, d, n + 1)
    <3> SUFFICES ASSUME d.pc = "running", NEW b \in Elems(d.batch)
                 PROVE  b <= n + 1 /\ \A i \in 1..Len(x.items) : i > d.take => b < x.items[i]
      BY DEF StaysYounger
    <3>1. b <= n /\ \A i \in 1..Len(q.items) : i > d.take => b < q.items[i]
      BY <1>4, <2>1 DEF StaysYounger
    <3>2. b \in Nat
      BY <1>4, <2>4, ElemsFacts DEF DrainRecord
    <3>3. ASSUME NEW i \in 1..Len(x.items), i > d.take PROVE b < x.items[i]
      <4>1. CASE k + i \in 1..Len(q.items) /\ k + i >= i /\ x.items[i] = q.items[k + i]
        <5>1. k + i > d.take
          BY <2>0, <3>3
        <5>2. QED
          BY <3>1, <4>1, <5>1
      <4>2. CASE x.items[i] = n + 1
        BY <3>1, <3>2, <4>2
      <4>3. QED
        BY <2>2, <4>1, <4>2
    <3>4. QED
      BY <3>1, <3>2, <3>3
  <2>10. \A i \in Messages : g[i] = "delivered" => i <= n + 1
    BY <2>1, <2>4
  <2>11. QED
    BY <1>5, <2>8, <2>9, <2>10 DEF OrderSound
<1>9. \A f, g : /\ OrderSound(reg, 0, f, n)
                /\ \A i \in Messages : g[i] = "delivered" => f[i] = "delivered"
                => OrderSound(y, 0, g, n + 1)
  BY <1>8
<1>10. Sound(y)
  BY <1>5
<1> HIDE DEF over
<1>11. QED
  BY <1>7, <1>9, <1>10 DEF q, x, k, dropped, over, d, y


LEMMA EnqueueFollowupRunStep ==
  ASSUME QueueInv, PromptInv, NEW s \in Settings, NEW active \in BOOLEAN,
         EnqueueFollowupRun(s, active)
  PROVE  StepSound
<1> DEFINE reg == GetFollowupQueue(s)
           o == reg.registered
           q == reg.queues[o]
           m == arrivals + 1
           refuse == q.dropPolicy = "new" /\ DropCount(q) > 0
           dropped == Elems(SubSeq(q.items, 1, DropCount(q)))
<1>1. registered # 0 \/ FreeQueues # {}
  BY DEF EnqueueFollowupRun
<1>2. /\ Sound(reg) /\ o \in Queues
      /\ \A p \in Queues : /\ reg.queues[p].draining <=> queues[p].draining
                           /\ reg.drains[p] = drains[p]
  BY <1>1, GetQueueFacts
<1>3. /\ \A p \in Queues : PromptSound(reg, p)
      /\ ~clearedMidDrain => OrderSound(reg, 0, fate, arrivals)
  BY <1>1, GetQueueStep
<1>4. arrivals' = m /\ m \in Messages /\ arrivals \in Nat /\ UNCHANGED clearedMidDrain
      /\ fate \in [Messages -> Fates]
  BY InvFacts, BoundsAssumption DEF EnqueueFollowupRun, RestTyped, Messages
<1>5. q \in QueueRecord /\ reg.drains[o] \in DrainRecord /\ reg \in Registries
  BY <1>2 DEF Sound, Registries
<1>6. CASE refuse
  <2> DEFINE x == [q EXCEPT !.lastRun = TRUE]
             y == Put(reg, o, x, reg.drains[o], o)
             e == [reg EXCEPT !.queues[o].lastRun = TRUE]
  <2>1. FinalizeUnlessActive(e, active) /\ fate' = [fate EXCEPT ![m] = "dismissed"]
    BY <1>6 DEF EnqueueFollowupRun
  <2>2. x \in QueueRecord /\ x.items = q.items /\ x.dropped = q.dropped /\ x.draining = q.draining
    BY <1>5 DEF QueueRecord
  <2> HIDE DEF reg, q
  <2>3. e = y
    <3>1. e = [reg EXCEPT !.queues[o] = x]
      BY DEF q
    <3> HIDE DEF e, x
    <3>2. QED
      BY <1>2, <1>5, <2>2, <3>1, PutQueue
  <2> HIDE DEF e, y, x
  <2>4. o \in 0..MaxQueues /\ (q.draining <=> reg.drains[o].pc # "idle")
    BY <1>2 DEF Sound, Registries, q
  <2>5. /\ Sound(y) /\ y.registered = o /\ y.queues[o] = x
        /\ \A p \in Queues : y.drains[p] = reg.drains[p]
        /\ \A p \in Queues \ {o} : y.queues[p] = reg.queues[p]
    <3>1. x.draining <=> reg.drains[o].pc # "idle"
      BY <2>2, <2>4
    <3>2. /\ Sound(y) /\ y.registered = o /\ y.queues[o] = x /\ y.drains[o] = reg.drains[o]
          /\ \A p \in Queues \ {o} : y.queues[p] = reg.queues[p] /\ y.drains[p] = reg.drains[p]
      <4>1. /\ Sound(reg) /\ o \in Queues /\ o \in 0..MaxQueues
            /\ x \in QueueRecord /\ reg.drains[o] \in DrainRecord
        BY <1>2, <1>5, <2>2, <2>4
      <4> HIDE DEF o
      <4>2. QED
        BY <3>1, <4>1, PutFacts DEF y
    <3>3. QED
      BY <3>2
  <2>6. QueuesKept(reg, y, 0)
    BY <2>2, <2>5, QueueFacts DEF QueuesKept, q
  <2>7. \A k \in Messages : fate'[k] = fate[k] \/ fate'[k] = "dismissed"
    BY <1>4, <2>1
  <2>8. ~clearedMidDrain => OrderSound(reg, 0, fate', arrivals')
    <3> SUFFICES ASSUME OrderSound(reg, 0, fate, arrivals)
                 PROVE  OrderSound(reg, 0, fate', arrivals + 1)
      BY <1>3, <1>4
    <3>1. /\ \A i \in Messages : i \in Nat
          /\ \A i \in Messages : fate'[i] = "delivered" => fate[i] = "delivered"
      BY <2>7 DEF Messages
    <3>2. \A p \in Queues : p = o =>
            /\ \A i \in 1..Len(reg.queues[p].items) : reg.queues[p].items[i] \in Nat
            /\ \A b \in Elems(reg.drains[p].batch) : b \in Nat
      <4>1. q.items \in Seq(Messages) /\ reg.drains[o].batch \in Seq(Messages)
        BY <1>5 DEF QueueRecord, DrainRecord
      <4>2. /\ \A i \in 1..Len(q.items) : q.items[i] \in Messages
            /\ \A b \in Elems(reg.drains[o].batch) : b \in Messages
        BY <4>1, ElemsFacts
      <4>3. QED
        BY <3>1, <4>2 DEF q
    <3>3. ASSUME NEW p \in Queues, p = o
          PROVE  /\ ItemsInOrder(reg.queues[p].items, fate', arrivals + 1)
                 /\ reg.drains[p].pc = "running" =>
                      StaysYounger(reg.queues[p].items, reg.drains[p], arrivals + 1)
      <4>1. /\ ItemsInOrder(reg.queues[p].items, fate, arrivals)
            /\ reg.drains[p].pc = "running" =>
                 StaysYounger(reg.queues[p].items, reg.drains[p], arrivals)
        BY <3>3, QueueFacts DEF OrderSound
      <4>2. ItemsInOrder(reg.queues[p].items, fate', arrivals + 1)
        <5> DEFINE t == reg.queues[p].items
        <5>1. \A i \in 1..Len(t) : t[i] \in Nat /\ t[i] <= arrivals
          BY <3>2, <3>3, <4>1 DEF ItemsInOrder
        <5>2. \A i \in 1..Len(t) : t[i] <= arrivals + 1
          BY <1>4, <5>1
        <5>3. \A i \in 1..Len(t), k \in Messages : fate'[k] = "delivered" => k < t[i]
          BY <3>1, <4>1 DEF ItemsInOrder
        <5>4. QED
          BY <4>1, <5>2, <5>3 DEF ItemsInOrder
      <4>3. reg.drains[p].pc = "running" =>
              StaysYounger(reg.queues[p].items, reg.drains[p], arrivals + 1)
        BY <1>4, <3>2, <3>3, <4>1 DEF StaysYounger
      <4>4. QED
        BY <4>2, <4>3
    <3>4. \A i \in Messages : fate'[i] = "delivered" => i <= arrivals + 1
      BY <1>4, <3>1 DEF OrderSound
    <3>5. QED
      BY <3>3, <3>4 DEF OrderSound
  <2>9. /\ \A p \in Queues : PromptSound(y, p)
        /\ ~clearedMidDrain' => OrderSound(y, 0, fate', arrivals')
    BY <1>3, <1>4, <2>6, <2>8, KeptPrompts
  <2>10. \A p \in Queues : y.drains[p].pc = "running" => drains[p].pc = "running"
    BY <1>2, <2>5
  <2>11. \A k \in Messages : fate'[k] = "skipped" => fate[k] = "skipped"
    BY <2>7
  <2>12. QED
    BY <2>1, <2>3, <2>5, <2>9, <2>10, <2>11, FinalizeStep
<1>7. CASE ~refuse
  <2> DEFINE x == Push(q, m)
             over == reg.drains[o].overflowed \/ (dropped # {} /\ q.draining)
             d == [reg.drains[o] EXCEPT !.overflowed = over]
             y == Put(reg, o, x, d, o)
             e == [reg EXCEPT !.queues[o] = x,
                              !.drains[o].overflowed = @ \/ (dropped # {} /\ queues[o].draining)]
  <2>1. /\ FinalizeUnlessActive(e, active)
        /\ fate' = [k \in Messages |->
             IF k = m THEN "queued"
             ELSE IF k \in dropped /\ fate[k] = "queued"
             THEN IF q.dropPolicy = "summarize" THEN "dropped" ELSE "dismissed"
             ELSE fate[k]]
    BY <1>7 DEF EnqueueFollowupRun
  <2>2. /\ Sound(y)
        /\ \A p \in Queues : PromptSound(y, p) /\ y.drains[p].pc = reg.drains[p].pc
        /\ \A f, g : /\ OrderSound(reg, 0, f, arrivals)
                     /\ \A k \in Messages : g[k] = "delivered" => f[k] = "delivered"
                     => OrderSound(y, 0, g, arrivals + 1)
    <3> HIDE DEF reg
    <3>1. QED
      BY <1>2, <1>3, <1>4, PushStep
  <2>3. x \in QueueRecord /\ over \in BOOLEAN
    BY <1>4, <1>5, PushFacts
  <2>4. (dropped # {} /\ queues[o].draining) <=> (dropped # {} /\ q.draining)
    BY <1>2
  <2> HIDE DEF reg, q, m, dropped, x
  <2>5. e = WithQueue(reg, o, x, over)
    BY <1>2, <2>4 DEF WithQueue, q
  <2>6. e = y
    <3> HIDE DEF e, over
    <3>1. QED
      BY <1>2, <1>5, <2>3, <2>5, PutOverflow
  <2> HIDE DEF e, y, d, over
  <2>7. \A k \in Messages : /\ fate'[k] = "delivered" => fate[k] = "delivered"
                            /\ fate'[k] = "skipped" => fate[k] = "skipped"
    BY <2>1
  <2>8. ~clearedMidDrain' => OrderSound(y, 0, fate', arrivals')
    BY <1>3, <1>4, <2>2, <2>7 DEF m
  <2>9. \A p \in Queues : y.drains[p].pc = "running" => drains[p].pc = "running"
    BY <1>2, <2>2
  <2>10. QED
    BY <2>1, <2>2, <2>6, <2>7, <2>8, <2>9, FinalizeStep
<1>8. QED
  BY <1>6, <1>7

LEMMA ClearFollowupQueueStep ==
  ASSUME QueueInv, PromptInv, ClearFollowupQueue
  PROVE  StepSound
<1> DEFINE o == registered
           x == IF queues[o].draining
                THEN [queues[o] EXCEPT !.items = <<>>, !.dropped = <<>>, !.lastRun = FALSE]
                ELSE NoQueue
<1>1. /\ o \in Queues /\ registered' = 0 /\ queues' = [queues EXCEPT ![o] = x]
      /\ UNCHANGED <<drains, arrivals>>
      /\ clearedMidDrain' = (clearedMidDrain \/ queues[o].draining)
  BY InvFacts, QueueFacts DEF ClearFollowupQueue
<1>2. \A m \in Messages : fate'[m] = fate[m] \/ fate'[m] = "dismissed"
  BY DEF ClearFollowupQueue
<1>3. queues[o] \in QueueRecord /\ queues \in [Queues -> QueueRecord]
  BY <1>1, InvFacts DEF Sound, Registries
<1>4. ~Pending(x)
  BY <1>3, RecordFacts DEF Pending, QueueRecord
<1>5. /\ Registry.queues = queues /\ Registry.drains = drains
      /\ Registry.registered = registered
      /\ Registry'.queues = queues' /\ Registry'.drains = drains'
      /\ Registry'.registered = registered'
  BY DEF Registry
<1> HIDE DEF x
<1>6. QueuesKept(Registry, Registry', 0)
  <2>1. \A p \in Queues : queues'[p] = IF p = o THEN x ELSE queues[p]
    BY <1>1, <1>3
  <2> HIDE DEF o
  <2>2. \A p \in Queues : p # 0 /\ (p = o => ~Pending(queues'[p])) /\ (p # o => queues'[p] = queues[p])
    BY <1>4, <2>1, QueueFacts
  <2>3. QED
    BY <1>1, <1>5, <2>2 DEF QueuesKept
<1>7. ~clearedMidDrain' => OrderSound(Registry, 0, fate', arrivals')
  BY <1>1, <1>2 DEF PromptInv, OrderSound, ItemsInOrder
<1>8. Sound(Registry') /\ Becomes(Registry')
  <2>1. FollowupTypeOK'
    BY ClearFollowupQueueKeeps DEF QueueInv
  <2>2. FollowupTypeOK' <=> Sound(Registry)' /\ RestTyped'
    BY TypeParts, PTL
  <2>3. Sound(Registry')
    BY <2>1, <2>2 DEF Sound
  <2>4. QED
    BY <1>5, <2>3 DEF Becomes
<1>9. SkipExplained
  BY <1>2 DEF SkipExplained
<1>10. QED
  BY <1>5, <1>6, <1>7, <1>8, <1>9, StepSoundFrom DEF PromptInv

LEMMA NextSound == QueueInv /\ PromptInv /\ [FollowupNext]_followupVars => StepSound
<1> SUFFICES ASSUME QueueInv, PromptInv, [FollowupNext]_followupVars PROVE StepSound
  OBVIOUS
<1>1. ASSUME NEW o \in Queues, Decide(o) \/ Collect(o) \/ FinishRun(o) PROVE StepSound
  BY <1>1, DecideStep, CollectStep, FinishRunStep
<1>2. ASSUME NEW o \in Queues, FailRun(o) PROVE StepSound
  BY <1>2, EndDrainStep DEF FailRun
<1>3. ASSUME NEW s \in Settings, NEW active \in BOOLEAN,
             EnqueueFollowupRun(s, active) \/ EnqueueDuplicate(s, active)
      PROVE  StepSound
  BY <1>3, EnqueueFollowupRunStep, EnqueueDuplicateStep
<1>4. CASE ClearFollowupQueue
  BY <1>4, ClearFollowupQueueStep
<1>5. CASE FinalizeWithFollowup
  BY <1>5, InvFacts, ScheduleFacts, QuietStep DEF FinalizeWithFollowup
<1>6. CASE \/ BeginTurn \/ EndRunOfTurn \/ BeginOtherRun \/ EndOtherRun
           \/ UNCHANGED followupVars
  <2>1. UNCHANGED <<queues, drains, registered, fate, arrivals, clearedMidDrain>>
    BY <1>6 DEF BeginTurn, EndRunOfTurn, BeginOtherRun, EndOtherRun, followupVars
  <2>2. Becomes(Registry)
    BY <2>1 DEF Becomes, Registry
  <2>3. QED
    BY <2>1, <2>2, InvFacts, KeptFacts, QuietStep
<1>7. QED
  BY <1>1, <1>2, <1>3, <1>4, <1>5, <1>6 DEF FollowupNext

LEMMA PromptInductive == FollowupSpec => []PromptInv
<1>1. FollowupInit => PromptInv
  <2> SUFFICES ASSUME FollowupInit PROVE PromptInv
    OBVIOUS
  <2>1. \A o \in Queues : PromptSound(Registry, o)
    BY KeptFacts, RecordFacts DEF FollowupInit, PromptSound, Registry
  <2>2. OrderSound(Registry, 0, fate, arrivals)
    BY QueueFacts DEF FollowupInit, OrderSound, Registry
  <2>3. QED
    BY <2>1, <2>2 DEF PromptInv
<1>2. QueueInv /\ PromptInv /\ [FollowupNext]_followupVars => PromptInv'
  BY NextSound DEF StepSound
<1>3. QED
  BY <1>1, <1>2, QueueInductive, PTL DEF FollowupSpec

\* The agent gets the messages in the order they came, through retries, drops, changes of
\* mode and the switch to individual delivery: no prompt holds a message older than one
\* delivered before, unless a queue was cleared during its drain (drain.ts).
THEOREM OrderKept == FollowupSpec => DeliveredInOrder
<1>1. QueueInv /\ PromptInv /\ [FollowupNext]_followupVars => PromptInOrder
  BY NextSound DEF StepSound
<1>2. QED
  BY <1>1, QueueInductive, PromptInductive, PTL
     DEF FollowupSpec, DeliveredInOrder, PromptInOrder

\* A message that leaves the queue was handed to the agent, dismissed, or told of in a
\* summary, unless the queue overflowed during the run that ended or that run told a
\* summary: only then is the head of the queue not what was in the prompt (drain.ts).
THEOREM SkipsExplained == FollowupSpec => SkippedOnlyAfterOverflow
<1>1. QueueInv /\ PromptInv /\ [FollowupNext]_followupVars => SkipExplained
  BY NextSound DEF StepSound
<1>2. QED
  BY <1>1, QueueInductive, PromptInductive, PTL
     DEF FollowupSpec, SkippedOnlyAfterOverflow, SkipExplained

================================================================================
