---------------------------- MODULE FollowupQueue ----------------------------
(***************************************************************************)
(* The follow-up queue of one session (auto-reply/reply/queue, utils/      *)
(* queue-helpers.ts, and its caller agent-runner.ts).  A message that      *)
(* arrives while a run of the session is active is queued; when the turn   *)
(* that runs ends, a drain hands the queued messages to the agent, one by  *)
(* one or (mode "collect") in one prompt.  A full queue drops messages,    *)
(* and what it dropped is told in a summary.                               *)
(*                                                                         *)
(* A queue is an object: the registry FOLLOWUP_QUEUES holds at most one    *)
(* for the session's key, but a drain keeps the object it began with, also *)
(* after the registry has dropped or replaced it.  Objects are numbered;   *)
(* the number of one that nothing refers to any more is used again.        *)
(*                                                                         *)
(* Left out: the drain callback (no caller uses restartIfIdle), prompts,   *)
(* timestamps, and the session ids rewritten by                            *)
(* refreshQueuedFollowupSession.  Summary lines beyond the cap are shed in *)
(* the code, their messages stay counted: `dropped` is the counted ones.   *)
(***************************************************************************)
EXTENDS Integers, Sequences, FiniteSets

CONSTANTS
  Settings,       \* settings in use: records [mode, dropPolicy, cap]
  Routings,       \* routing keys of the messages, in order of arrival: sequences
  Unroutable,     \* the key of a message that must be handled on its own
  MaxMessages,    \* bound: messages accepted or refused by the queue
  MaxQueues,      \* bound: queue objects alive at one time
  MaxFailures     \* bound: follow-up runs that throw

Messages == 1..MaxMessages   \* in order of arrival
Queues   == 1..MaxQueues

ASSUME SettingsAssumption ==
  Settings \subseteq [mode : {"collect", "followup"},
                      dropPolicy : {"summarize", "old", "new"}, cap : Nat \ {0}]
ASSUME BoundsAssumption == MaxMessages \in Nat /\ MaxQueues \in Nat /\ MaxFailures \in Nat
ASSUME RoutingsAssumption == \A r \in Routings : DOMAIN r = Messages

VARIABLES
  queues,       \* [Queues -> record] the queue objects
  drains,       \* [Queues -> record] the drain of each object
  registered,   \* the object in FOLLOWUP_QUEUES, or 0
  arrivals,     \* messages so far
  route,        \* [Messages -> keys] where a message came from, does not change
  fate,         \* [Messages -> Fates] what has become of a message
  turn,         \* the run beside the drain: see Turns
  failures,     \* follow-up runs that threw
  othersRan,    \* history: a run that ends without scheduling a drain began
  clearedMidDrain  \* history: a queue was cleared while its drain was going

followupVars == <<queues, drains, registered, arrivals, route, fate, turn, failures,
                  othersRan, clearedMidDrain>>

\* "dropped": waits to be summarized; "dismissed": refused or discarded by the
\* drop policy, or cleared by the user; "skipped": gone in any other way.
Fates == {"new", "queued", "dropped", "delivered", "summarized", "dismissed", "skipped"}

\* "active": a turn's run is active; "ending": that run is over, the turn has
\* not finalized; "other": a run of the session from elsewhere is active.
Turns == {"none", "active", "ending", "other"}

Elems(s) == {s[i] : i \in DOMAIN s}

NoQueue == [items |-> <<>>, mode |-> "collect", dropPolicy |-> "summarize", cap |-> 1,
            draining |-> FALSE, dropped |-> <<>>, lastRun |-> FALSE]

\* batch: the messages in the prompt under way; told: the dropped ones its
\* summary counts; take: how many items are removed after it.
NoDrain == [pc |-> "idle", force |-> FALSE, batch |-> <<>>, told |-> <<>>, take |-> 0,
            overflowed |-> FALSE]

FollowupTypeOK ==
  /\ queues \in [Queues -> [items : Seq(Messages), mode : {"collect", "followup"},
                            dropPolicy : {"summarize", "old", "new"}, cap : Nat \ {0},
                            draining : BOOLEAN, dropped : Seq(Messages), lastRun : BOOLEAN]]
  /\ drains \in [Queues -> [pc : {"idle", "debounce", "collecting", "running"},
                            force : BOOLEAN, batch : Seq(Messages), told : Seq(Messages),
                            take : Nat, overflowed : BOOLEAN]]
  /\ registered \in 0..MaxQueues
  /\ arrivals \in 0..MaxMessages
  /\ route \in Routings
  /\ fate \in [Messages -> Fates]
  /\ turn \in Turns
  /\ failures \in 0..MaxFailures
  /\ othersRan \in BOOLEAN /\ clearedMidDrain \in BOOLEAN
  /\ \A o \in Queues : queues[o].draining <=> drains[o].pc # "idle"

FollowupInit ==
  /\ queues = [o \in Queues |-> NoQueue]
  /\ drains = [o \in Queues |-> NoDrain]
  /\ registered = 0
  /\ arrivals = 0
  /\ route \in Routings
  /\ fate = [m \in Messages |-> "new"]
  /\ \/ turn = "active" /\ othersRan = FALSE
     \/ turn = "other" /\ othersRan = TRUE
  /\ failures = 0
  /\ clearedMidDrain = FALSE

-----------------------------------------------------------------------------
(* The drain.  A registry is a record of the three variables it changes,   *)
(* since one stretch of code may end a drain and begin another.            *)

Registry == [queues |-> queues, drains |-> drains, registered |-> registered]

Becomes(reg) ==
  /\ queues' = reg.queues /\ drains' = reg.drains /\ registered' = reg.registered

Pending(q) == q.items # <<>> \/ q.dropped # <<>>

\* scheduleFollowupDrain, up to its first await: the debounce.  With nothing
\* pending it goes straight to its finally, and the queue is unregistered.
ScheduleFollowupDrain(reg) ==
  LET o == reg.registered
  IN  IF o = 0 THEN reg ELSE IF reg.queues[o].draining THEN reg
      ELSE IF Pending(reg.queues[o])
      THEN [reg EXCEPT !.queues[o].draining = TRUE,
                       !.drains[o] = [NoDrain EXCEPT !.pc = "debounce"]]
      ELSE [reg EXCEPT !.queues[o] = NoQueue, !.registered = 0]

\* Mutant: the finally always unregisters the queue.
EndDrainUnconditionally(reg, o) ==
  [reg EXCEPT !.queues[o].draining = FALSE, !.drains[o] = NoDrain, !.registered = 0]

\* Mutant: the flag stays up when the drain has to be scheduled again.
EndDrainKeepsFlag(reg, o) ==
  IF Pending(reg.queues[o])
  THEN ScheduleFollowupDrain([reg EXCEPT !.drains[o] = NoDrain])
  ELSE [reg EXCEPT !.queues[o] = NoQueue, !.drains[o] = NoDrain, !.registered = 0]

\* The finally of the drain: whatever is registered under the key goes, or the
\* key is scheduled again.
EndDrain(reg, o) ==
  IF Pending(reg.queues[o])
  THEN ScheduleFollowupDrain(
         [reg EXCEPT !.queues[o].draining = FALSE, !.drains[o] = NoDrain])
  ELSE [reg EXCEPT !.queues[o] = NoQueue, !.drains[o] = NoDrain, !.registered = 0]

\* The while condition.
NextRound(reg, o) ==
  IF Pending(reg.queues[o])
  THEN [reg EXCEPT !.drains[o] =
          [NoDrain EXCEPT !.pc = "debounce", !.force = reg.drains[o].force]]
  ELSE EndDrain(reg, o)

\* The items go to more than one destination, or one has none of its own.
HasCrossChannelItems(items) ==
  \E i, j \in DOMAIN items :
    route[items[i]] # route[items[j]] \/ route[items[i]] = Unroutable

HasSummary(q) == q.dropPolicy = "summarize" /\ q.dropped # <<>>

Run(o, d) ==
  Becomes([Registry EXCEPT
    !.drains[o] = [d EXCEPT !.pc = "running", !.overflowed = FALSE]])

\* One item on its own; with none the loop breaks.
RunNextItem(o, d) ==
  IF queues[o].items = <<>> THEN Becomes(EndDrain(Registry, o))
  ELSE Run(o, [d EXCEPT !.batch = <<Head(queues[o].items)>>, !.take = 1])

\* Mode followup: first a summary, with the routing of the head item.
RunSummary(o) ==
  IF queues[o].items = <<>> \/ ~queues[o].lastRun THEN Becomes(EndDrain(Registry, o))
  ELSE Run(o, [drains[o] EXCEPT !.told = queues[o].dropped, !.take = 1])

\* The debounce is over.  Once the items have crossed channels a drain handles
\* every item on its own; otherwise collecting comes after a further await.
Decide(o) ==
  LET q == queues[o]
      cross == HasCrossChannelItems(q.items)
  IN  /\ drains[o].pc = "debounce"
      /\ \/ /\ q.mode = "collect" /\ (drains[o].force \/ cross)
            /\ RunNextItem(o, [drains[o] EXCEPT !.force = @ \/ cross])
         \/ /\ q.mode = "collect" /\ ~drains[o].force /\ ~cross
            /\ Becomes([Registry EXCEPT !.drains[o].pc = "collecting"])
         \/ q.mode # "collect" /\ HasSummary(q) /\ RunSummary(o)
         \/ q.mode # "collect" /\ ~HasSummary(q) /\ RunNextItem(o, drains[o])
      /\ UNCHANGED <<arrivals, route, fate, turn, failures, othersRan, clearedMidDrain>>

\* All items and the summary in one prompt.
Collect(o) ==
  LET q == queues[o]
  IN  /\ drains[o].pc = "collecting"
      /\ IF q.items = <<>> /\ ~q.lastRun THEN Becomes(EndDrain(Registry, o))
         ELSE Run(o, [drains[o] EXCEPT
                !.batch = q.items, !.take = Len(q.items),
                !.told = IF HasSummary(q) THEN q.dropped ELSE <<>>])
      /\ UNCHANGED <<arrivals, route, fate, turn, failures, othersRan, clearedMidDrain>>

\* After a run: `take` items leave the head of the queue, whichever they are
\* by now, and a summary that was told clears the dropped ones.
AfterRun(o) ==
  LET q == queues[o]
      d == drains[o]
  IN  [q EXCEPT !.items = SubSeq(@, d.take + 1, Len(@)),
                !.dropped = IF d.told # <<>> THEN <<>> ELSE @]

\* Mutant: one item more is removed than the run was given.
FinishRunTakesOneMore(o) ==
  LET d == drains[o]
      q == [queues[o] EXCEPT !.items = SubSeq(@, d.take + 2, Len(@))]
  IN  /\ d.pc = "running"
      /\ Becomes(NextRound([Registry EXCEPT !.queues[o] = q], o))
      /\ fate' = [m \in Messages |->
           IF m \in Elems(d.batch) THEN "delivered"
           ELSE IF m \in Elems(queues[o].items) \ Elems(q.items) THEN "skipped"
           ELSE fate[m]]
      /\ UNCHANGED <<arrivals, route, turn, failures, othersRan, clearedMidDrain>>

\* Mutant: the items stay in the queue after their run.
FinishRunWithoutShift(o) ==
  LET d == drains[o]
  IN  /\ d.pc = "running"
      /\ Becomes(NextRound(Registry, o))
      /\ fate' = [m \in Messages |->
           IF m \in Elems(d.batch) THEN "delivered" ELSE fate[m]]
      /\ UNCHANGED <<arrivals, route, turn, failures, othersRan, clearedMidDrain>>

\* runFollowup returns.
FinishRun(o) ==
  LET d == drains[o]
      q == AfterRun(o)
      gone == (Elems(queues[o].items) \ Elems(q.items))
                \cup (Elems(queues[o].dropped) \ Elems(q.dropped))
  IN  /\ d.pc = "running"
      /\ Becomes(NextRound([Registry EXCEPT !.queues[o] = q], o))
      /\ fate' = [m \in Messages |->
           IF m \in Elems(d.batch) THEN "delivered"
           ELSE IF m \in gone /\ fate[m] # "delivered"
           THEN IF m \in Elems(d.told) THEN "summarized" ELSE "skipped"
           ELSE fate[m]]
      /\ UNCHANGED <<arrivals, route, turn, failures, othersRan, clearedMidDrain>>

\* runFollowup throws: nothing is removed, the drain starts over.
FailRun(o) ==
  /\ drains[o].pc = "running" /\ failures < MaxFailures
  /\ failures' = failures + 1
  /\ Becomes(EndDrain(Registry, o))
  /\ UNCHANGED <<arrivals, route, fate, turn, othersRan, clearedMidDrain>>

-----------------------------------------------------------------------------
(* Enqueueing.                                                             *)

FreeQueues == {o \in Queues : o # registered /\ ~queues[o].draining /\ ~Pending(queues[o])}

\* Mutant: a queue that is being drained is not reused.
ReplaceDrainingQueue(s) ==
  LET existing == registered # 0 /\ ~queues[registered].draining
      o == IF existing THEN registered
           ELSE CHOOSE p \in FreeQueues : \A r \in FreeQueues : p <= r
  IN  [Registry EXCEPT !.registered = o,
         !.queues[o] = [(IF existing THEN queues[registered] ELSE NoQueue) EXCEPT
           !.mode = s.mode, !.dropPolicy = s.dropPolicy, !.cap = s.cap]]

\* The registered queue, or a new one, with the settings of this call.
GetFollowupQueue(s) ==
  LET o == IF registered # 0 THEN registered
           ELSE CHOOSE p \in FreeQueues : \A r \in FreeQueues : p <= r
  IN  [Registry EXCEPT !.registered = o,
         !.queues[o] = [(IF registered # 0 THEN @ ELSE NoQueue) EXCEPT
           !.mode = s.mode, !.dropPolicy = s.dropPolicy, !.cap = s.cap]]

DropCount(q) == IF Len(q.items) < q.cap THEN 0 ELSE Len(q.items) - q.cap + 1

\* Mutant: the message jumps the queue.
PushFirst(q, m) ==
  LET n == DropCount(q)
  IN  [q EXCEPT
        !.items = <<m>> \o SubSeq(@, n + 1, Len(@)),
        !.dropped = IF q.dropPolicy = "summarize" THEN @ \o SubSeq(q.items, 1, n) ELSE @,
        !.lastRun = TRUE]

\* applyQueueDropPolicy, and the push.
Push(q, m) ==
  LET n == DropCount(q)
  IN  [q EXCEPT
        !.items = Append(SubSeq(@, n + 1, Len(@)), m),
        !.dropped = IF q.dropPolicy = "summarize" THEN @ \o SubSeq(q.items, 1, n) ELSE @,
        !.lastRun = TRUE]

\* isRunActive(): a follow-up run is active for part of the time it takes.
IsRunActive(active) ==
  IF turn \in {"active", "other"} THEN active = TRUE
  ELSE IF \E o \in Queues : drains[o].pc = "running" THEN active \in BOOLEAN
  ELSE active = FALSE

\* Mutant: the liveness of the run is not looked at again.
FinalizeUnlessActiveStale(reg, active) == Becomes(reg)

\* finalizeWithFollowup, if the run it waited for has ended by now.
FinalizeUnlessActive(reg, active) ==
  IF active THEN Becomes(reg) ELSE Becomes(ScheduleFollowupDrain(reg))

\* A message that saw an active run is queued, maybe after that run has ended.
EnqueueFollowupRun(s, active) ==
  LET reg == GetFollowupQueue(s)
      o == reg.registered
      q == reg.queues[o]
      m == arrivals + 1
      refuse == q.dropPolicy = "new" /\ DropCount(q) > 0
      dropped == Elems(SubSeq(q.items, 1, DropCount(q)))
  IN  /\ arrivals < MaxMessages
      /\ registered # 0 \/ FreeQueues # {}
      /\ IsRunActive(active)
      /\ arrivals' = m
      /\ IF refuse
         THEN /\ FinalizeUnlessActive([reg EXCEPT !.queues[o].lastRun = TRUE], active)
              /\ fate' = [fate EXCEPT ![m] = "dismissed"]
         ELSE /\ FinalizeUnlessActive(
                   [reg EXCEPT !.queues[o] = Push(q, m),
                               !.drains[o].overflowed = @ \/ (dropped # {} /\ queues[o].draining)],
                   active)
              /\ fate' = [x \in Messages |->
                   IF x = m THEN "queued"
                   ELSE IF x \in dropped /\ fate[x] = "queued"
                   THEN IF q.dropPolicy = "summarize" THEN "dropped" ELSE "dismissed"
                   ELSE fate[x]]
      /\ UNCHANGED <<route, turn, failures, othersRan, clearedMidDrain>>

\* A redelivered message is skipped, after its settings have been applied.
EnqueueDuplicate(s, active) ==
  /\ \E m \in Messages : fate[m] # "new"
  /\ registered # 0 \/ FreeQueues # {}
  /\ IsRunActive(active)
  /\ FinalizeUnlessActive(GetFollowupQueue(s), active)
  /\ UNCHANGED <<arrivals, route, fate, turn, failures, othersRan, clearedMidDrain>>

\* clearSessionQueues: the object is emptied and unregistered; a drain of it
\* keeps it and goes on.
ClearFollowupQueue ==
  LET o == registered
      q == queues[o]
      gone == Elems(q.items) \cup Elems(q.dropped)
  IN  /\ o # 0
      /\ registered' = 0
      /\ queues' = [queues EXCEPT ![o] =
           IF q.draining
           THEN [q EXCEPT !.items = <<>>, !.dropped = <<>>, !.lastRun = FALSE]
           ELSE NoQueue]
      /\ fate' = [m \in Messages |->
           IF m \in gone /\ fate[m] \in {"queued", "dropped"} THEN "dismissed" ELSE fate[m]]
      /\ clearedMidDrain' = (clearedMidDrain \/ q.draining)
      /\ UNCHANGED <<drains, arrivals, route, turn, failures, othersRan>>

-----------------------------------------------------------------------------
(* The runs that a message may find active.                                *)

BeginTurn ==
  /\ turn = "none"
  /\ turn' = "active"
  /\ UNCHANGED <<queues, drains, registered, arrivals, route, fate, failures, othersRan,
                 clearedMidDrain>>

\* The run is over; its reply is still being prepared.
EndRunOfTurn ==
  /\ turn = "active"
  /\ turn' = "ending"
  /\ UNCHANGED <<queues, drains, registered, arrivals, route, fate, failures, othersRan,
                 clearedMidDrain>>

FinalizeWithFollowup ==
  /\ turn = "ending"
  /\ turn' = "none"
  /\ Becomes(ScheduleFollowupDrain(Registry))
  /\ UNCHANGED <<arrivals, route, fate, failures, othersRan, clearedMidDrain>>

\* A run of the session that does not come from a message (the agent method of
\* the gateway): it registers its handle, and schedules nothing when it ends.
BeginOtherRun ==
  /\ turn = "none"
  /\ turn' = "other" /\ othersRan' = TRUE
  /\ UNCHANGED <<queues, drains, registered, arrivals, route, fate, failures,
                 clearedMidDrain>>

EndOtherRun ==
  /\ turn = "other"
  /\ turn' = "none"
  /\ UNCHANGED <<queues, drains, registered, arrivals, route, fate, failures, othersRan,
                 clearedMidDrain>>

-----------------------------------------------------------------------------
FollowupNext ==
  \/ \E o \in Queues : Decide(o)
  \/ \E o \in Queues : Collect(o)
  \/ \E o \in Queues : FinishRun(o)
  \/ \E o \in Queues : FailRun(o)
  \/ \E s \in Settings, active \in BOOLEAN : EnqueueFollowupRun(s, active)
  \/ \E s \in Settings, active \in BOOLEAN : EnqueueDuplicate(s, active)
  \/ ClearFollowupQueue
  \/ BeginTurn \/ EndRunOfTurn \/ FinalizeWithFollowup
  \/ BeginOtherRun \/ EndOtherRun

FollowupSpec == FollowupInit /\ [][FollowupNext]_followupVars

\* Timers fire and runs end (each has a timeout of its own).
FollowupFairness ==
  /\ \A o \in Queues : /\ WF_followupVars(Decide(o))
                       /\ WF_followupVars(Collect(o))
                       /\ WF_followupVars(FinishRun(o) \/ FailRun(o))
  /\ WF_followupVars(EndRunOfTurn)
  /\ WF_followupVars(FinalizeWithFollowup)
  /\ WF_followupVars(EndOtherRun)

FairFollowupSpec == FollowupSpec /\ FollowupFairness

-----------------------------------------------------------------------------
(* Properties.                                                             *)

\* The follow-up runs of a session never overlap, however enqueues, turns and
\* restarts of the drain interleave (the flag draining), unless a queue was
\* cleared while it was being drained.
OneDrainPerSession ==
  \A o, p \in Queues :
    drains[o].pc # "idle" /\ drains[p].pc # "idle" /\ o # p => clearedMidDrain

\* The agent gets the messages in the order they came: no prompt holds a
\* message older than one delivered before, through retries, drops, changes of
\* mode and the switch to individual delivery.
DeliveredInOrder ==
  [][\A o \in Queues :
       (drains[o].pc # "running" /\ drains'[o].pc = "running") =>
         \A m \in Elems(drains'[o].batch), d \in Messages :
           fate[d] = "delivered" => d < m \/ clearedMidDrain]_followupVars

\* A message that waits for its run or for its place in a summary is in a
\* queue that can still be drained: neither the end of a drain nor a failure
\* loses it.
WaitingIsReachable ==
  clearedMidDrain \/
  \A m \in Messages : fate[m] \in {"queued", "dropped"} =>
    \E o \in Queues :
      /\ o = registered \/ queues[o].draining
      /\ m \in Elems(queues[o].items) \cup Elems(queues[o].dropped)

\* A queue that holds messages and is not being drained has a turn that will
\* drain it when it ends, as long as only turns make messages wait (the look
\* at isRunActive after the enqueue).
IdleQueueIsTended ==
  \/ clearedMidDrain \/ othersRan \/ turn # "none"
  \/ registered # 0 => queues[registered].draining \/ ~Pending(queues[registered])

\* A message leaves the queue without having been handed to the agent in just
\* two cases: the queue overflowed during the run that ended, or that run told
\* a summary (which takes the place of the head item).
SkippedOnlyAfterOverflow ==
  [][\A m \in Messages : fate[m] # "skipped" /\ fate'[m] = "skipped" =>
       \E o \in Queues :
         /\ drains[o].pc = "running"
         /\ drains[o].overflowed \/ (drains[o].told # <<>> /\ drains[o].batch = <<>>)
     ]_followupVars

\* Dropped messages that no step of the drain will ever tell: no item is left,
\* and the summary is only told with an item, or not at all by this policy.
Stranded(q) ==
  /\ q.items = <<>> /\ q.dropped # <<>>
  /\ q.mode # "collect" \/ q.dropPolicy # "summarize"

\* A drain comes to its end, through retries and restarts of itself, unless it
\* is left with nothing but dropped messages that it will not tell.
DrainEnds ==
  \A o \in Queues : (drains[o].pc # "idle") ~> (drains[o].pc = "idle" \/ Stranded(queues[o]))

\* What the documents promise of a queued message: it gets its turn after the
\* current run, unless the user's settings drop it or it is cleared.
NoMessageSkipped == \A m \in Messages : fate[m] # "skipped"

=============================================================================
