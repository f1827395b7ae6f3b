------------------------- MODULE ScheduledDispatch -------------------------
(***************************************************************************)
(* What the main process does with an occurrence of LocalSchedules         *)
(* (src/main/index.ts): scheduledQueue, drainScheduledTask and the run it  *)
(* starts. The task has one run at a time, which may be the user's own.    *)
(* An occurrence that leaves the queue holds the task in scheduledDraining *)
(* until its run has settled.                                              *)
(*                                                                         *)
(* Left out: monitors, the assistant's child tasks, what a run writes into *)
(* the conversation.                                                       *)
(***************************************************************************)
EXTENDS LocalSchedules

CONSTANTS User,       \* the user's own run
          MaxStops    \* bound: how often the task is stopped (archived)

ASSUME DispatchAssumption == MaxStops \in Nat /\ User \notin Occurrences \cup {None}

VARIABLES
  draining,   \* scheduledDraining has the task
  run,        \* taskRuns: None, User, or the occurrence that runs
  compacting, \* compactingTasks has the task
  retry,      \* the 250 ms timer of a start that was refused is set
  flow,       \* how far drainScheduledTask is with an occurrence
  settling,   \* runs that have ended and whose onSettled has not saved yet
  started,    \* (history) occurrences whose run has started
  renewed,    \* (history) occurrences that were asked for once more
  stops

dispatch == <<draining, run, compacting, retry, flow, settling, started, renewed, stops>>
vars == <<base, memory, writes, file, queue, kick, counters, dispatch>>

Init ==
  /\ now = 0 /\ up = TRUE
  /\ fresh = Schedules
  /\ sched = NoSchedules /\ pending = Nothing /\ delivering = {} /\ armed = None
  /\ writes = <<>>
  /\ file = [sched |-> NoSchedules, pending |-> Nothing]
  /\ queue = <<>> /\ kick = FALSE
  /\ edits = 0 /\ restarts = 0 /\ faults = 0 /\ stops = 0
  /\ draining = FALSE /\ run = None /\ compacting = FALSE /\ retry = FALSE
  /\ flow = Nothing
  /\ settling = {} /\ started = {} /\ renewed = {} /\ early = {}

\* finishOccurrence and its write.
Finish(o, kind) ==
  /\ FinishOccurrence(o)
  /\ UNCHANGED sched
  /\ Persist(writes, kind, {o})

----------------------------------------------------------------------------
\* drainScheduledTask up to its first await, called at once (kick) or by the timer.
\* A call that finds the task busy returns, and relies on a later call.
Drain ==
  /\ up /\ (kick \/ retry)
  /\ kick' = FALSE /\ retry' = (kick /\ retry)
  /\ UNCHANGED <<base, armed, file, counters, run, compacting, settling, started, renewed, stops>>
  /\ \/ /\ draining \/ run # None \/ queue = <<>>
        /\ UNCHANGED <<sched, pending, delivering, writes, queue, draining, flow>>
     \/ /\ ~draining /\ run = None /\ queue # <<>>
        /\ queue' = Tail(queue) /\ draining' = TRUE
        /\ LET o == Head(queue)
               current == sched[o[1]]
           IN \/ /\ current # None => current.status = "paused"
                 /\ Finish(o, "drop")
                 /\ UNCHANGED flow
              \/ /\ current # None /\ current.status # "paused"
                 /\ flow' = [flow EXCEPT ![o] = "preparing"]
                 /\ UNCHANGED <<sched, pending, delivering, writes>>

\* startAgentRun, after the awaits that prepared the request: a run of the user's or a
\* compaction may have come first, then the item goes back and a timer drains again.
StartAgentRun(o) ==
  /\ up /\ flow[o] = "preparing"
  /\ UNCHANGED <<base, memory, writes, file, kick, counters, compacting, settling, renewed, stops>>
  /\ \/ /\ run = None /\ ~compacting
        /\ run' = o /\ started' = started \cup {o}
        /\ flow' = [flow EXCEPT ![o] = "projecting"]
        /\ UNCHANGED <<queue, retry, draining>>
     \/ /\ run # None \/ compacting
        /\ queue' = <<o>> \o queue
        /\ draining' = FALSE /\ retry' = TRUE
        /\ flow' = [flow EXCEPT ![o] = "none"]
        /\ UNCHANGED <<run, started>>

\* The request cannot be made: no task, no model.
PreparationFails(o) ==
  /\ up /\ flow[o] = "preparing"
  /\ flow' = [flow EXCEPT ![o] = "none"]
  /\ Finish(o, "fail")
  /\ UNCHANGED <<base, armed, file, queue, kick, counters, draining, run, settling>>
  /\ UNCHANGED <<compacting, retry, started, renewed, stops>>

\* The request cannot be written into the conversation: the occurrence is finished,
\* while its run goes on.
StartProjectionFails(o) ==
  /\ up /\ flow[o] = "projecting"
  /\ faults < MaxFaults /\ faults' = faults + 1
  /\ flow' = [flow EXCEPT ![o] = "none"]
  /\ Finish(o, "fail")
  /\ UNCHANGED <<base, armed, file, queue, kick, edits, restarts, draining, run, settling>>
  /\ UNCHANGED <<compacting, retry, started, renewed, stops>>

\* The request is in the conversation, and the occurrence is marked as running.
Mark(o) ==
  /\ up /\ flow[o] = "projecting"
  /\ flow' = [flow EXCEPT ![o] = "none"]
  /\ UNCHANGED sched
  /\ MarkRunning(o)
  /\ UNCHANGED <<base, delivering, armed, file, queue, kick, counters>>
  /\ UNCHANGED <<draining, run, compacting, retry, settling, started, renewed, stops>>

\* The run ends: taskRuns is released before onSettled is called.
RunEnds(o) ==
  /\ up /\ run = o
  /\ run' = None /\ settling' = settling \cup {o}
  /\ UNCHANGED <<base, memory, writes, file, queue, kick, counters>>
  /\ UNCHANGED <<draining, compacting, retry, flow, started, renewed, stops>>

\* onSettled writes the conversation after the start has: both pass through the
\* one queue of the saved state, so the mark comes first.
Settle(o) ==
  /\ up /\ o \in settling /\ flow[o] # "projecting"
  /\ settling' = settling \ {o}
  /\ Finish(o, "settle")
  /\ UNCHANGED <<base, armed, file, queue, kick, counters, draining, run, flow>>
  /\ UNCHANGED <<compacting, retry, started, renewed, stops>>

\* Its conversation cannot be written: the task is free, the occurrence is not finished.
EndProjectionFails(o) ==
  /\ up /\ o \in settling /\ flow[o] # "projecting"
  /\ faults < MaxFaults /\ faults' = faults + 1
  /\ settling' = settling \ {o}
  /\ draining' = FALSE /\ kick' = TRUE
  /\ UNCHANGED <<base, memory, writes, file, queue, edits, restarts, run, flow>>
  /\ UNCHANGED <<compacting, retry, started, renewed, stops>>

\* The writes of the dispatcher's calls.
MarkSaved ==
  /\ Landed("mark") /\ writes' = Tail(writes)
  /\ UNCHANGED <<base, memory, queue, kick, counters, dispatch>>

\* (Mutant) The end of a run frees the task and does not drain again.
ReleasedUnkicked ==
  /\ \E kind \in {"drop", "settle", "fail"} : Landed(kind)
  /\ writes' = Tail(writes)
  /\ draining' = FALSE
  /\ UNCHANGED <<base, memory, queue, kick, counters, run, flow, settling>>
  /\ UNCHANGED <<compacting, retry, started, renewed, stops>>

Released ==
  /\ \E kind \in {"drop", "settle", "fail"} : Landed(kind)
  /\ writes' = Tail(writes)
  /\ draining' = FALSE /\ kick' = TRUE
  /\ UNCHANGED <<base, memory, queue, counters, run, flow, settling>>
  /\ UNCHANGED <<compacting, retry, started, renewed, stops>>

----------------------------------------------------------------------------
(* A write that fails rejects in the operation that waits for it: the      *)
(* rest of that operation does not happen. In drainScheduledTask the       *)
(* rejection finishes the occurrence; in its catch it is not handled.      *)

WriteFails ==
  /\ writes # <<>> /\ faults < MaxFaults /\ faults' = faults + 1
  /\ UNCHANGED <<base, sched, armed, file, queue, edits, restarts, run, flow, settling>>
  /\ UNCHANGED <<compacting, retry, started, renewed, stops>>
  /\ LET w == Head(writes)
     IN \/ /\ w.kind \in {"mark", "drop"}
           /\ \E o \in w.occs :
                /\ FinishOccurrence(o)
                /\ Persist(Tail(writes), "fail", {o})
           /\ UNCHANGED <<kick, draining>>
        \/ /\ w.kind = "settle"
           /\ draining' = FALSE /\ kick' = TRUE
           /\ writes' = Tail(writes)
           /\ UNCHANGED <<pending, delivering>>
        \/ /\ w.kind \notin {"mark", "drop", "settle"}
           /\ writes' = Tail(writes)
           /\ UNCHANGED <<pending, delivering, kick, draining>>

----------------------------------------------------------------------------
(* The user: a run or a compaction of his own, and task:stop, which        *)
(* archiving and deleting a conversation call first.                       *)

UserRunStarts ==
  /\ Edit /\ run = None /\ ~compacting
  /\ run' = User
  /\ UNCHANGED <<base, memory, writes, file, queue, kick, restarts, faults>>
  /\ UNCHANGED <<draining, compacting, retry, flow, settling, started, renewed, stops>>

UserRunEnds ==
  /\ up /\ run = User
  /\ run' = None /\ kick' = TRUE
  /\ UNCHANGED <<base, memory, writes, file, queue, counters>>
  /\ UNCHANGED <<draining, compacting, retry, flow, settling, started, renewed, stops>>

CompactionStarts ==
  /\ Edit /\ run = None /\ ~compacting
  /\ compacting' = TRUE
  /\ UNCHANGED <<base, memory, writes, file, queue, kick, restarts, faults>>
  /\ UNCHANGED <<draining, run, retry, flow, settling, started, renewed, stops>>

CompactionEnds ==
  /\ up /\ compacting
  /\ compacting' = FALSE
  /\ UNCHANGED <<base, memory, writes, file, queue, kick, counters>>
  /\ UNCHANGED <<draining, run, retry, flow, settling, started, renewed, stops>>

\* A drain that is called at once comes first; the stop may come before the timer.
TaskStop ==
  /\ up /\ stops < MaxStops /\ stops' = stops + 1
  /\ ~kick
  /\ queue' = <<>>
  /\ UNCHANGED <<base, memory, writes, file, kick, counters>>
  /\ UNCHANGED <<draining, run, compacting, retry, flow, settling, started, renewed>>

\* The application goes down, by a crash or when the user quits it.
GoesDown ==
  /\ up /\ restarts < MaxRestarts
  /\ up' = FALSE /\ restarts' = restarts + 1
  /\ sched' = NoSchedules /\ pending' = Nothing /\ delivering' = {} /\ armed' = None
  /\ writes' = <<>> /\ queue' = <<>> /\ kick' = FALSE
  /\ draining' = FALSE /\ run' = None /\ flow' = Nothing
  /\ compacting' = FALSE /\ retry' = FALSE
  /\ settling' = {}
  /\ UNCHANGED <<now, fresh, early, file, edits, faults, started, renewed, stops>>

----------------------------------------------------------------------------
Manager ==
  \/ TimerFires \/ Refresh \/ TickSaved \/ CreateSaved \/ ArmSaved \/ RunNowSaved
  \/ Restore \/ InitSaved \/ StartSaved \/ ClockTicks
  \/ \E s \in Schedules : Create(s) \/ Update(s) \/ RemoveSchedule(s) \/ RunNow(s)

Dispatcher ==
  \/ Drain \/ MarkSaved \/ Released \/ WriteFails
  \/ UserRunStarts \/ UserRunEnds \/ CompactionStarts \/ CompactionEnds \/ TaskStop \/ GoesDown
  \/ \E o \in Occurrences :
       \/ StartAgentRun(o) \/ PreparationFails(o) \/ Mark(o) \/ RunEnds(o) \/ Settle(o)
       \/ StartProjectionFails(o) \/ EndProjectionFails(o)

\* (History) A run that an earlier process started counts as started, but for one
\* that the file still has as waiting: it is taken up again. A one-shot schedule
\* that was completed and is made active asks for the same occurrence once more.
Histories ==
  /\ started' = {o \in started : up' # up => file.pending[o] # "queued"}
  /\ renewed' = renewed \cup
       {o \in Occurrences : /\ sched[o[1]] # None /\ sched[o[1]].status = "completed"
                           /\ sched'[o[1]] # None /\ sched'[o[1]].status = "active"
                           /\ o[2] > 0}

Next ==
  \/ Manager /\ Histories /\ UNCHANGED <<draining, run, compacting, retry, flow, settling, stops>>
  \/ Dispatcher

Spec == Init /\ [][Next]_vars

WriteLands ==
  \/ (TickSaved \/ CreateSaved \/ ArmSaved \/ RunNowSaved \/ InitSaved \/ StartSaved) /\ UNCHANGED dispatch
  \/ MarkSaved \/ Released

\* Node's loop goes on and runs end, by themselves or by a limit or an abort.
\* Nothing is fair about time, restarts and the user.
FairSpec ==
  /\ Spec
  /\ WF_vars(WriteLands \/ WriteFails)
  /\ WF_vars(TimerFires /\ UNCHANGED dispatch)
  /\ WF_vars(Drain) /\ WF_vars(UserRunEnds) /\ WF_vars(CompactionEnds)
  /\ \A o \in Occurrences :
       WF_vars(StartAgentRun(o) \/ PreparationFails(o)) /\ WF_vars(Mark(o) \/ StartProjectionFails(o))
         /\ WF_vars(RunEnds(o)) /\ WF_vars(Settle(o) \/ EndProjectionFails(o))

----------------------------------------------------------------------------
TypeOK ==
  /\ now \in 0 .. MaxTime /\ up \in BOOLEAN
  /\ fresh \subseteq Schedules
  /\ sched \in [Schedules -> Schedule \cup {None}]
  /\ pending \in [Occurrences -> {"none", "queued", "running"}]
  /\ file \in Saved
  /\ delivering \subseteq Occurrences
  /\ armed \in (1 .. MaxTime + 1) \cup {None}
  /\ writes \in Seq(Write)
  /\ queue \in Seq(Occurrences)
  /\ edits \in 0 .. MaxEdits /\ restarts \in 0 .. MaxRestarts
  /\ faults \in 0 .. MaxFaults /\ stops \in 0 .. MaxStops
  /\ kick \in BOOLEAN /\ draining \in BOOLEAN
  /\ compacting \in BOOLEAN /\ retry \in BOOLEAN
  /\ run \in Occurrences \cup {None, User}
  /\ flow \in [Occurrences -> {"none", "preparing", "projecting"}]
  /\ settling \subseteq Occurrences /\ started \subseteq Occurrences
  /\ renewed \subseteq Occurrences /\ early \subseteq Occurrences

\* However long the task is busy, and across restarts, a recurring schedule
\* has at most one occurrence of its own waiting or running; the times that
\* pass meanwhile are dropped.
NoPileUp ==
  \A s \in Schedules, d, e \in 1 .. MaxTime :
    pending[<<s, d>>] # "none" /\ pending[<<s, e>>] # "none" => d = e

\* Nothing runs twice: an occurrence that starts was not started before, in this
\* process or in an earlier one; only what the file still had as waiting when the
\* application went down is taken up again. (Excepted: an occurrence asked for
\* while init() still writes, and one that its schedule asked for once more.)
RunsOnce ==
  [][\A o \in Occurrences \ (early \cup renewed) :
       run' = o /\ run # o => o \notin started]_vars

\* An occurrence reaches the dispatcher only when it is in the file, so that
\* a crash cannot take it back. (The same exception.)
SavedBeforeDelivery ==
  [][\A o \in Occurrences \ early' : o \in delivering' \ delivering => file'.pending[o] # "none"]_vars

\* While the application runs, writes work and nobody stops the task, a time
\* that is due is taken up and an occurrence that is saved comes to its end.
DueIsSettled ==
  \A o \in Occurrences :
    LET waits == IsDue(o[1]) \/ file.pending[o] # "none"
    IN (up /\ waits) ~> (~waits \/ ~up \/ faults > 0 \/ stops > 0)

=============================================================================
