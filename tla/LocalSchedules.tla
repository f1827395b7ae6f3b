--------------------------- MODULE LocalSchedules ---------------------------
(***************************************************************************)
(* The manager of scheduled prompts (src/main/local-schedules.ts). It      *)
(* keeps the schedules and their pending occurrences in memory, saves both *)
(* together in one file through a chain of writes, and hands an occurrence *)
(* that is due to the dispatcher (ScheduledDispatch) once it is saved.     *)
(*                                                                         *)
(* Time is the number of the interval between two due times: a cron        *)
(* schedule is due at every number, and `now' lies strictly between two of *)
(* them, so that the next run after now is now + 1. A one-shot schedule is *)
(* due at 1. All schedules belong to one task. Names, prompts, monitors    *)
(* and lastStatus are left out; so are edits of a trigger.                 *)
(***************************************************************************)
EXTENDS Integers, Sequences, SequencesExt

CONSTANTS Schedules,
          Plans,         \* the triggers and missedPolicies that are asked for
          MaxTime,       \* bound: how far time goes
          MaxEdits,      \* bound: updates, removals, runs by hand, user runs
          MaxRestarts,   \* bound: how often the application goes down
          MaxFaults,     \* bound: how many writes of the file fail
          None

\* An occurrence is named by its schedule and its due time. One asked for by
\* hand is named by that moment, no due time: 0, -1, ... in turn.
Occurrences == Schedules \X ((1 - MaxEdits) .. MaxTime)

\* A schedule has a next run while it is active, and only then.
Schedule == {r \in [plan : Plans, status : {"active", "paused", "completed"},
                    next : (1 .. MaxTime + 1) \cup {None}] :
               (r.status = "active") <=> (r.next # None)}
Saved == [sched : [Schedules -> Schedule \cup {None}],
          pending : [Occurrences -> {"none", "queued", "running"}]]
Kinds == {"init", "start", "tick", "create", "arm", "runNow", "mark", "drop", "fail", "settle"}
Write == [saves : Saved, kind : Kinds, occs : SUBSET Occurrences]

ASSUME ScheduleAssumption ==
  /\ IsFiniteSet(Schedules)
  /\ Plans \subseteq [trigger : {"once", "cron"}, missed : {"run_once", "skip"}]
  /\ MaxTime \in Nat /\ MaxEdits \in Nat /\ MaxRestarts \in Nat /\ MaxFaults \in Nat
  /\ None \notin Schedule /\ None \notin 1 .. MaxTime + 1 /\ None \notin Occurrences

VARIABLES
  now, up,
  fresh,        \* schedules that were never created
  sched,        \* #schedules
  pending,      \* #pending, with the state of each occurrence
  delivering,   \* #delivering
  armed,        \* the time #timer is set for
  writes,       \* the chain #write: what each will save, and who waits for it
  file,         \* the file
  queue,        \* scheduledQueue: what onOccurrence was given
  kick,         \* a call of drainScheduledTask is due
  early,        \* (history) delivered by init() before their own write landed
  edits, restarts, faults

memory   == <<sched, pending, delivering, armed>>
counters == <<edits, restarts, faults>>
base     == <<now, up, fresh, early>>

Nothing == [o \in Occurrences |-> "none"]
NoSchedules == [s \in Schedules |-> None]

Active(s) == sched[s] # None /\ sched[s].status = "active"
IsDue(s) == Active(s) /\ sched[s].next <= now

\* nextRun(trigger, now - 1) and nextRun(trigger, now).
NextRun(plan) == IF plan.trigger = "once" THEN 1 ELSE now + 1

ActiveWith(plan) == [plan |-> plan, status |-> "active", next |-> NextRun(plan)]

Inactive(s, status) == [sched[s] EXCEPT !.status = status, !.next = None]

HasPending(s) == \E o \in Occurrences : o[1] = s /\ pending[o] # "none"

----------------------------------------------------------------------------
(* #persist takes the state as this step leaves it and queues the write;   *)
(* the rest of the calling operation is named by `kind' and runs when the  *)
(* write has landed.                                                       *)

Persist(chain, kind, occs) ==
  writes' = Append(chain, [saves |-> [sched |-> sched', pending |-> pending'],
                           kind |-> kind, occs |-> occs])

\* The first write of the chain lands.
Landed(kind) ==
  /\ writes # <<>> /\ Head(writes).kind = kind
  /\ file' = Head(writes).saves

\* #arm: the timer is set for the earliest next run.
Arm ==
  LET dues == {sched'[s].next : s \in {u \in Schedules : sched'[u] # None /\ sched'[u].status = "active"}}
  IN armed' = IF dues = {} THEN None ELSE Min(dues)

\* #deliver and the handler it calls: the queue grows and is to be drained.
Deliver(occs) ==
  LET handed == {o \in occs \ delivering : sched[o[1]] # None}
  IN /\ delivering' = delivering \cup handed
     /\ queue' = queue \o SetToSeq(handed \ ToSet(queue))
     /\ kick' = (kick \/ handed # {})

\* #advance.
Advanced(s) ==
  IF sched[s].plan.trigger = "once" THEN Inactive(s, "completed") ELSE ActiveWith(sched[s].plan)

\* (Mutant) A tick does not look for an occurrence that is still pending.
DueOccurrencesPiling(S) == {<<s, sched[s].next>> : s \in S}

\* The occurrences a tick, or the recovery of missed runs, queues for S.
DueOccurrences(S) == {<<s, sched[s].next>> : s \in {u \in S : ~HasPending(u)}}

Queue(S, due) ==
  /\ sched' = [s \in Schedules |-> IF s \in due THEN Advanced(s) ELSE sched[s]]
  /\ pending' = [o \in Occurrences |-> IF o \in DueOccurrences(S) THEN "queued" ELSE pending[o]]

----------------------------------------------------------------------------
(* #tick, from the timer, from refresh() after the machine slept, and at   *)
(* the end of create(): it saves before it arms and delivers.              *)

\* (Mutant) The tick delivers before its write has landed.
TickEarly(chain) ==
  LET due == {s \in Schedules : IsDue(s)}
  IN /\ Queue(due, due)
     /\ Arm
     /\ Deliver(DueOccurrences(due))
     /\ IF due # {} THEN Persist(chain, "mark", {}) ELSE writes' = chain

Tick(chain) ==
  LET due == {s \in Schedules : IsDue(s)}
  IN /\ Queue(due, due)
     /\ IF due # {} THEN armed' = None /\ Persist(chain, "tick", DueOccurrences(due))
                    ELSE Arm /\ writes' = chain
     /\ UNCHANGED <<delivering, queue, kick>>

TimerFires ==
  /\ up /\ armed # None /\ armed <= now
  /\ Tick(writes)
  /\ UNCHANGED <<base, file, counters>>

Refresh ==
  /\ up
  /\ Tick(writes)
  /\ UNCHANGED <<base, file, counters>>

TickSaved ==
  /\ Landed("tick") /\ writes' = Tail(writes)
  /\ UNCHANGED <<base, sched, pending, counters>>
  /\ Arm
  /\ Deliver(Head(writes).occs)

----------------------------------------------------------------------------
(* The operations of the user interface and of the schedule tools.         *)

Edit == up /\ edits < MaxEdits /\ edits' = edits + 1

Create(s) ==
  /\ up /\ s \in fresh
  /\ fresh' = fresh \ {s}
  /\ \E plan \in Plans : sched' = [sched EXCEPT ![s] = ActiveWith(plan)]
  /\ UNCHANGED <<now, up, early, pending, delivering, armed, file, queue, kick, counters>>
  /\ Persist(writes, "create", {})

CreateSaved ==
  /\ Landed("create")
  /\ Tick(Tail(writes))
  /\ UNCHANGED <<base, counters>>

\* What is pending of s goes, unless it was handed to the dispatcher.
WithoutUndelivered(s) ==
  [o \in Occurrences |-> IF o[1] = s /\ o \notin delivering THEN "none" ELSE pending[o]]

\* update(): a schedule is paused, or made active again.
Update(s) ==
  /\ Edit
  /\ sched[s] # None
  /\ \/ /\ sched[s].status = "active"
        /\ sched' = [sched EXCEPT ![s] = Inactive(s, "paused")]
        /\ pending' = WithoutUndelivered(s)
     \/ /\ sched[s].status # "active"
        /\ sched' = [sched EXCEPT ![s] = ActiveWith(sched[s].plan)]
        /\ UNCHANGED pending
  /\ UNCHANGED <<base, delivering, armed, file, queue, kick, restarts, faults>>
  /\ Persist(writes, "arm", {})

RemoveSchedule(s) ==
  /\ Edit
  /\ sched[s] # None
  /\ sched' = [sched EXCEPT ![s] = None]
  /\ pending' = WithoutUndelivered(s)
  /\ UNCHANGED <<base, delivering, armed, file, queue, kick, restarts, faults>>
  /\ Persist(writes, "arm", {})

ArmSaved ==
  /\ Landed("arm") /\ writes' = Tail(writes)
  /\ UNCHANGED <<base, sched, pending, delivering, queue, kick, counters>>
  /\ Arm

\* The new occurrence is named by the present moment.
Manual(s) == <<s, 0 - edits>>

RunNow(s) ==
  /\ Edit
  /\ sched[s] # None
  /\ pending' = [pending EXCEPT ![Manual(s)] = "queued"]
  /\ UNCHANGED <<base, sched, delivering, armed, file, queue, kick, restarts, faults>>
  /\ Persist(writes, "runNow", {Manual(s)})

RunNowSaved ==
  /\ Landed("runNow") /\ writes' = Tail(writes)
  /\ UNCHANGED <<base, sched, pending, armed, counters>>
  /\ Deliver(Head(writes).occs)

----------------------------------------------------------------------------
(* init(): the file is read, an occurrence saved as running is dropped,    *)
(* missed runs are recovered, and everything pending is delivered.         *)

\* (Mutant) An interrupted run is taken up again.
RecoveredAll ==
  [o \in Occurrences |-> IF file.pending[o] = "none" \/ file.sched[o[1]] = None THEN "none" ELSE "queued"]

Recovered ==
  [o \in Occurrences |-> IF file.pending[o] = "queued" /\ file.sched[o[1]] # None THEN "queued" ELSE "none"]

Restore ==
  /\ ~up /\ up' = TRUE
  /\ sched' = file.sched
  /\ pending' = Recovered
  /\ UNCHANGED <<now, fresh, early, delivering, armed, file, queue, kick, counters>>
  /\ Persist(<<>>, "init", {})

\* init() takes operations while it still writes, and delivers what they have
\* queued with the rest.
InHand == {o \in Occurrences : pending[o] # "none"}
DeliverAll ==
  /\ Deliver(InHand)
  /\ early' = early \cup {o \in InHand \ delivering : \E i \in 2 .. Len(writes) : o \in writes[i].occs}

\* #recoverMissed, and the end of init() when it changed nothing.
InitSaved ==
  LET due == {s \in Schedules : IsDue(s)}
  IN /\ Landed("init")
     /\ UNCHANGED <<now, up, fresh, counters>>
     /\ Queue({s \in due : sched[s].plan.missed = "run_once"}, due)
     /\ \/ /\ due # {}
           /\ UNCHANGED <<delivering, armed, queue, kick, early>>
           /\ Persist(Tail(writes), "start", {})
        \/ /\ due = {}
           /\ writes' = Tail(writes)
           /\ Arm /\ DeliverAll

StartSaved ==
  /\ Landed("start") /\ writes' = Tail(writes)
  /\ UNCHANGED <<now, up, fresh, sched, pending, counters>>
  /\ Arm
  /\ DeliverAll

----------------------------------------------------------------------------
(* What the dispatcher calls.                                              *)

FinishOccurrence(o) ==
  /\ pending' = [pending EXCEPT ![o] = "none"]
  /\ delivering' = delivering \ {o}

MarkRunning(o) ==
  IF pending[o] # "none" /\ sched[o[1]] # None
    THEN /\ pending' = [pending EXCEPT ![o] = "running"]
         /\ Persist(writes, "mark", {o})
    ELSE UNCHANGED <<pending, writes>>

ClockTicks ==
  /\ now < MaxTime /\ now' = now + 1
  /\ UNCHANGED <<up, fresh, early, memory, writes, file, queue, kick, counters>>

=============================================================================
