------------------------------- MODULE Monitors -------------------------------
(***************************************************************************)
(* Monitors: a schedule that looks at a source and tells its assistant     *)
(* what is new there.  The gate (main/monitor-gate.ts) keeps a cursor and  *)
(* an outbox per monitor in one file; the dispatcher (main/index.ts,       *)
(* drainScheduledTask) asks it for a change, hands the change on, and      *)
(* completes it.  A change of a `notify' monitor becomes a result of a     *)
(* background task under the change's id (SavedState models what happens   *)
(* to it from there); one of an `evaluate' monitor is given to a run.      *)
(*                                                                         *)
(* Sources number their events.  When a monitor is due is the business of  *)
(* LocalSchedules; here it may be due whenever it has no occurrence left.  *)
(***************************************************************************)
EXTENDS Naturals, Sequences, Functions

CONSTANTS Monitors,
          Evaluated,   \* those whose changes are given to a run
          Sources,
          FirstSource, \* what every monitor looks at in the beginning
          None,
          BatchSize,   \* events of one batch (12000 characters in the code)
          MaxEvents,   \* bound: events of all sources
          MaxEdits,    \* bound: edits, pauses and resumptions by the user
          MaxFaults    \* bound: failing writes, probes and runs, restarts

\* Events, changes, outboxes and records.
SourceEvents == [source : Sources, number : Nat]
Changes == [id : Nat, events : Seq(SourceEvents)]
Outboxes == [id : Nat, events : Seq(SourceEvents), cursor : Nat]
Records == [source : Sources, cursor : Nat \cup {None}, base : Nat \cup {None},
            pending : Outboxes \cup {None}]

ASSUME MonitorAssumption ==
  /\ Evaluated \subseteq Monitors /\ FirstSource \in Sources
  /\ BatchSize \in Nat \ {0} /\ {MaxEvents, MaxEdits, MaxFaults} \subseteq Nat
  /\ None \notin Nat /\ None \notin Changes /\ None \notin Outboxes /\ None \notin Records

VARIABLES
  head,      \* events of each source so far
  config,    \* the source a monitor looks at, and whether it is paused
  record,    \* #records: source, cursor and outbox of each monitor
  disk,      \* the file of the records
  waiting,   \* monitors whose retryAt lies in the future
  writes,    \* the chain #write: what each save will store
  flow,      \* where the drain of a monitor's queue is
  unfinished,\* monitors with an occurrence that nobody will finish in this life
  results,   \* results queued for the assistant, in the saved state
  handled,   \* (history) events given to runs that ended well
  fresh,     \* the next id of a change of each monitor
  edits, faults
vars == <<head, config, record, disk, waiting, writes, flow, unfinished, results,
          handled, fresh, edits, faults>>
gate == <<record, disk, waiting, writes>>
outside == <<head, config, edits>>

Rest == [at |-> "rest"]
\* `base' (history) is the cursor of the first snapshot.
NoRecord(source) == [source |-> source, cursor |-> None, base |-> None, pending |-> None]

Init ==
  /\ head = [s \in Sources |-> 0]
  /\ config = [m \in Monitors |-> [source |-> FirstSource, paused |-> FALSE]]
  /\ record = [m \in Monitors |-> None] /\ disk = record
  /\ waiting = {} /\ writes = <<>>
  /\ flow = [m \in Monitors |-> Rest] /\ unfinished = {}
  /\ results = {} /\ handled = {} /\ fresh = [m \in Monitors |-> 0]
  /\ edits = 0 /\ faults = 0

Fault == faults < MaxFaults /\ faults' = faults + 1
GoesTo(m, to) == flow' = [flow EXCEPT ![m] = to]

-----------------------------------------------------------------------------
(* The gate. *)

(* A batch has at least one event; the outbox keeps the others. *)
Batch(pending) ==
  [id |-> pending.id,
   events |-> SubSeq(pending.events, 1,
                     IF Len(pending.events) < BatchSize THEN Len(pending.events) ELSE BatchSize)]

Known(m, source) == IF record[m] # None /\ record[m].source = source THEN record[m]
                    ELSE NoRecord(source)

(* #save: the records are taken when the write has its turn, and remembered when
   it has succeeded. *)
Save(m, rec, retry) ==
  writes' = Append(writes, [monitor |-> m, record |-> rec, retry |-> retry])

WriteLands ==
  /\ writes # <<>>
  /\ LET w == Head(writes)
         m == w.monitor
     IN  /\ disk' = [record EXCEPT ![m] = w.record]
         /\ record' = [record EXCEPT ![m] = w.record]
         /\ waiting' = IF w.retry THEN waiting \cup {m} ELSE waiting \ {m}
         /\ GoesTo(m, IF flow[m].change = None \/ flow[m].over THEN Rest
                      ELSE [flow[m] EXCEPT !.at = "checked"])
  /\ writes' = Tail(writes)
  /\ UNCHANGED <<outside, unfinished, results, handled, fresh, faults>>

(* The drain catches a failing save and finishes the occurrence; the end of a
   run does not (onSettled), and its occurrence stays for good. *)
WriteFails ==
  /\ writes # <<>> /\ Fault
  /\ LET m == Head(writes).monitor
     IN  /\ GoesTo(m, Rest)
         /\ unfinished' = IF m \in Evaluated /\ flow[m].over THEN unfinished \cup {m}
                          ELSE unfinished
  /\ writes' = Tail(writes)
  /\ UNCHANGED <<outside, record, disk, waiting, results, handled, fresh>>

RetryElapses(m) ==
  /\ m \in waiting
  /\ waiting' = waiting \ {m}
  /\ UNCHANGED <<outside, record, disk, writes, flow, unfinished, results, handled,
                 fresh, faults>>

-----------------------------------------------------------------------------
(* A drain, from its occurrence to the change. *)

Drain(m) ==
  /\ flow[m] = Rest /\ m \notin unfinished /\ ~config[m].paused
  /\ GoesTo(m, [at |-> "marking", source |-> config[m].source, change |-> None, over |-> FALSE])
  /\ UNCHANGED <<outside, gate, unfinished, results, handled, fresh, faults>>

(* An outbox that is not empty is offered again before the source is asked. *)
Check(m) ==
  /\ flow[m].at = "marking"
  /\ LET rec == Known(m, flow[m].source)
     IN  GoesTo(m, IF m \in waiting /\ rec = record[m] THEN Rest
                   ELSE IF rec.pending # None
                   THEN [flow[m] EXCEPT !.at = "checked", !.change = Batch(rec.pending)]
                   ELSE [flow[m] EXCEPT !.at = "probing"])
  /\ UNCHANGED <<outside, gate, unfinished, results, handled, fresh, faults>>

EventsAfter(source, cursor) ==
  [i \in 1..(head[source] - cursor) |-> [source |-> source, number |-> cursor + i]]

(* The first snapshot is where the monitor begins, and no event. *)
ProbeAnswers(m) ==
  /\ flow[m].at = "probing"
  /\ LET rec == Known(m, flow[m].source)
         first == rec.cursor = None
         events == IF first THEN <<>> ELSE EventsAfter(rec.source, rec.cursor)
         pending == [id |-> fresh[m], events |-> events, cursor |-> head[rec.source]]
     IN  IF events = <<>>
         THEN /\ Save(m, [rec EXCEPT !.cursor = head[rec.source],
                                     !.base = IF first THEN head[rec.source] ELSE @], FALSE)
              /\ GoesTo(m, [flow[m] EXCEPT !.at = "saving"])
              /\ UNCHANGED fresh
         ELSE /\ Save(m, [rec EXCEPT !.pending = pending], FALSE)
              /\ GoesTo(m, [flow[m] EXCEPT !.at = "saving", !.change = Batch(pending)])
              /\ fresh' = [fresh EXCEPT ![m] = @ + 1]
  /\ UNCHANGED <<outside, record, disk, waiting, unfinished, results, handled, faults>>

ProbeFails(m) ==
  /\ flow[m].at = "probing" /\ Fault
  /\ Save(m, Known(m, flow[m].source), TRUE)
  /\ GoesTo(m, [flow[m] EXCEPT !.at = "saving"])
  /\ UNCHANGED <<outside, record, disk, waiting, unfinished, results, handled, fresh>>

(* The schedule is looked at again after the await of the check. *)
Recheck(m) ==
  /\ flow[m].at = "checked"
  /\ GoesTo(m, IF config[m].paused \/ config[m].source # flow[m].source THEN Rest
               ELSE [flow[m] EXCEPT !.at = IF m \in Evaluated THEN "running" ELSE "queueing"])
  /\ UNCHANGED <<outside, gate, unfinished, results, handled, fresh, faults>>

-----------------------------------------------------------------------------
(* Handing a change on. *)

Events(seq) == {seq[i] : i \in DOMAIN seq}

(* A result that is queued or told already is not queued again. *)
QueuedByOccurrence(m) ==                                            \* (Mutant)
  results \cup {[key |-> <<m, fresh[m]>>, monitor |-> m, events |-> Events(flow[m].change.events)]}
Queued(m) ==
  IF \E r \in results : r.key = <<m, flow[m].change.id>> THEN results
  ELSE results \cup {[key |-> <<m, flow[m].change.id>>, monitor |-> m,
                      events |-> Events(flow[m].change.events)]}

QueueResult(m) ==
  /\ flow[m].at = "queueing"
  /\ results' = Queued(m)
  /\ GoesTo(m, [flow[m] EXCEPT !.at = "completing"])
  /\ UNCHANGED <<outside, gate, unfinished, handled, fresh, faults>>

(* A failing write of the saved state leaves its edit in the remembered copy,
   which the next write may carry to disk. *)
QueueFails(m) ==
  /\ flow[m].at = "queueing" /\ Fault
  /\ results' \in {results, Queued(m)}
  /\ GoesTo(m, Rest)
  /\ UNCHANGED <<outside, gate, unfinished, handled, fresh>>

RunEnds(m) ==
  /\ flow[m].at = "running"
  /\ handled' = handled \cup {<<m, e>> : e \in Events(flow[m].change.events)}
  /\ GoesTo(m, [flow[m] EXCEPT !.at = "completing"])
  /\ UNCHANGED <<outside, gate, unfinished, results, fresh, faults>>

(* The run fails or is cancelled; the change keeps its place. *)
RunFails(m) ==
  /\ flow[m].at = "running" /\ Fault
  /\ IF record[m].pending # None /\ record[m].pending.id = flow[m].change.id
     THEN Save(m, record[m], TRUE) /\ GoesTo(m, [flow[m] EXCEPT !.at = "saving", !.over = TRUE])
     ELSE GoesTo(m, Rest) /\ UNCHANGED writes
  /\ UNCHANGED <<outside, record, disk, waiting, unfinished, results, handled, fresh>>

(* The task was taken by another run: the occurrence goes back to the queue. *)
NotStarted(m) ==
  /\ flow[m].at = "running" /\ Fault
  /\ GoesTo(m, Rest)
  /\ UNCHANGED <<outside, gate, unfinished, results, handled, fresh>>

CompletedAtOnce(rec, m) ==                                          \* (Mutant)
  [rec EXCEPT !.cursor = rec.pending.cursor, !.pending = None]
(* What the batch left over becomes a change of its own. *)
Completed(rec, m) ==
  LET rest == SubSeq(rec.pending.events, Len(Batch(rec.pending).events) + 1,
                     Len(rec.pending.events))
  IN  IF rest = <<>> THEN [rec EXCEPT !.cursor = rec.pending.cursor, !.pending = None]
      ELSE [rec EXCEPT !.pending.id = fresh[m], !.pending.events = rest]

CompleteStuck(m) ==                                                 \* (Mutant)
  /\ flow[m].at = "completing"
  /\ GoesTo(m, Rest)
  /\ UNCHANGED <<outside, gate, unfinished, results, handled, fresh, faults>>
Complete(m) ==
  /\ flow[m].at = "completing"
  /\ IF record[m].pending # None /\ record[m].pending.id = flow[m].change.id
     THEN /\ Save(m, Completed(record[m], m), FALSE)
          /\ GoesTo(m, [flow[m] EXCEPT !.at = "saving", !.over = TRUE])
          /\ fresh' = [fresh EXCEPT ![m] = @ + 1]
     ELSE GoesTo(m, Rest) /\ UNCHANGED <<writes, fresh>>
  /\ UNCHANGED <<outside, record, disk, waiting, unfinished, results, handled, faults>>

-----------------------------------------------------------------------------
(* The world. *)

Happens(s) ==
  /\ FoldFunction(+, 0, head) < MaxEvents
  /\ head' = [head EXCEPT ![s] = @ + 1]
  /\ UNCHANGED <<config, edits, gate, flow, unfinished, results, handled, fresh, faults>>

UserEdits(m) ==
  /\ edits < MaxEdits /\ edits' = edits + 1
  /\ \/ \E s \in Sources \ {config[m].source} : config' = [config EXCEPT ![m].source = s]
     \/ config' = [config EXCEPT ![m].paused = ~@]
  /\ UNCHANGED <<head, gate, flow, unfinished, results, handled, fresh, faults>>

Restart ==
  /\ Fault
  /\ record' = disk /\ writes' = <<>>
  /\ flow' = [m \in Monitors |-> Rest] /\ unfinished' = {}
  /\ UNCHANGED <<outside, disk, waiting, results, handled, fresh>>

Step(m) == \/ Drain(m) \/ Check(m) \/ ProbeAnswers(m) \/ Recheck(m)
           \/ QueueResult(m) \/ RunEnds(m) \/ Complete(m)

Next ==
  \/ \E m \in Monitors :
       \/ Step(m) \/ RetryElapses(m) \/ UserEdits(m)
       \/ ProbeFails(m) \/ QueueFails(m) \/ RunFails(m) \/ NotStarted(m)
  \/ WriteLands \/ WriteFails \/ Restart
  \/ \E s \in Sources : Happens(s)

Spec == Init /\ [][Next]_vars
(* The schedules come due, sources and runs answer, delays pass, and the file
   system works; nothing has to happen at a source. *)
FairSpec == /\ Spec /\ WF_vars(WriteLands)
            /\ \A m \in Monitors : WF_vars(Step(m)) /\ WF_vars(RetryElapses(m))

-----------------------------------------------------------------------------
(* Properties. *)

Stages == {"marking", "probing", "saving", "checked", "queueing", "running", "completing"}
TypeOK ==
  /\ head \in [Sources -> Nat]
  /\ config \in [Monitors -> [source : Sources, paused : BOOLEAN]]
  /\ record \in [Monitors -> Records \cup {None}]
  /\ waiting \subseteq Monitors /\ unfinished \subseteq Monitors
  /\ writes \in Seq([monitor : Monitors, record : Records, retry : BOOLEAN])
  /\ flow \in [Monitors -> {Rest} \cup [at : Stages, source : Sources,
                                        change : Changes \cup {None}, over : BOOLEAN]]
  /\ results \subseteq [key : Monitors \X Nat, monitor : Monitors, events : SUBSET SourceEvents]
  /\ handled \subseteq Monitors \X SourceEvents
  /\ fresh \in [Monitors -> Nat]

Delivered(m, e) == IF m \in Evaluated THEN <<m, e>> \in handled
                   ELSE \E r \in results : r.monitor = m /\ e \in r.events

(* Whatever the file of the gate has moved past was handed on: behind the cursor
   everything, and behind the cursor of the outbox everything but what the outbox
   still holds. *)
NothingSkipped ==
  \A m \in Monitors : disk[m] # None /\ disk[m].cursor # None =>
    LET rec == disk[m]
        upTo == IF rec.pending = None THEN rec.cursor ELSE rec.pending.cursor
    IN  \A n \in (rec.base + 1)..upTo :
          LET e == [source |-> rec.source, number |-> n]
          IN  Delivered(m, e) \/ (rec.pending # None /\ e \in Events(rec.pending.events))

(* An event is in one result only, although the change that carries it is offered
   again after every failure and restart. *)
ToldOnce ==
  \A r, q \in results : r.monitor = q.monitor /\ r.events \cap q.events # {} => r = q

Undelivered(m) ==
  /\ disk[m] # None /\ disk[m].cursor # None
  /\ disk[m].source = config[m].source /\ ~config[m].paused /\ m \notin unfinished
  /\ \E n \in (disk[m].base + 1)..head[disk[m].source] :
       ~Delivered(m, [source |-> disk[m].source, number |-> n])

(* What happens at a source that a monitor has begun to look at is handed on, unless
   the user pauses the monitor or points it elsewhere, or the end of a run could not
   be saved. *)
EachChangeArrives == \A m \in Monitors : Undelivered(m) ~> ~Undelivered(m)
=============================================================================
