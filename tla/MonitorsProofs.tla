---------------------------- MODULE MonitorsProofs ----------------------------
(***************************************************************************)
(* Proofs about Monitors, for any number of monitors, sources, events,     *)
(* edits and faults.                                                       *)
(***************************************************************************)
EXTENDS Monitors, SequenceTheorems, TLAPS

\* The last event before those an outbox holds, and how far a record has handed on.
Front(pending) == pending.cursor - Len(pending.events)
Reached(rec) == IF rec.pending = None THEN rec.cursor ELSE Front(rec.pending)
Event(s, n) == [source |-> s, number |-> n]

\* An outbox holds the events of its source up to its cursor, without a gap.
OutboxOK(m, rec) ==
  LET p == rec.pending
      len == Len(p.events)
  IN  /\ rec.cursor # None /\ len > 0 /\ p.id < fresh[m]
      /\ rec.cursor <= Front(p) /\ p.cursor <= head[rec.source]
      /\ \A i \in 1..len : p.events[i] = Event(rec.source, Front(p) + i)

CursorOK(m, rec) ==
  /\ rec.cursor = None => rec.base = None /\ rec.pending = None
  /\ rec.cursor # None =>
       rec.base # None /\ rec.base <= rec.cursor /\ rec.cursor <= head[rec.source]
  /\ rec.pending # None => OutboxOK(m, rec)

\* What a record has moved past was handed on, and what it has not moved past was told
\* under the name of its outbox or not at all.
HandedOn(m, rec) ==
  rec.cursor # None =>
    \A n \in (rec.base + 1)..Reached(rec) : Delivered(m, Event(rec.source, n))
NotAhead(m, rec) ==
  rec.cursor # None =>
    \A r \in results : \A e \in r.events : r.monitor = m /\ e.source = rec.source =>
      \/ e.number <= Reached(rec)
      \/ rec.pending # None /\ r.key = <<m, rec.pending.id>>
\* A result under the name of the outbox tells its batch.
Named(m, rec) ==
  rec.pending # None =>
    \A r \in results : r.monitor = m /\ r.key = <<m, rec.pending.id>> =>
      r.events = Events(Batch(rec.pending).events)
Good(m, rec) ==
  CursorOK(m, rec) /\ HandedOn(m, rec) /\ NotAhead(m, rec) /\ Named(m, rec)

RecordsOK == record = disk /\ \A m \in Monitors : record[m] # None => Good(m, record[m])

\* A monitor has one write in the chain at most, and waits for it.
WriteGood(w) ==
  /\ flow[w.monitor].at = "saving" /\ Good(w.monitor, w.record)
  /\ flow[w.monitor].change # None /\ ~flow[w.monitor].over =>
       w.record.pending # None /\ flow[w.monitor].change = Batch(w.record.pending)

WritesOK ==
  /\ \A i \in DOMAIN writes : WriteGood(writes[i])
  /\ \A i, j \in DOMAIN writes : writes[i].monitor = writes[j].monitor => i = j

\* From its offer to its completion a change is what the outbox holds.
Offered(m) ==
  /\ ~flow[m].over /\ record[m] # None /\ record[m].pending # None
  /\ flow[m].change = Batch(record[m].pending)

FlowGood(m) ==
  /\ flow[m].at \in {"marking", "probing"} => flow[m].change = None /\ ~flow[m].over
  /\ flow[m].at = "probing" => Known(m, flow[m].source).pending = None
  /\ flow[m].at \in {"checked", "queueing", "running", "completing"} => Offered(m)
  /\ flow[m].at = "queueing" => m \notin Evaluated
  /\ flow[m].at = "running" => m \in Evaluated
  /\ flow[m].at = "completing" => \A e \in Events(flow[m].change.events) : Delivered(m, e)

FlowOK == \A m \in Monitors : FlowGood(m)

\* Results are about events that have happened, under ids that have been given.
ResultsOK ==
  \A r \in results :
    /\ r.key = <<r.monitor, r.key[2]>> /\ r.key[2] < fresh[r.monitor]
    /\ \A e \in r.events : e.number <= head[e.source]

IInv == TypeOK /\ RecordsOK /\ WritesOK /\ FlowOK /\ ResultsOK /\ ToldOnce

-------------------------------------------------------------------------------
(***************************************************************************)
(* Records, outboxes and changes.                                          *)
(***************************************************************************)

Flows == [at : Stages, source : Sources, change : Changes \cup {None}, over : BOOLEAN]
Writes == [monitor : Monitors, record : Records, retry : BOOLEAN]

BatchLen(p) == IF Len(p.events) < BatchSize THEN Len(p.events) ELSE BatchSize
RestOf(p) == SubSeq(p.events, Len(Batch(p).events) + 1, Len(p.events))

\* A batch is the beginning of its outbox.
LEMMA Batches ==
  ASSUME NEW p \in Outboxes
  PROVE  /\ Batch(p) \in Changes /\ Batch(p) # None /\ Batch(p).id = p.id
         /\ Len(p.events) \in Nat /\ Len(Batch(p).events) = BatchLen(p) /\ BatchLen(p) \in Nat
         /\ BatchLen(p) <= Len(p.events)
         /\ Len(p.events) > 0 => BatchLen(p) > 0
         /\ Batch(p).events \in Seq(SourceEvents)
         /\ \A i \in 1..BatchLen(p) : Batch(p).events[i] = p.events[i]
<1>1. p.events \in Seq(SourceEvents) /\ Len(p.events) \in Nat /\ p.id \in Nat
  BY DEF Outboxes
<1>2. /\ BatchLen(p) \in Nat /\ BatchLen(p) <= Len(p.events)
      /\ Len(p.events) > 0 => BatchLen(p) > 0
  BY <1>1, MonitorAssumption DEF BatchLen, MonitorAssumption
<1> DEFINE e == SubSeq(p.events, 1, BatchLen(p))
<1>3. e \in Seq(SourceEvents) /\ Len(e) = BatchLen(p) /\ \A i \in 1..BatchLen(p) : e[i] = p.events[i]
  BY <1>1, <1>2
<1> HIDE DEF e
<1>4. Batch(p) = [id |-> p.id, events |-> e]
  BY DEF Batch, BatchLen, e
<1>5. Batch(p) \in Changes /\ Batch(p).id = p.id /\ Batch(p).events = e
  BY <1>1, <1>3, <1>4 DEF Changes
<1>6. Batch(p) # None
  BY <1>5, MonitorAssumption DEF MonitorAssumption
<1> QED
  BY <1>1, <1>2, <1>3, <1>5, <1>6

\* What is left of an outbox when its batch has gone.
LEMMA Rests ==
  ASSUME NEW p \in Outboxes
  PROVE  /\ RestOf(p) \in Seq(SourceEvents) /\ Len(RestOf(p)) = Len(p.events) - BatchLen(p)
         /\ \A i \in 1..Len(RestOf(p)) : RestOf(p)[i] = p.events[BatchLen(p) + i]
         /\ RestOf(p) = <<>> <=> BatchLen(p) = Len(p.events)
<1>1. /\ p.events \in Seq(SourceEvents) /\ Len(p.events) \in Nat /\ BatchLen(p) \in Nat
      /\ BatchLen(p) <= Len(p.events)
  BY Batches DEF Outboxes
<1>2. RestOf(p) = SubSeq(p.events, BatchLen(p) + 1, Len(p.events))
  BY Batches DEF RestOf
<1>3. /\ RestOf(p) \in Seq(SourceEvents) /\ Len(RestOf(p)) = Len(p.events) - BatchLen(p)
      /\ \A i \in 1..(Len(p.events) - BatchLen(p)) : RestOf(p)[i] = p.events[BatchLen(p) + i]
  <2> DEFINE k == BatchLen(p)
  <2> HIDE DEF k
  <2>1. k \in Nat /\ k <= Len(p.events) /\ RestOf(p) = SubSeq(p.events, k + 1, Len(p.events))
    BY <1>1, <1>2 DEF k
  <2>2. /\ RestOf(p) \in Seq(SourceEvents) /\ Len(RestOf(p)) = Len(p.events) - k
        /\ \A i \in 1..(Len(p.events) - k) : RestOf(p)[i] = p.events[k + i]
    BY <1>1, <2>1
  <2> QED
    BY <2>2 DEF k
<1>4. RestOf(p) = <<>> <=> Len(RestOf(p)) = 0
  BY <1>3, EmptySeq
<1> QED
  BY <1>1, <1>3, <1>4

\* A drain that is not at rest, and where it goes.
LEMMA Draining ==
  ASSUME TypeOK, NEW m \in Monitors
  PROVE  flow[m].at # "rest" => flow[m] \in Flows
  BY DEF TypeOK, Rest, Flows

LEMMA Moving ==
  ASSUME NEW f \in Flows, NEW a \in Stages, NEW g, g = [f EXCEPT !.at = a]
  PROVE  g \in Flows /\ g.at = a /\ g.source = f.source /\ g.change = f.change /\ g.over = f.over
  BY DEF Flows

LEMMA FlowMoved ==
  ASSUME TypeOK, NEW m \in Monitors, NEW f \in {Rest} \cup Flows, GoesTo(m, f)
  PROVE  /\ flow' \in [Monitors -> {Rest} \cup Flows] /\ flow'[m] = f
         /\ \A n \in Monitors : n # m => flow'[n] = flow[n]
<1>1. flow \in [Monitors -> {Rest} \cup Flows]
  BY DEF TypeOK, Flows
<1> HIDE DEF Flows
<1> QED
  BY <1>1 DEF GoesTo

LEMMA KnownOK ==
  ASSUME TypeOK, NEW m \in Monitors, NEW s \in Sources
  PROVE  /\ Known(m, s) \in Records /\ Known(m, s).source = s
         /\ Known(m, s) = NoRecord(s) \/ (Known(m, s) = record[m] /\ record[m] # None)
         /\ Known(m, s).pending # None => Known(m, s) = record[m] /\ record[m] # None
  BY DEF TypeOK, Known, NoRecord, Records

-------------------------------------------------------------------------------
(***************************************************************************)
(* What time alone does not undo.                                          *)
(***************************************************************************)

Growing ==
  /\ \A s \in Sources : head[s] <= head'[s]
  /\ \A m \in Monitors : fresh[m] <= fresh'[m]
  /\ handled \subseteq handled' /\ results \subseteq results'

LEMMA DeliveredKept ==
  ASSUME Growing, NEW m, NEW e, Delivered(m, e)
  PROVE  Delivered(m, e)'
  BY DEF Growing, Delivered

\* A record stays good while no result of its monitor is added.
LEMMA GoodKept ==
  ASSUME TypeOK, TypeOK', Growing, NEW m \in Monitors, \A r \in results' : r \notin results => r.monitor # m
  PROVE  \A rec \in Records : Good(m, rec) => Good(m, rec)'
<1> SUFFICES ASSUME NEW rec \in Records, Good(m, rec) PROVE Good(m, rec)'
  OBVIOUS
<1>1. /\ rec.source \in Sources /\ rec.cursor \in Nat \cup {None} /\ rec.base \in Nat \cup {None}
      /\ rec.pending # None => rec.pending \in Outboxes
  BY DEF Records
<1>2. /\ head[rec.source] \in Nat /\ head'[rec.source] \in Nat /\ head[rec.source] <= head'[rec.source]
      /\ fresh[m] \in Nat /\ fresh'[m] \in Nat /\ fresh[m] <= fresh'[m]
  BY <1>1 DEF TypeOK, Growing
<1>3. CursorOK(m, rec)'
  <2>1. rec.pending # None => rec.pending.id \in Nat /\ rec.pending.cursor \in Nat
    BY <1>1 DEF Outboxes
  <2>2. rec.pending # None => OutboxOK(m, rec)'
    BY <1>2, <2>1 DEF Good, CursorOK, OutboxOK
  <2>3. rec.cursor # None => rec.cursor \in Nat
    BY <1>1
  <2> QED
    BY <1>2, <2>2, <2>3 DEF Good, CursorOK
<1>4. HandedOn(m, rec)'
  BY DeliveredKept DEF Good, HandedOn
<1>5. NotAhead(m, rec)' /\ Named(m, rec)'
  BY DEF Good, NotAhead, Named
<1> QED
  BY <1>3, <1>4, <1>5 DEF Good

\* A drain whose monitor and record are left alone is where it was.
LEMMA FlowKept ==
  ASSUME Growing, NEW m \in Monitors, FlowGood(m), flow'[m] = flow[m], record'[m] = record[m]
  PROVE  FlowGood(m)'
<1>1. Offered(m) => Offered(m)'
  BY DEF Offered
<1>2. Known(m, flow[m].source).pending = None => (Known(m, flow[m].source).pending = None)'
  BY DEF Known
<1>3. \A e : Delivered(m, e) => Delivered(m, e)'
  BY DeliveredKept
<1> QED
  BY <1>1, <1>2, <1>3 DEF FlowGood

LEMMA WriteKept ==
  ASSUME TypeOK, TypeOK', Growing, NEW w \in Writes, WriteGood(w), flow'[w.monitor] = flow[w.monitor],
         \A r \in results' : r \notin results => r.monitor # w.monitor
  PROVE  WriteGood(w)'
<1>1. w.monitor \in Monitors /\ w.record \in Records
  BY DEF Writes
<1>2. Good(w.monitor, w.record)'
  BY <1>1, GoodKept DEF WriteGood
<1> QED
  BY <1>2 DEF WriteGood

LEMMA ResultsKept ==
  ASSUME TypeOK, TypeOK', Growing, ResultsOK, UNCHANGED results
  PROVE  ResultsOK'
<1>1. \A r \in results : r.monitor \in Monitors /\ r.key[2] \in Nat /\ r.events \subseteq SourceEvents
  BY DEF TypeOK
<1>2. \A m \in Monitors : fresh[m] \in Nat /\ fresh'[m] \in Nat /\ fresh[m] <= fresh'[m]
  BY DEF TypeOK, Growing
<1>3. \A r \in results : r.key[2] < fresh'[r.monitor]
  BY <1>1, <1>2 DEF ResultsOK
<1>4. \A s \in Sources : head[s] \in Nat /\ head'[s] \in Nat /\ head[s] <= head'[s]
  BY DEF TypeOK, Growing
<1>5. \A r \in results : \A e \in r.events : e.number \in Nat /\ e.source \in Sources
  BY <1>1 DEF SourceEvents
<1>6. \A r \in results : \A e \in r.events : e.number <= head'[e.source]
  BY <1>4, <1>5 DEF ResultsOK
<1> QED
  BY <1>3, <1>6 DEF ResultsOK

LEMMA Chain ==
  ASSUME TypeOK
  PROVE  \A i \in DOMAIN writes : writes[i] \in Writes
<1>1. writes \in Seq(Writes)
  BY DEF TypeOK, Writes
<1> QED
  BY <1>1

\* The chain of writes when nothing is written, and when one monitor saves its record.
LEMMA WritesKept ==
  ASSUME TypeOK, TypeOK', Growing, WritesOK, UNCHANGED writes, NEW m \in Monitors,
         flow[m].at # "saving" \/ flow'[m] = flow[m],
         \A n \in Monitors : n # m => flow'[n] = flow[n],
         \A r \in results' : r \notin results => r.monitor = m /\ flow[m].at # "saving"
  PROVE  WritesOK'
<1>1. ASSUME NEW i \in DOMAIN writes PROVE WriteGood(writes[i])'
  <2>1. PICK w \in Writes : w = writes[i] /\ WriteGood(w) /\ writes'[i] = w
    BY Chain DEF WritesOK
  <2>2. flow'[w.monitor] = flow[w.monitor] /\ w.monitor \in Monitors
    BY <2>1 DEF WriteGood, Writes
  <2>3. \A r \in results' : r \notin results => r.monitor # w.monitor
    BY <2>1 DEF WriteGood
  <2>4. WriteGood(w)'
    BY <2>1, <2>2, <2>3, WriteKept
  <2> QED
    BY <2>1, <2>4
<1> QED
  BY <1>1 DEF WritesOK

LEMMA WritesGrow ==
  ASSUME TypeOK, TypeOK', Growing, WritesOK, NEW w \in Writes, writes' = Append(writes, w),
         flow[w.monitor].at # "saving", WriteGood(w)', UNCHANGED results,
         \A n \in Monitors : n # w.monitor => flow'[n] = flow[n]
  PROVE  WritesOK'
<1>1. /\ DOMAIN writes = 1..Len(writes) /\ DOMAIN writes' = 1..(Len(writes) + 1) /\ Len(writes) \in Nat
      /\ \A i \in 1..Len(writes) : writes'[i] = writes[i]
      /\ writes'[Len(writes) + 1] = w
  BY DEF TypeOK, Writes
<1>2. \A i \in DOMAIN writes : writes[i] \in Writes /\ writes[i].monitor # w.monitor
  BY Chain DEF WritesOK, WriteGood
<1>3. \A i \in DOMAIN writes : WriteGood(writes[i])'
  <2> SUFFICES ASSUME NEW i \in DOMAIN writes PROVE WriteGood(writes[i])'
    OBVIOUS
  <2>1. PICK x \in Writes :
           x = writes[i] /\ WriteGood(x) /\ x.monitor # w.monitor /\ writes'[i] = x
    BY <1>1, <1>2 DEF WritesOK
  <2>2. flow'[x.monitor] = flow[x.monitor]
    BY <2>1 DEF Writes
  <2>3. WriteGood(x)'
    BY <2>1, <2>2, WriteKept
  <2> QED
    BY <2>1, <2>3
<1>4. \A i \in DOMAIN writes' : WriteGood(writes[i])'
  <2> SUFFICES ASSUME NEW i \in DOMAIN writes' PROVE WriteGood(writes[i])'
    OBVIOUS
  <2>1. CASE i = Len(writes) + 1
    BY <1>1, <2>1
  <2>2. CASE i # Len(writes) + 1
    <3>1. i \in DOMAIN writes
      BY <1>1, <2>2
    <3> QED
      BY <1>3, <3>1
  <2> QED
    BY <2>1, <2>2
<1>5. \A i, j \in DOMAIN writes' : writes'[i].monitor = writes'[j].monitor => i = j
  BY <1>1, <1>2 DEF WritesOK
<1> QED
  BY <1>4, <1>5 DEF WritesOK

\* A drain moves on; it may have its monitor's record saved.
LEMMA MonitorMoves ==
  ASSUME IInv, TypeOK', Growing, NEW m \in Monitors, UNCHANGED <<record, disk, results>>,
         flow[m].at # "saving", \A n \in Monitors : n # m => flow'[n] = flow[n], FlowGood(m)',
         \/ UNCHANGED writes
         \/ \E w \in Writes : w.monitor = m /\ writes' = Append(writes, w) /\ WriteGood(w)'
  PROVE  IInv'
<1>0. TypeOK /\ RecordsOK /\ WritesOK /\ FlowOK /\ ResultsOK /\ ToldOnce
  BY DEF IInv
<1>1. RecordsOK'
  <2>1. ASSUME NEW n \in Monitors, record'[n] # None PROVE Good(n, record[n])'
    <3>1. record[n] \in Records /\ Good(n, record[n]) /\ record'[n] = record[n]
      BY <1>0, <2>1 DEF TypeOK, RecordsOK
    <3> QED
      BY <1>0, <3>1, GoodKept
  <2> QED
    BY <1>0, <2>1 DEF RecordsOK
<1>2. WritesOK'
  BY <1>0, WritesKept, WritesGrow
<1>3. FlowOK'
  BY <1>0, FlowKept DEF FlowOK
<1>4. ResultsOK'
  BY <1>0, ResultsKept
<1>5. ToldOnce'
  BY <1>0 DEF ToldOnce
<1> QED
  BY <1>1, <1>2, <1>3, <1>4, <1>5 DEF IInv

\* Nothing moves but the world and the clock.
LEMMA NothingMoves ==
  ASSUME IInv, TypeOK', Growing, UNCHANGED <<record, disk, writes, flow, results>>
  PROVE  IInv'
<1>0. TypeOK /\ RecordsOK /\ WritesOK /\ FlowOK /\ ResultsOK /\ ToldOnce
  BY DEF IInv
<1>1. RecordsOK'
  <2>1. ASSUME NEW n \in Monitors, record'[n] # None PROVE Good(n, record[n])'
    <3>1. record[n] \in Records /\ Good(n, record[n]) /\ record'[n] = record[n]
      BY <1>0, <2>1 DEF TypeOK, RecordsOK
    <3> QED
      BY <1>0, <3>1, GoodKept
  <2> QED
    BY <1>0, <2>1 DEF RecordsOK
<1>2. WritesOK'
  <2>1. ASSUME NEW i \in DOMAIN writes PROVE WriteGood(writes[i])'
    <3>1. PICK w \in Writes : w = writes[i] /\ WriteGood(w) /\ writes'[i] = w
      BY <1>0, Chain DEF WritesOK
    <3>2. WriteGood(w)'
      BY <1>0, <3>1, WriteKept
    <3> QED
      BY <3>1, <3>2
  <2> QED
    BY <1>0, <2>1 DEF WritesOK
<1>3. FlowOK'
  BY <1>0, FlowKept DEF FlowOK
<1>4. ResultsOK'
  BY <1>0, ResultsKept
<1>5. ToldOnce'
  BY <1>0 DEF ToldOnce
<1> QED
  BY <1>1, <1>2, <1>3, <1>4, <1>5 DEF IInv

-------------------------------------------------------------------------------
(***************************************************************************)
(* Types.                                                                  *)
(***************************************************************************)

LEMMA TypeInit == Init => TypeOK
<1> SUFFICES ASSUME Init PROVE TypeOK
  OBVIOUS
<1>1. /\ head \in [Sources -> Nat] /\ fresh \in [Monitors -> Nat] /\ waiting = {} /\ unfinished = {}
      /\ results = {} /\ handled = {}
  BY DEF Init
<1>2. config \in [Monitors -> [source : Sources, paused : BOOLEAN]]
  BY MonitorAssumption DEF Init, MonitorAssumption
<1>3. record \in [Monitors -> Records \cup {None}] /\ writes \in Seq(Writes)
  BY DEF Init
<1>4. flow \in [Monitors -> {Rest} \cup Flows]
  BY DEF Init
<1> QED
  BY <1>1, <1>2, <1>3, <1>4 DEF TypeOK, Flows, Writes

\* One more write in the chain.
LEMMA Saved ==
  ASSUME TypeOK, NEW m \in Monitors, NEW rec \in Records, NEW b \in BOOLEAN, Save(m, rec, b)
  PROVE  /\ writes' \in Seq(Writes)
         /\ \E w \in Writes : w.monitor = m /\ w.record = rec /\ writes' = Append(writes, w)
<1> DEFINE w == [monitor |-> m, record |-> rec, retry |-> b]
<1>1. w \in Writes /\ w.monitor = m /\ w.record = rec
  BY DEF Writes
<1>2. writes \in Seq(Writes)
  BY DEF TypeOK, Writes
<1>3. writes' = Append(writes, w)
  BY DEF Save
<1> HIDE DEF w
<1>4. writes' \in Seq(Writes)
  BY <1>1, <1>2, <1>3
<1> QED
  BY <1>1, <1>3, <1>4

LEMMA Listed ==
  ASSUME NEW S, NEW n \in Nat, NEW e \in [1..n -> S]
  PROVE  e \in Seq(S) /\ Len(e) = n
  OBVIOUS

\* What a probe of a source finds after a cursor.
LEMMA Found ==
  ASSUME TypeOK, NEW s \in Sources, NEW c \in Nat, c <= head[s]
  PROVE  /\ EventsAfter(s, c) \in Seq(SourceEvents) /\ Len(EventsAfter(s, c)) = head[s] - c
         /\ \A i \in 1..(head[s] - c) : EventsAfter(s, c)[i] = Event(s, c + i)
         /\ EventsAfter(s, c) = <<>> <=> head[s] = c
<1>1. head[s] \in Nat /\ head[s] - c \in Nat
  BY DEF TypeOK
<1>2. \A i \in 1..(head[s] - c) : c + i \in Nat /\ [source |-> s, number |-> c + i] \in SourceEvents
  BY <1>1 DEF SourceEvents
<1> DEFINE e == [i \in 1..(head[s] - c) |-> [source |-> s, number |-> c + i]]
<1>3. e \in Seq(SourceEvents) /\ Len(e) = head[s] - c
  <2>1. e \in [1..(head[s] - c) -> SourceEvents]
    BY <1>2
  <2> HIDE DEF e
  <2> QED
    BY <1>1, <2>1, Listed
<1>4. e = <<>> <=> Len(e) = 0
  BY <1>3, EmptySeq
<1> QED
  BY <1>1, <1>3, <1>4 DEF EventsAfter, Event

-------------------------------------------------------------------------------
(***************************************************************************)
(* The steps of a drain.                                                   *)
(***************************************************************************)

LEMMA Parts == IInv => TypeOK /\ RecordsOK /\ WritesOK /\ FlowOK /\ ResultsOK /\ ToldOnce
  BY DEF IInv

\* What grows or stays grows.
LEMMA Grows ==
  ASSUME TypeOK, UNCHANGED <<head, fresh, handled, results>>
  PROVE  Growing
  BY DEF TypeOK, Growing

\* The moves of a drain that leave the chain alone.
LEMMA QuietMove ==
  ASSUME IInv, NEW m \in Monitors, NEW f \in {Rest} \cup Flows, GoesTo(m, f), flow[m].at # "saving",
         UNCHANGED <<outside, gate, unfinished, results, fresh>>,
         handled \subseteq handled', handled' \subseteq Monitors \X SourceEvents, FlowGood(m)'
  PROVE  IInv'
<1>1. TypeOK
  BY Parts
<1>2. /\ flow' \in [Monitors -> {Rest} \cup Flows]
      /\ \A n \in Monitors : n # m => flow'[n] = flow[n]
  BY <1>1, FlowMoved
<1>3. TypeOK'
  BY <1>1, <1>2 DEF TypeOK, Flows, outside, gate
<1>4. Growing
  BY <1>1 DEF Growing, TypeOK, outside
<1> QED
  BY <1>2, <1>3, <1>4, MonitorMoves DEF gate

\* The moves that ask for a write.
LEMMA SavingMove ==
  ASSUME IInv, NEW m \in Monitors, NEW f \in Flows, GoesTo(m, f), f.at = "saving",
         flow[m].at # "saving", NEW rec \in Records, NEW b \in BOOLEAN, Save(m, rec, b),
         UNCHANGED <<outside, record, disk, waiting, unfinished, results, handled>>,
         fresh' \in [Monitors -> Nat], \A n \in Monitors : fresh[n] <= fresh'[n],
         Good(m, rec)', f.change # None /\ ~f.over => rec.pending # None /\ f.change = Batch(rec.pending)
  PROVE  IInv'
<1>1. TypeOK
  BY Parts
<1>2. /\ flow' \in [Monitors -> {Rest} \cup Flows] /\ flow'[m] = f
      /\ \A n \in Monitors : n # m => flow'[n] = flow[n]
  BY <1>1, FlowMoved
<1>3. PICK w \in Writes : w.monitor = m /\ w.record = rec /\ writes' = Append(writes, w)
  BY <1>1, Saved
<1>8. writes' \in Seq(Writes)
  BY <1>1, Saved
<1>4. TypeOK'
  BY <1>1, <1>2, <1>8 DEF TypeOK, Flows, Writes, outside
<1>5. Growing
  BY <1>1 DEF Growing, TypeOK, outside
<1>6. WriteGood(w)'
  BY <1>2, <1>3 DEF WriteGood
<1>7. FlowGood(m)'
  BY <1>2 DEF FlowGood
<1> QED
  BY <1>2, <1>3, <1>4, <1>5, <1>6, <1>7, MonitorMoves

LEMMA RestGood ==
  ASSUME NEW m \in Monitors, flow'[m] = Rest
  PROVE  FlowGood(m)'
  BY DEF FlowGood, Rest

LEMMA DrainStep == ASSUME IInv, NEW m \in Monitors, Drain(m) PROVE IInv'
<1> DEFINE f == [at |-> "marking", source |-> config[m].source, change |-> None, over |-> FALSE]
<1>1. TypeOK /\ flow[m].at # "saving"
  BY Parts DEF Drain, Rest
<1>2. f \in Flows
  BY <1>1 DEF TypeOK, Flows, Stages
<1>3. GoesTo(m, f) /\ UNCHANGED <<outside, gate, unfinished, results, handled, fresh>>
  BY DEF Drain
<1>4. f.at = "marking" /\ f.change = None /\ ~f.over
  OBVIOUS
<1> HIDE DEF f
<1>5. flow'[m] = f
  BY <1>1, <1>2, <1>3, FlowMoved
<1>6. FlowGood(m)'
  BY <1>4, <1>5 DEF FlowGood
<1>7. handled' \subseteq Monitors \X SourceEvents
  BY <1>1, <1>3 DEF TypeOK
<1> QED
  BY <1>1, <1>2, <1>3, <1>6, <1>7, QuietMove

LEMMA CheckStep == ASSUME IInv, NEW m \in Monitors, Check(m) PROVE IInv'
<1> DEFINE rec == Known(m, flow[m].source)
           f == IF m \in waiting /\ rec = record[m] THEN Rest
                ELSE IF rec.pending # None
                     THEN [flow[m] EXCEPT !.at = "checked", !.change = Batch(rec.pending)]
                     ELSE [flow[m] EXCEPT !.at = "probing"]
<1>1. /\ TypeOK /\ flow[m].at = "marking" /\ GoesTo(m, f)
      /\ UNCHANGED <<outside, gate, unfinished, results, handled, fresh>>
  BY Parts DEF Check
<1>2. flow[m] \in Flows /\ flow[m].source \in Sources
  BY <1>1, Draining DEF Flows
<1>3. flow[m].change = None /\ ~flow[m].over
  BY <1>1, Parts DEF FlowOK, FlowGood
<1>4. rec \in Records /\ (rec.pending # None => rec = record[m] /\ record[m] # None)
  BY <1>1, <1>2, KnownOK
<1>5. rec.pending # None => rec.pending \in Outboxes
  BY <1>4 DEF Records
<1>6. handled' \subseteq Monitors \X SourceEvents
  BY <1>1 DEF TypeOK
<1>7. UNCHANGED record
  BY <1>1 DEF gate
<1> HIDE DEF rec
<1>8. CASE m \in waiting /\ rec = record[m]
  <2>1. f = Rest /\ Rest \in {Rest} \cup Flows
    BY <1>8
  <2>2. FlowGood(m)'
    BY <1>1, <2>1, FlowMoved, RestGood
  <2> HIDE DEF f
  <2> QED
    BY <1>1, <1>6, <2>1, <2>2, QuietMove
<1>9. CASE ~(m \in waiting /\ rec = record[m]) /\ rec.pending # None
  <2>0. f = [flow[m] EXCEPT !.at = "checked", !.change = Batch(rec.pending)]
    BY <1>9
  <2> HIDE DEF f
  <2>4. Batch(rec.pending) \in Changes /\ "checked" \in Stages
    BY <1>5, <1>9, Batches DEF Stages
  <2>1. /\ f \in Flows /\ f.at = "checked" /\ f.change = Batch(rec.pending) /\ f.over = flow[m].over
    BY <1>2, <2>0, <2>4 DEF Flows
  <2>2. flow'[m] = f
    BY <1>1, <2>1, FlowMoved
  <2>3. FlowGood(m)'
    BY <1>3, <1>4, <1>7, <1>9, <2>1, <2>2 DEF FlowGood, Offered
  <2> QED
    BY <1>1, <1>6, <2>1, <2>3, QuietMove
<1>10. CASE ~(m \in waiting /\ rec = record[m]) /\ rec.pending = None
  <2>0. f = [flow[m] EXCEPT !.at = "probing"] /\ "probing" \in Stages
    BY <1>10 DEF Stages
  <2> HIDE DEF f
  <2>1. /\ f \in Flows /\ f.at = "probing" /\ f.change = None /\ ~f.over /\ f.source = flow[m].source
    BY <1>2, <1>3, <2>0, Moving
  <2>2. flow'[m] = f
    BY <1>1, <2>1, FlowMoved
  <2>3. Known(m, flow[m].source)' = rec
    BY <1>7, <2>1, <2>2 DEF Known, rec
  <2>4. FlowGood(m)'
    BY <1>10, <2>1, <2>2, <2>3 DEF FlowGood
  <2> QED
    BY <1>1, <1>6, <2>1, <2>4, QuietMove
<1> QED
  BY <1>8, <1>9, <1>10

\* What a monitor knows of the source it looks at is good.
LEMMA KnownGood ==
  ASSUME IInv, NEW m \in Monitors, NEW s \in Sources
  PROVE  Good(m, Known(m, s))
<1>1. TypeOK /\ RecordsOK
  BY Parts
<1>2. CASE Known(m, s) = NoRecord(s)
  BY <1>2 DEF NoRecord, Good, CursorOK, HandedOn, NotAhead, Named
<1>3. CASE Known(m, s) = record[m] /\ record[m] # None
  BY <1>1, <1>3 DEF RecordsOK
<1> QED
  BY <1>1, <1>2, <1>3, KnownOK

\* The new outbox: what happened after the cursor, under an id that was never used.
LEMMA NewOutbox ==
  ASSUME TypeOK, ResultsOK, NEW m \in Monitors, NEW rec \in Records, Good(m, rec), rec.cursor # None,
         rec.pending = None, EventsAfter(rec.source, rec.cursor) # <<>>,
         UNCHANGED <<head, results, handled>>, fresh'[m] = fresh[m] + 1,
         NEW p, p.id = fresh[m], p.events = EventsAfter(rec.source, rec.cursor),
         p.cursor = head[rec.source], p # None,
         NEW x, x.source = rec.source, x.cursor = rec.cursor, x.base = rec.base, x.pending = p
  PROVE  Good(m, x)'
<1>1. /\ rec.source \in Sources /\ rec.cursor \in Nat /\ rec.base \in Nat
      /\ rec.base <= rec.cursor /\ rec.cursor <= head[rec.source] /\ head[rec.source] \in Nat
      /\ fresh[m] \in Nat /\ fresh'[m] = fresh[m] + 1
  BY DEF Records, TypeOK, Good, CursorOK
<1>2. /\ p.events \in Seq(SourceEvents) /\ Len(p.events) = head[rec.source] - rec.cursor
      /\ \A i \in 1..Len(p.events) : p.events[i] = Event(rec.source, rec.cursor + i)
      /\ head[rec.source] # rec.cursor /\ p.id = fresh[m] /\ p.cursor = head[rec.source]
  BY <1>1, Found
<1>4. p # None
  OBVIOUS
<1>5. x.pending = p /\ x.cursor = rec.cursor /\ x.base = rec.base /\ x.source = rec.source
  OBVIOUS
<1>6. Front(p) = rec.cursor /\ Len(p.events) > 0
  BY <1>1, <1>2 DEF Front
<1>7. CursorOK(m, x)'
  <2>1. OutboxOK(m, x)'
    <3>1. /\ x.cursor # None /\ Len(p.events) > 0 /\ p.id < fresh'[m]
          /\ x.cursor <= Front(p) /\ p.cursor <= head'[x.source]
      BY <1>1, <1>2, <1>5, <1>6, MonitorAssumption DEF MonitorAssumption
    <3>2. \A i \in 1..Len(p.events) : p.events[i] = Event(x.source, Front(p) + i)
      BY <1>2, <1>5, <1>6
    <3> QED
      BY <1>5, <3>1, <3>2 DEF OutboxOK
  <2> QED
    BY <1>1, <1>5, <2>1, MonitorAssumption DEF CursorOK, MonitorAssumption
<1>8. HandedOn(m, x)'
  <2>1. Reached(x) = Reached(rec)
    BY <1>4, <1>5, <1>6 DEF Reached
  <2>2. \A e : Delivered(m, e) => Delivered(m, e)'
    BY DEF Delivered
  <2> QED
    BY <1>5, <2>1, <2>2 DEF Good, HandedOn
<1>9. NotAhead(m, x)'
  <2>1. Reached(x) = Reached(rec)
    BY <1>4, <1>5, <1>6 DEF Reached
  <2> QED
    BY <1>5, <2>1 DEF Good, NotAhead
<1>10. Named(m, x)'
  <2>1. \A r \in results : r.monitor = m => r.key # <<m, p.id>>
    BY <1>1, <1>2 DEF ResultsOK
  <2> QED
    BY <1>5, <2>1 DEF Named
<1> QED
  BY <1>7, <1>8, <1>9, <1>10 DEF Good

\* The first snapshot, and one that finds nothing new.
LEMMA NewCursor ==
  ASSUME TypeOK, ResultsOK, NEW m \in Monitors, NEW rec \in Records, Good(m, rec), rec.pending = None,
         rec.cursor = None \/ rec.cursor = head[rec.source], UNCHANGED <<head, results, handled, fresh>>,
         NEW x, x = [rec EXCEPT !.cursor = head[rec.source],
                                !.base = IF rec.cursor = None THEN head[rec.source] ELSE @]
  PROVE  x \in Records /\ Good(m, x)'
<1>1. /\ rec.source \in Sources /\ head[rec.source] \in Nat /\ head[rec.source] # None
      /\ rec.cursor \in Nat \cup {None} /\ rec.base \in Nat \cup {None}
  BY MonitorAssumption DEF Records, TypeOK, MonitorAssumption
<1>2. /\ x \in Records /\ x.cursor = head[rec.source] /\ x.pending = None /\ x.source = rec.source
      /\ x.base = IF rec.cursor = None THEN head[rec.source] ELSE rec.base
  BY <1>1 DEF Records
<1>3. x.base \in Nat /\ x.base <= head[rec.source] /\ x.base # None
  BY <1>1, <1>2, MonitorAssumption DEF Good, CursorOK, MonitorAssumption
<1>4. CursorOK(m, x)'
  BY <1>1, <1>2, <1>3 DEF CursorOK
<1>5. HandedOn(m, x)'
  <2>1. Reached(x) = head[rec.source]
    BY <1>2 DEF Reached
  <2>2. \A e : Delivered(m, e) => Delivered(m, e)'
    BY DEF Delivered
  <2>3. CASE rec.cursor = None
    BY <1>1, <1>2, <2>1, <2>3 DEF HandedOn
  <2>4. CASE rec.cursor = head[rec.source]
    <3>1. rec.cursor # None /\ Reached(rec) = head[rec.source] /\ x.base = rec.base
      BY <1>1, <1>2, <2>4 DEF Reached
    <3> QED
      BY <1>2, <2>1, <2>2, <3>1 DEF Good, HandedOn
  <2> QED
    BY <2>3, <2>4
<1>6. NotAhead(m, x)'
  <2>1. Reached(x) = head[rec.source]
    BY <1>2 DEF Reached
  <2>2. \A r \in results : \A e \in r.events : e.source = rec.source => e.number <= head[rec.source]
    BY DEF ResultsOK
  <2> QED
    BY <1>2, <2>1, <2>2 DEF NotAhead
<1>7. Named(m, x)'
  BY <1>2 DEF Named
<1> QED
  BY <1>2, <1>4, <1>5, <1>6, <1>7 DEF Good

LEMMA ProbeAnswersStep == ASSUME IInv, NEW m \in Monitors, ProbeAnswers(m) PROVE IInv'
<1>1. /\ TypeOK /\ ResultsOK /\ flow[m].at = "probing"
      /\ UNCHANGED <<outside, record, disk, waiting, unfinished, results, handled>>
      /\ UNCHANGED head
  BY Parts DEF ProbeAnswers, outside
<1>2. flow[m] \in Flows /\ flow[m].source \in Sources
  BY <1>1, Draining DEF Flows
<1>3. flow[m].change = None /\ ~flow[m].over /\ Known(m, flow[m].source).pending = None
  BY <1>1, Parts DEF FlowOK, FlowGood
<1>4. PICK rec \in Records :
         rec = Known(m, flow[m].source) /\ rec.source \in Sources /\ Good(m, rec) /\ rec.pending = None
  BY <1>1, <1>2, <1>3, KnownOK, KnownGood
<1> DEFINE found == EventsAfter(rec.source, rec.cursor)
<1>5. CASE rec.cursor = None \/ found = <<>>
  <2>1. PICK x : x = [rec EXCEPT !.cursor = head[rec.source],
                                 !.base = IF rec.cursor = None THEN head[rec.source] ELSE @]
    OBVIOUS
  <2>2. PICK f : f = [flow[m] EXCEPT !.at = "saving"]
    OBVIOUS
  <2>3. Save(m, x, FALSE) /\ GoesTo(m, f) /\ UNCHANGED fresh
    BY <1>4, <1>5, <2>1, <2>2 DEF ProbeAnswers
  <2>4. rec.cursor = None \/ rec.cursor = head[rec.source]
    <3>1. rec.cursor # None => rec.cursor \in Nat /\ rec.cursor <= head[rec.source]
      BY <1>4 DEF Records, Good, CursorOK
    <3> QED
      BY <1>1, <1>4, <1>5, <3>1, Found
  <2>5. f \in Flows /\ f.at = "saving" /\ f.change = None
    BY <1>2, <1>3, <2>2, Moving DEF Stages
  <2>6. fresh' \in [Monitors -> Nat] /\ \A n \in Monitors : fresh[n] <= fresh'[n]
    BY <1>1, <2>3 DEF TypeOK
  <2>7. x \in Records /\ Good(m, x)'
    BY <1>1, <1>4, <2>1, <2>3, <2>4, NewCursor
  <2> QED
    BY <1>1, <2>3, <2>5, <2>6, <2>7, SavingMove
<1>6. CASE rec.cursor # None /\ found # <<>>
  <2>1. PICK p : p = [id |-> fresh[m], events |-> found, cursor |-> head[rec.source]]
    OBVIOUS
  <2>2. PICK x : x = [rec EXCEPT !.pending = p]
    OBVIOUS
  <2>3. PICK f : f = [flow[m] EXCEPT !.at = "saving", !.change = Batch(p)]
    OBVIOUS
  <2>4. Save(m, x, FALSE) /\ GoesTo(m, f) /\ fresh' = [fresh EXCEPT ![m] = @ + 1]
    BY <1>4, <1>6, <2>1, <2>2, <2>3 DEF ProbeAnswers
  <2>5. fresh' \in [Monitors -> Nat] /\ \A n \in Monitors : fresh[n] <= fresh'[n]
    BY <1>1, <2>4 DEF TypeOK
  <2>6. p \in Outboxes /\ p # None /\ x \in Records /\ x.pending = p /\ Good(m, x)'
    <3>1. rec.cursor \in Nat /\ rec.cursor <= head[rec.source]
      BY <1>4, <1>6 DEF Records, Good, CursorOK
    <3>2. found \in Seq(SourceEvents) /\ fresh[m] \in Nat /\ head[rec.source] \in Nat
      BY <1>1, <1>4, <3>1, Found DEF TypeOK
    <3>3. /\ EventsAfter(rec.source, rec.cursor) # <<>> /\ p.id = fresh[m]
          /\ p.events = EventsAfter(rec.source, rec.cursor)
          /\ p.cursor = head[rec.source]
      BY <1>6, <2>1
    <3> HIDE DEF found
    <3>4. p \in Outboxes
      BY <2>1, <3>2 DEF Outboxes
    <3>5. p # None
      BY <3>4, MonitorAssumption DEF MonitorAssumption
    <3>6. /\ x \in Records /\ x.source = rec.source /\ x.cursor = rec.cursor /\ x.base = rec.base
          /\ x.pending = p
      BY <2>2, <3>4 DEF Records
    <3>7. fresh'[m] = fresh[m] + 1 /\ UNCHANGED <<head, results, handled>>
      BY <1>1, <2>4 DEF TypeOK
    <3>9. Good(m, x)'
      BY <1>1, <1>4, <1>6, <3>3, <3>5, <3>6, <3>7, NewOutbox
    <3> QED
      BY <3>4, <3>5, <3>6, <3>9
  <2>7. Batch(p) \in Changes /\ "saving" \in Stages
    BY <2>6, Batches DEF Stages
  <2>8. f \in Flows /\ f.at = "saving" /\ f.change = Batch(p)
    BY <1>2, <2>3, <2>7 DEF Flows
  <2> QED
    BY <1>1, <2>4, <2>5, <2>6, <2>8, SavingMove
<1> QED
  BY <1>5, <1>6

\* Where nothing that records speak of has changed, a good record is good.
LEMMA GoodStill ==
  ASSUME UNCHANGED <<head, results, handled, fresh>>, NEW m, NEW rec, Good(m, rec)
  PROVE  Good(m, rec)'
  BY DEF Good, CursorOK, OutboxOK, HandedOn, NotAhead, Named, Delivered

LEMMA ProbeFailsStep == ASSUME IInv, NEW m \in Monitors, ProbeFails(m) PROVE IInv'
<1>1. /\ TypeOK /\ flow[m].at = "probing"
      /\ UNCHANGED <<outside, record, disk, waiting, unfinished, results, handled, fresh>>
      /\ UNCHANGED head
  BY Parts DEF ProbeFails, outside
<1>2. flow[m] \in Flows /\ flow[m].source \in Sources
  BY <1>1, Draining DEF Flows
<1>3. flow[m].change = None
  BY <1>1, Parts DEF FlowOK, FlowGood
<1>4. PICK rec \in Records : rec = Known(m, flow[m].source) /\ Good(m, rec)
  BY <1>1, <1>2, KnownOK, KnownGood
<1>5. PICK f : f = [flow[m] EXCEPT !.at = "saving"]
  OBVIOUS
<1>6. f \in Flows /\ f.at = "saving" /\ f.change = None
  BY <1>2, <1>3, <1>5, Moving DEF Stages
<1>7. Save(m, rec, TRUE) /\ GoesTo(m, f)
  BY <1>4, <1>5 DEF ProbeFails
<1>8. fresh' \in [Monitors -> Nat] /\ \A n \in Monitors : fresh[n] <= fresh'[n]
  BY <1>1 DEF TypeOK
<1>9. Good(m, rec)'
  BY <1>1, <1>4, GoodStill
<1> QED
  BY <1>1, <1>4, <1>6, <1>7, <1>8, <1>9, SavingMove

LEMMA RecheckStep == ASSUME IInv, NEW m \in Monitors, Recheck(m) PROVE IInv'
<1>1. /\ TypeOK /\ flow[m].at = "checked" /\ UNCHANGED record
      /\ UNCHANGED <<outside, gate, unfinished, results, handled, fresh>>
  BY Parts DEF Recheck, gate
<1>2. flow[m] \in Flows /\ Offered(m)
  BY <1>1, Parts, Draining DEF FlowOK, FlowGood
<1>3. handled' \subseteq Monitors \X SourceEvents
  BY <1>1 DEF TypeOK
<1>4. CASE GoesTo(m, Rest)
  <2>1. FlowGood(m)'
    BY <1>1, <1>4, FlowMoved, RestGood
  <2> QED
    BY <1>1, <1>3, <1>4, <2>1, QuietMove
<1>5. CASE GoesTo(m, [flow[m] EXCEPT !.at = IF m \in Evaluated THEN "running" ELSE "queueing"])
  <2>1. PICK a \in Stages : a = IF m \in Evaluated THEN "running" ELSE "queueing"
    BY DEF Stages
  <2>2. PICK f : f = [flow[m] EXCEPT !.at = a]
    OBVIOUS
  <2>3. f \in Flows /\ f.at = a /\ f.change = flow[m].change /\ f.over = flow[m].over
    BY <1>2, <2>2, Moving
  <2>4. GoesTo(m, f)
    BY <1>5, <2>1, <2>2
  <2>5. flow'[m] = f
    BY <1>1, <2>3, <2>4, FlowMoved
  <2>6. FlowGood(m)'
    BY <1>1, <1>2, <2>1, <2>3, <2>5 DEF FlowGood, Offered
  <2> QED
    BY <1>1, <1>3, <2>3, <2>4, <2>6, QuietMove
<1> QED
  BY <1>4, <1>5 DEF Recheck

LEMMA NotStartedStep == ASSUME IInv, NEW m \in Monitors, NotStarted(m) PROVE IInv'
<1>1. /\ TypeOK /\ flow[m].at = "running" /\ GoesTo(m, Rest)
      /\ UNCHANGED <<outside, gate, unfinished, results, handled, fresh>>
  BY Parts DEF NotStarted
<1>2. FlowGood(m)' /\ handled' \subseteq Monitors \X SourceEvents
  BY <1>1, FlowMoved, RestGood DEF TypeOK
<1> QED
  BY <1>1, <1>2, QuietMove

\* What a change holds are events of sources.
LEMMA Held ==
  ASSUME NEW c \in Changes
  PROVE  Events(c.events) \subseteq SourceEvents /\ c.id \in Nat
<1>1. c.events \in Seq(SourceEvents) /\ c.id \in Nat
  BY DEF Changes
<1> QED
  BY <1>1 DEF Events

LEMMA RunEndsStep == ASSUME IInv, NEW m \in Monitors, RunEnds(m) PROVE IInv'
<1>1. /\ TypeOK /\ flow[m].at = "running" /\ UNCHANGED record
      /\ UNCHANGED <<outside, gate, unfinished, results, fresh>>
  BY Parts DEF RunEnds, gate
<1>2. flow[m] \in Flows /\ Offered(m) /\ m \in Evaluated
  BY <1>1, Parts, Draining DEF FlowOK, FlowGood
<1>3. PICK c \in Changes : c = flow[m].change
  <2>1. record[m].pending \in Outboxes
    BY <1>1, <1>2 DEF TypeOK, Records, Offered
  <2> QED
    BY <1>2, <2>1, Batches DEF Offered
<1>4. handled' = handled \cup {<<m, e>> : e \in Events(c.events)}
  BY <1>3 DEF RunEnds
<1>5. handled \subseteq handled' /\ handled' \subseteq Monitors \X SourceEvents
  BY <1>1, <1>4, Held DEF TypeOK
<1>6. PICK f : f = [flow[m] EXCEPT !.at = "completing"]
  OBVIOUS
<1>7. /\ f \in Flows /\ f.at = "completing" /\ f.change = flow[m].change /\ f.over = flow[m].over
  BY <1>2, <1>6, Moving DEF Stages
<1>8. GoesTo(m, f) /\ flow'[m] = f
  <2>1. GoesTo(m, f)
    BY <1>6 DEF RunEnds
  <2> QED
    BY <1>1, <1>7, <2>1, FlowMoved
<1>9. \A e \in Events(c.events) : Delivered(m, e)'
  BY <1>2, <1>4 DEF Delivered
<1>10. FlowGood(m)'
  BY <1>1, <1>2, <1>3, <1>7, <1>8, <1>9 DEF FlowGood, Offered
<1> QED
  BY <1>1, <1>5, <1>7, <1>8, <1>10, QuietMove

\* What a batch holds lies between the front of its outbox and its cursor.
LEMMA BatchLies ==
  ASSUME TypeOK, NEW m \in Monitors, NEW rec \in Records, rec.pending # None, OutboxOK(m, rec)
  PROVE  \A e \in Events(Batch(rec.pending).events) :
            /\ e \in SourceEvents /\ e.source = rec.source
            /\ Front(rec.pending) < e.number /\ e.number <= head[rec.source]
            /\ e.number <= Front(rec.pending) + BatchLen(rec.pending)
<1> DEFINE p == rec.pending
<1>1. p \in Outboxes /\ rec.source \in Sources
  BY DEF Records
<1>2. head[rec.source] \in Nat /\ p.cursor \in Nat /\ Len(p.events) \in Nat
  BY <1>1 DEF TypeOK, Outboxes
<1>3. /\ BatchLen(p) \in Nat /\ BatchLen(p) <= Len(p.events)
      /\ Batch(p).events \in Seq(SourceEvents) /\ Len(Batch(p).events) = BatchLen(p)
      /\ \A i \in 1..BatchLen(p) : Batch(p).events[i] = p.events[i]
  BY <1>1, Batches
<1>4. /\ p.cursor <= head[rec.source]
      /\ \A i \in 1..Len(p.events) : p.events[i] = Event(rec.source, Front(p) + i)
  BY DEF OutboxOK
<1> SUFFICES ASSUME NEW i \in 1..BatchLen(p)
             PROVE  /\ Batch(p).events[i] \in SourceEvents
                    /\ Batch(p).events[i].source = rec.source
                    /\ Front(p) < Batch(p).events[i].number
                    /\ Batch(p).events[i].number <= head[rec.source]
                    /\ Batch(p).events[i].number <= Front(p) + BatchLen(p)
  BY <1>3 DEF Events
<1> HIDE DEF p
<1>5. i \in 1..Len(p.events) /\ i \in Nat
  BY <1>2, <1>3
<1>6. Batch(p).events[i] = Event(rec.source, Front(p) + i)
  BY <1>3, <1>4, <1>5
<1>7. Batch(p).events[i] \in SourceEvents
  BY <1>3
<1>8. Batch(p).events[i].source = rec.source /\ Batch(p).events[i].number = Front(p) + i
  BY <1>6 DEF Event
<1>9. Front(p) \in Int /\ Front(p) = p.cursor - Len(p.events)
  BY <1>2 DEF Front
<1>10. i <= BatchLen(p)
  BY <1>3
<1> QED
  BY <1>2, <1>3, <1>4, <1>5, <1>7, <1>8, <1>9, <1>10

\* The batch of an outbox is told: it is a result already, or it becomes one.
LEMMA Telling ==
  ASSUME IInv, NEW m \in Monitors, flow[m].at = "queueing", results' \in {results, Queued(m)},
         UNCHANGED <<outside, gate, unfinished, handled, fresh>>,
         NEW f \in {Rest} \cup Flows, GoesTo(m, f), FlowGood(m)'
  PROVE  IInv'
<1>1. /\ TypeOK /\ RecordsOK /\ WritesOK /\ FlowOK /\ ResultsOK /\ ToldOnce
      /\ UNCHANGED <<head, fresh, handled, record, disk, writes>>
  BY Parts DEF outside, gate
<1>2. Offered(m)
  BY <1>1 DEF FlowOK, FlowGood
<1>3. PICK rec \in Records :
         rec = record[m] /\ Good(m, rec) /\ rec.pending # None /\ rec.pending \in Outboxes
  BY <1>1, <1>2 DEF TypeOK, RecordsOK, Offered, Records
<1> DEFINE p == rec.pending
           b == Batch(p)
           r0 == [key |-> <<m, p.id>>, monitor |-> m, events |-> Events(b.events)]
<1>4. flow[m].change = b /\ b \in Changes /\ b.id = p.id /\ p.id \in Nat
  BY <1>2, <1>3, Batches DEF Offered, Outboxes
<1>5. \A e \in Events(b.events) :
         /\ e \in SourceEvents /\ e.source = rec.source
         /\ Front(p) < e.number /\ e.number <= head[rec.source]
  BY <1>1, <1>3, BatchLies DEF Good, CursorOK
<1>6. \A r \in results' : r \in results \/ (r = r0 /\ \A q \in results : q.key # <<m, p.id>>)
  BY <1>4 DEF Queued
<1>7. results \subseteq results'
  BY DEF Queued
<1>8. /\ flow' \in [Monitors -> {Rest} \cup Flows] /\ flow'[m] = f
      /\ \A n \in Monitors : n # m => flow'[n] = flow[n]
  BY <1>1, FlowMoved
<1>9. /\ r0.key = <<m, p.id>> /\ r0.monitor = m /\ r0.events = Events(b.events)
      /\ r0 \in [key : Monitors \X Nat, monitor : Monitors, events : SUBSET SourceEvents]
  BY <1>4, <1>5
<1>20. p.id < fresh[m] /\ Reached(rec) = Front(p)
  BY <1>3 DEF Good, CursorOK, OutboxOK, Reached
<1> HIDE DEF p, b, r0
<1>10. TypeOK'
  <2>1. results' \subseteq [key : Monitors \X Nat, monitor : Monitors, events : SUBSET SourceEvents]
    BY <1>1, <1>6, <1>9 DEF TypeOK
  <2> QED
    BY <1>1, <1>8, <2>1 DEF TypeOK, Flows, outside, gate
<1>11. Growing
  BY <1>1, <1>7 DEF Growing, TypeOK
<1>12. \A r \in results' : r \notin results => r.monitor = m
  BY <1>6, <1>9
<1>13. Good(m, rec)'
  <2>1. CursorOK(m, rec)'
    BY <1>1, <1>3 DEF Good, CursorOK, OutboxOK
  <2>2. HandedOn(m, rec)'
    BY <1>3, <1>11, DeliveredKept DEF Good, HandedOn
  <2>3. NotAhead(m, rec)'
    BY <1>3, <1>6, <1>9 DEF Good, NotAhead, p
  <2>4. Named(m, rec)'
    BY <1>3, <1>6, <1>9 DEF Good, Named, p, b
  <2> QED
    BY <2>1, <2>2, <2>3, <2>4 DEF Good
<1>14. RecordsOK'
  <2>1. ASSUME NEW n \in Monitors, record'[n] # None PROVE Good(n, record[n])'
    <3>1. PICK x \in Records : x = record[n] /\ Good(n, x) /\ record'[n] = x
      BY <1>1, <2>1 DEF TypeOK, RecordsOK
    <3>2. CASE n = m
      BY <1>3, <1>13, <3>1, <3>2
    <3>3. CASE n # m
      <4>1. Good(n, x)'
        BY <1>1, <1>10, <1>11, <1>12, <3>1, <3>3, GoodKept
      <4> QED
        BY <3>1, <4>1
    <3> QED
      BY <3>2, <3>3
  <2> QED
    BY <1>1, <2>1 DEF RecordsOK
<1>15. WritesOK'
  BY <1>1, <1>8, <1>10, <1>11, <1>12, WritesKept
<1>16. FlowOK'
  BY <1>1, <1>8, <1>11, FlowKept DEF FlowOK
<1>17. ResultsOK'
  <2>1. \A r \in results' : r \in results \/ r = r0
    BY <1>6
  <2>2. \A r \in results : /\ r.key = <<r.monitor, r.key[2]>> /\ r.key[2] < fresh'[r.monitor]
                           /\ \A e \in r.events : e.number <= head'[e.source]
    BY <1>1 DEF ResultsOK
  <2>3. /\ r0.key = <<r0.monitor, r0.key[2]>> /\ r0.key[2] < fresh'[r0.monitor]
        /\ \A e \in r0.events : e.number <= head'[e.source]
    BY <1>1, <1>5, <1>9, <1>20
  <2> QED
    BY <2>1, <2>2, <2>3 DEF ResultsOK
<1>18. ToldOnce'
  <2>1. ASSUME NEW q \in results, q.monitor = m, q.key # <<m, p.id>> PROVE q.events \cap r0.events = {}
    <3> SUFFICES ASSUME NEW e \in q.events, e \in r0.events PROVE FALSE
      OBVIOUS
    <3>1. e.source = rec.source /\ Front(p) < e.number /\ e.number \in Nat
      BY <1>5, <1>9 DEF SourceEvents
    <3>2. rec.cursor # None
      BY <1>3 DEF Good, CursorOK, OutboxOK
    <3>3. e.number <= Front(p)
      BY <1>3, <1>20, <2>1, <3>1, <3>2 DEF Good, NotAhead, p
    <3>4. Front(p) \in Int
      BY <1>3 DEF Front, p, Outboxes
    <3> QED
      BY <3>1, <3>3, <3>4
  <2> SUFFICES ASSUME NEW r \in results', NEW q \in results', r.monitor = q.monitor,
                      r.events \cap q.events # {}
               PROVE  r = q
    BY DEF ToldOnce
  <2>2. CASE r \in results /\ q \in results
    BY <1>1, <2>2 DEF ToldOnce
  <2>3. CASE r \notin results /\ q \notin results
    BY <1>6, <2>3
  <2>4. CASE r \in results /\ q \notin results
    BY <1>6, <1>9, <2>1, <2>4
  <2>5. CASE r \notin results /\ q \in results
    BY <1>6, <1>9, <2>1, <2>5
  <2> QED
    BY <2>2, <2>3, <2>4, <2>5
<1> QED
  BY <1>10, <1>14, <1>15, <1>16, <1>17, <1>18 DEF IInv

LEMMA QueueFailsStep == ASSUME IInv, NEW m \in Monitors, QueueFails(m) PROVE IInv'
<1>1. /\ TypeOK /\ flow[m].at = "queueing" /\ GoesTo(m, Rest)
      /\ results' \in {results, Queued(m)}
      /\ UNCHANGED <<outside, gate, unfinished, handled, fresh>>
  BY Parts DEF QueueFails
<1>2. FlowGood(m)'
  BY <1>1, FlowMoved, RestGood
<1> QED
  BY <1>1, <1>2, Telling

LEMMA QueueResultStep == ASSUME IInv, NEW m \in Monitors, QueueResult(m) PROVE IInv'
<1>1. /\ TypeOK /\ RecordsOK /\ ResultsOK /\ flow[m].at = "queueing" /\ UNCHANGED record
      /\ results' = Queued(m) /\ UNCHANGED <<outside, gate, unfinished, handled, fresh>>
  BY Parts DEF QueueResult, gate
<1>2. flow[m] \in Flows /\ Offered(m) /\ m \notin Evaluated
  BY <1>1, Parts, Draining DEF FlowOK, FlowGood
<1>3. PICK f : f = [flow[m] EXCEPT !.at = "completing"]
  OBVIOUS
<1>4. f \in Flows /\ f.at = "completing" /\ f.change = flow[m].change /\ f.over = flow[m].over
  BY <1>2, <1>3, Moving DEF Stages
<1>5. GoesTo(m, f)
  BY <1>3 DEF QueueResult
<1>6. flow'[m] = f
  BY <1>1, <1>4, <1>5, FlowMoved
<1>7. PICK rec \in Records :
         rec = record[m] /\ Good(m, rec) /\ rec.pending # None /\ rec.pending \in Outboxes
  BY <1>1, <1>2 DEF TypeOK, RecordsOK, Offered, Records
<1>8. f.change = Batch(rec.pending) /\ Batch(rec.pending).id = rec.pending.id
  BY <1>2, <1>4, <1>7, Batches DEF Offered
<1>9. \E r \in results' : r.monitor = m /\ r.events = Events(f.change.events)
  <2>1. CASE \E r \in results : r.key = <<m, rec.pending.id>>
    <3>1. PICK r \in results : r.key = <<m, rec.pending.id>>
      BY <2>1
    <3>2. r.key = <<r.monitor, r.key[2]>>
      BY <1>1 DEF ResultsOK
    <3>3. r.monitor = m
      BY <3>1, <3>2
    <3>4. r.events = Events(f.change.events)
      BY <1>7, <1>8, <3>1, <3>3 DEF Good, Named
    <3>5. r \in results'
      BY <1>1 DEF Queued
    <3> QED
      BY <3>3, <3>4, <3>5
  <2>2. CASE ~\E r \in results : r.key = <<m, rec.pending.id>>
    <3>1. /\ ~\E r \in results : r.key = <<m, flow[m].change.id>>
          /\ f.change = flow[m].change
      BY <1>4, <1>8, <2>2
    <3>2. PICK r : r = [key |-> <<m, flow[m].change.id>>, monitor |-> m,
                        events |-> Events(flow[m].change.events)]
      OBVIOUS
    <3>3. r.monitor = m /\ r.events = Events(f.change.events)
      BY <3>1, <3>2
    <3>4. r \in results'
      BY <1>1, <3>1, <3>2 DEF Queued
    <3> QED
      BY <3>3, <3>4
  <2> QED
    BY <2>1, <2>2
<1>10. \A e \in Events(f.change.events) : Delivered(m, e)'
  BY <1>2, <1>9 DEF Delivered
<1>11. FlowGood(m)'
  BY <1>1, <1>2, <1>4, <1>6, <1>10 DEF FlowGood, Offered
<1> QED
  BY <1>1, <1>4, <1>5, <1>11, Telling

LEMMA RunFailsStep == ASSUME IInv, NEW m \in Monitors, RunFails(m) PROVE IInv'
<1>1. /\ TypeOK /\ RecordsOK /\ flow[m].at = "running"
      /\ UNCHANGED <<outside, record, disk, waiting, unfinished, results, handled, fresh>>
      /\ UNCHANGED head
  BY Parts DEF RunFails, outside
<1>2. flow[m] \in Flows /\ Offered(m)
  BY <1>1, Parts, Draining DEF FlowOK, FlowGood
<1>3. CASE record[m].pending # None /\ record[m].pending.id = flow[m].change.id
  <2>1. PICK rec \in Records : rec = record[m] /\ Good(m, rec)
    BY <1>1, <1>2 DEF TypeOK, RecordsOK, Offered
  <2>2. PICK f : f = [flow[m] EXCEPT !.at = "saving", !.over = TRUE]
    OBVIOUS
  <2>3. Save(m, rec, TRUE) /\ GoesTo(m, f)
    <3>1. Save(m, record[m], TRUE) /\ GoesTo(m, [flow[m] EXCEPT !.at = "saving", !.over = TRUE])
      BY <1>3 DEF RunFails
    <3> QED
      BY <2>1, <2>2, <3>1
  <2>4. f \in Flows /\ f.at = "saving" /\ f.over
    BY <1>2, <2>2 DEF Flows, Stages
  <2>5. fresh' \in [Monitors -> Nat] /\ \A n \in Monitors : fresh[n] <= fresh'[n]
    BY <1>1 DEF TypeOK
  <2>6. Good(m, rec)'
    BY <1>1, <2>1, GoodStill
  <2> QED
    BY <1>1, <2>3, <2>4, <2>5, <2>6, SavingMove
<1>4. CASE GoesTo(m, Rest) /\ UNCHANGED writes
  <2>1. FlowGood(m)'
    BY <1>1, <1>4, FlowMoved, RestGood
  <2>2. UNCHANGED <<outside, gate, unfinished, results, handled, fresh>>
    BY <1>1, <1>4 DEF gate
  <2>3. handled' \subseteq Monitors \X SourceEvents
    BY <1>1 DEF TypeOK
  <2> QED
    BY <1>1, <1>4, <2>1, <2>2, <2>3, QuietMove
<1> QED
  BY <1>3, <1>4 DEF RunFails

\* A record moves past the batch of its outbox when that was handed on.
LEMMA MovesPast ==
  ASSUME TypeOK, ResultsOK, NEW m \in Monitors, NEW rec \in Records, Good(m, rec),
         rec.pending # None,
         \A e \in Events(Batch(rec.pending).events) : Delivered(m, e),
         UNCHANGED <<head, results, handled>>,
         NEW x, x.source = rec.source, x.base = rec.base,
         Reached(x) = Front(rec.pending) + BatchLen(rec.pending)
  PROVE  HandedOn(m, x)' /\ NotAhead(m, x)'
<1> DEFINE p == rec.pending
           b == Batch(p)
<1>1. /\ p \in Outboxes /\ OutboxOK(m, rec) /\ rec.cursor # None /\ Reached(rec) = Front(p)
      /\ rec.base \in Nat
  BY DEF Good, CursorOK, OutboxOK, Reached, Records
<1>2. /\ Len(p.events) \in Nat /\ p.cursor \in Nat /\ BatchLen(p) \in Nat
      /\ BatchLen(p) <= Len(p.events) /\ b.events \in Seq(SourceEvents)
      /\ Len(b.events) = BatchLen(p) /\ \A i \in 1..BatchLen(p) : b.events[i] = p.events[i]
  BY <1>1, Batches DEF Outboxes
<1>3. \A i \in 1..Len(p.events) : p.events[i] = Event(rec.source, Front(p) + i)
  BY <1>1 DEF OutboxOK
<1>4. Front(p) \in Int
  BY <1>2 DEF Front
<1>5. \A e \in Events(b.events) : e.number <= Front(p) + BatchLen(p) /\ Front(p) < e.number /\ e.number \in Nat
  BY <1>1, BatchLies DEF SourceEvents
<1>6. \A e : Delivered(m, e) => Delivered(m, e)'
  BY DEF Delivered
<1>7. HandedOn(m, rec) /\ NotAhead(m, rec) /\ Named(m, rec)
  BY DEF Good
<1>13. b.events = Batch(rec.pending).events /\ p = rec.pending
  OBVIOUS
<1> HIDE DEF p, b
<1>8. HandedOn(m, x)'
  <2> SUFFICES ASSUME NEW n \in (rec.base + 1)..(Front(p) + BatchLen(p))
               PROVE  Delivered(m, Event(rec.source, n))
    BY <1>6, <1>13 DEF HandedOn
  <2>1. CASE n <= Front(p)
    BY <1>1, <1>4, <1>7, <2>1 DEF HandedOn
  <2>2. CASE Front(p) < n
    <3>1. PICK i \in Int : i = n - Front(p)
      BY <1>1, <1>2, <1>4
    <3>2. i \in 1..BatchLen(p) /\ i \in 1..Len(p.events) /\ n = Front(p) + i
      BY <1>1, <1>2, <1>4, <2>2, <3>1
    <3>3. b.events[i] = Event(rec.source, n) /\ i \in DOMAIN b.events
      BY <1>2, <1>3, <3>2
    <3>4. Event(rec.source, n) \in Events(b.events)
      BY <3>3 DEF Events
    <3> QED
      BY <1>13, <3>4
  <2> QED
    BY <1>1, <1>4, <2>1, <2>2
<1>9. NotAhead(m, x)'
  <2> SUFFICES ASSUME NEW r \in results, NEW e \in r.events, r.monitor = m, e.source = rec.source
               PROVE  e.number <= Front(p) + BatchLen(p)
    BY <1>13 DEF NotAhead
  <2>1. e.number \in Nat
    BY DEF TypeOK, SourceEvents
  <2>2. CASE e.number <= Front(p)
    BY <1>2, <1>4, <2>1, <2>2
  <2>3. CASE r.key = <<m, p.id>>
    BY <1>5, <1>7, <1>13, <2>3 DEF Named
  <2> QED
    BY <1>1, <1>7, <1>13, <2>2, <2>3 DEF NotAhead
<1> QED
  BY <1>8, <1>9

\* The record when its change was handed on.
LEMMA CompletedGood ==
  ASSUME TypeOK, ResultsOK, NEW m \in Monitors, NEW rec \in Records, Good(m, rec),
         rec.pending # None,
         \A e \in Events(Batch(rec.pending).events) : Delivered(m, e),
         UNCHANGED <<head, results, handled>>, fresh'[m] = fresh[m] + 1,
         NEW x, x = Completed(rec, m)
  PROVE  x \in Records /\ Good(m, x)'
<1>1. PICK p \in Outboxes : p = rec.pending
  BY DEF Records
<1>2. /\ OutboxOK(m, rec) /\ rec.cursor \in Nat /\ rec.base \in Nat /\ rec.base <= rec.cursor
      /\ rec.source \in Sources
  BY DEF Good, CursorOK, OutboxOK, Records
<1>3. /\ Len(p.events) \in Nat /\ p.cursor \in Nat /\ BatchLen(p) \in Nat
      /\ BatchLen(p) <= Len(p.events) /\ fresh[m] \in Nat
  BY <1>1, Batches DEF Outboxes, TypeOK
<1>4. PICK rest \in Seq(SourceEvents) : rest = RestOf(p)
  BY Rests
<1>5. /\ Len(rest) = Len(p.events) - BatchLen(p) /\ (rest = <<>> <=> BatchLen(p) = Len(p.events))
      /\ \A i \in 1..Len(rest) : rest[i] = p.events[BatchLen(p) + i]
  BY <1>4, Rests
<1>6. /\ rec.cursor <= Front(p) /\ p.cursor <= head[rec.source] /\ head[rec.source] \in Nat
      /\ \A i \in 1..Len(p.events) : p.events[i] = Event(rec.source, Front(p) + i)
  BY <1>1, <1>2 DEF OutboxOK, TypeOK
<1>7. Front(p) = p.cursor - Len(p.events)
  BY DEF Front
<1>8. \A n \in Nat : n # None
  BY MonitorAssumption DEF MonitorAssumption
<1>9. CASE rest = <<>>
  <2>1. x = [rec EXCEPT !.cursor = p.cursor, !.pending = None]
    <3>1. SubSeq(rec.pending.events, Len(Batch(rec.pending).events) + 1, Len(rec.pending.events)) = <<>>
      BY <1>1, <1>4, <1>9 DEF RestOf
    <3>2. x = [rec EXCEPT !.cursor = rec.pending.cursor, !.pending = None]
      BY <3>1 DEF Completed
    <3> QED
      BY <1>1, <3>2
  <2>2. /\ x \in Records /\ x.cursor = p.cursor /\ x.pending = None /\ x.base = rec.base
        /\ x.source = rec.source
    BY <1>3, <2>1 DEF Records
  <2>3. Reached(x) = Front(p) + BatchLen(p)
    BY <1>3, <1>5, <1>7, <1>9, <2>2 DEF Reached
  <2>4. CursorOK(m, x)'
    BY <1>2, <1>3, <1>6, <1>7, <1>8, <2>2 DEF CursorOK
  <2>5. HandedOn(m, x)' /\ NotAhead(m, x)'
    BY <1>1, <2>2, <2>3, MovesPast
  <2> QED
    BY <2>2, <2>4, <2>5 DEF Good, Named
<1>10. CASE rest # <<>>
  <2>1. x = [rec EXCEPT !.pending.id = fresh[m], !.pending.events = rest]
    <3>1. rest = SubSeq(rec.pending.events, Len(Batch(rec.pending).events) + 1, Len(rec.pending.events))
      BY <1>1, <1>4 DEF RestOf
    <3>2. x = [rec EXCEPT !.pending.id = fresh[m],
                          !.pending.events = SubSeq(rec.pending.events,
                                                    Len(Batch(rec.pending).events) + 1,
                                                    Len(rec.pending.events))]
      BY <1>10, <3>1 DEF Completed
    <3> QED
      BY <3>1, <3>2
  <2>2. PICK q : q = [p EXCEPT !.id = fresh[m], !.events = rest]
    OBVIOUS
  <2>3. q \in Outboxes /\ q.id = fresh[m] /\ q.events = rest /\ q.cursor = p.cursor
    BY <1>3, <2>2 DEF Outboxes
  <2>4. x = [rec EXCEPT !.pending = q]
    BY <1>1, <2>1, <2>2 DEF Records
  <2>5. /\ x \in Records /\ x.cursor = rec.cursor /\ x.pending = q /\ x.base = rec.base
        /\ x.source = rec.source
    BY <2>3, <2>4 DEF Records
  <2>6. q # None
    BY <2>3, MonitorAssumption DEF MonitorAssumption
  <2>7. Front(q) = Front(p) + BatchLen(p) /\ Front(p) \in Int
    BY <1>3, <1>5, <1>7, <2>3 DEF Front
  <2>8. Reached(x) = Front(p) + BatchLen(p)
    BY <2>5, <2>6, <2>7 DEF Reached
  <2>9. OutboxOK(m, x)'
    <3>1. Len(rest) > 0
      BY <1>3, <1>5, <1>10
    <3>2. \A i \in 1..Len(rest) : rest[i] = Event(rec.source, Front(q) + i)
      <4> SUFFICES ASSUME NEW i \in 1..Len(rest) PROVE rest[i] = Event(rec.source, Front(q) + i)
        OBVIOUS
      <4>1. BatchLen(p) + i \in 1..Len(p.events) /\ rest[i] = p.events[BatchLen(p) + i]
        BY <1>3, <1>5
      <4>2. Front(p) + (BatchLen(p) + i) = Front(q) + i
        BY <1>3, <2>7
      <4> QED
        BY <1>6, <4>1, <4>2
    <3>3. /\ q.id < fresh'[m] /\ rec.cursor <= Front(q) /\ q.cursor <= head'[rec.source]
      BY <1>2, <1>3, <1>6, <2>3, <2>7
    <3> QED
      BY <1>2, <1>8, <2>3, <2>5, <3>1, <3>2, <3>3 DEF OutboxOK
  <2>10. CursorOK(m, x)'
    <3>1. rec.cursor <= head'[rec.source]
      BY <1>2, <1>3, <1>6, <1>7
    <3> QED
      BY <1>2, <1>8, <2>5, <2>9, <3>1 DEF CursorOK
  <2>11. HandedOn(m, x)' /\ NotAhead(m, x)'
    BY <1>1, <2>5, <2>8, MovesPast
  <2>12. Named(m, x)'
    <3>1. \A r \in results : r.monitor = m => r.key # <<m, fresh[m]>>
      BY <1>3 DEF ResultsOK
    <3> QED
      BY <2>3, <2>5, <3>1 DEF Named
  <2> QED
    BY <2>5, <2>10, <2>11, <2>12 DEF Good
<1> QED
  BY <1>9, <1>10

LEMMA CompleteStep == ASSUME IInv, NEW m \in Monitors, Complete(m) PROVE IInv'
<1>1. /\ TypeOK /\ RecordsOK /\ ResultsOK /\ flow[m].at = "completing"
      /\ UNCHANGED <<outside, record, disk, waiting, unfinished, results, handled>>
      /\ UNCHANGED head
  BY Parts DEF Complete, outside
<1>2. /\ flow[m] \in Flows /\ Offered(m)
      /\ \A e \in Events(flow[m].change.events) : Delivered(m, e)
  BY <1>1, Parts, Draining DEF FlowOK, FlowGood
<1>3. CASE record[m].pending # None /\ record[m].pending.id = flow[m].change.id
  <2>1. PICK rec \in Records : rec = record[m] /\ Good(m, rec) /\ rec.pending # None
    BY <1>1, <1>2, <1>3 DEF TypeOK, RecordsOK, Offered
  <2>2. PICK f : f = [flow[m] EXCEPT !.at = "saving", !.over = TRUE]
    OBVIOUS
  <2>3. PICK x : x = Completed(rec, m)
    OBVIOUS
  <2>4. Save(m, x, FALSE) /\ GoesTo(m, f) /\ fresh' = [fresh EXCEPT ![m] = @ + 1]
    <3>1. /\ Save(m, Completed(record[m], m), FALSE)
          /\ GoesTo(m, [flow[m] EXCEPT !.at = "saving", !.over = TRUE])
          /\ fresh' = [fresh EXCEPT ![m] = @ + 1]
      BY <1>3 DEF Complete
    <3> QED
      BY <2>1, <2>2, <2>3, <3>1
  <2>5. f \in Flows /\ f.at = "saving" /\ f.over
    BY <1>2, <2>2 DEF Flows, Stages
  <2>6. /\ fresh' \in [Monitors -> Nat] /\ \A n \in Monitors : fresh[n] <= fresh'[n]
        /\ fresh'[m] = fresh[m] + 1
    BY <1>1, <2>4 DEF TypeOK
  <2>7. \A e \in Events(Batch(rec.pending).events) : Delivered(m, e)
    BY <1>2, <2>1 DEF Offered
  <2>8. x \in Records /\ Good(m, x)'
    BY <1>1, <2>1, <2>3, <2>6, <2>7, CompletedGood
  <2> QED
    BY <1>1, <2>4, <2>5, <2>6, <2>8, SavingMove
<1>4. CASE GoesTo(m, Rest) /\ UNCHANGED <<writes, fresh>>
  <2>1. FlowGood(m)'
    BY <1>1, <1>4, FlowMoved, RestGood
  <2>2. UNCHANGED <<outside, gate, unfinished, results, handled, fresh>>
    BY <1>1, <1>4 DEF gate
  <2>3. handled' \subseteq Monitors \X SourceEvents
    BY <1>1 DEF TypeOK
  <2> QED
    BY <1>1, <1>4, <2>1, <2>2, <2>3, QuietMove
<1> QED
  BY <1>3, <1>4 DEF Complete

-------------------------------------------------------------------------------
(***************************************************************************)
(* The chain of writes, the world and the restart.                         *)
(***************************************************************************)

LEMMA NextWrite ==
  ASSUME TypeOK, WritesOK, writes # <<>>
  PROVE  /\ Head(writes) \in Writes /\ WriteGood(Head(writes))
         /\ Tail(writes) \in Seq(Writes)
         /\ \A i \in DOMAIN Tail(writes) :
              /\ i \in Nat /\ i + 1 \in DOMAIN writes /\ Tail(writes)[i] = writes[i + 1]
              /\ writes[i + 1].monitor # Head(writes).monitor
<1>1. writes \in Seq(Writes) /\ Len(writes) \in Nat
  BY DEF TypeOK, Writes
<1>2. 1 \in DOMAIN writes /\ Head(writes) = writes[1]
  BY <1>1, EmptySeq
<1>3. Tail(writes) \in Seq(Writes) /\ Len(Tail(writes)) = Len(writes) - 1
  BY <1>1
<1>4. \A i \in DOMAIN Tail(writes) :
         i \in Nat /\ i + 1 \in DOMAIN writes /\ i + 1 # 1 /\ Tail(writes)[i] = writes[i + 1]
  BY <1>1, <1>3
<1> QED
  BY <1>1, <1>2, <1>3, <1>4 DEF WritesOK

LEMMA WritesShrink ==
  ASSUME TypeOK, TypeOK', Growing, WritesOK, UNCHANGED results, writes # <<>>, writes' = Tail(writes),
         \A n \in Monitors : n # Head(writes).monitor => flow'[n] = flow[n]
  PROVE  WritesOK'
<1>1. ASSUME NEW i \in DOMAIN writes' PROVE WriteGood(writes[i])'
  <2>1. PICK w \in Writes : /\ w = writes[i + 1] /\ WriteGood(w) /\ writes'[i] = w
                            /\ w.monitor # Head(writes).monitor
    BY <1>1, NextWrite, Chain DEF WritesOK
  <2>2. flow'[w.monitor] = flow[w.monitor]
    BY <2>1 DEF Writes
  <2>3. WriteGood(w)'
    BY <2>1, <2>2, WriteKept
  <2> QED
    BY <2>1, <2>3
<1>2. ASSUME NEW i \in DOMAIN writes', NEW j \in DOMAIN writes',
             writes'[i].monitor = writes'[j].monitor
      PROVE  i = j
  <2>1. /\ i \in Nat /\ j \in Nat /\ i + 1 \in DOMAIN writes /\ j + 1 \in DOMAIN writes
        /\ writes'[i] = writes[i + 1] /\ writes'[j] = writes[j + 1]
    BY <1>2, NextWrite
  <2>2. i + 1 = j + 1
    BY <1>2, <2>1 DEF WritesOK
  <2> QED
    BY <2>1, <2>2
<1> QED
  BY <1>1, <1>2 DEF WritesOK

\* A write has had its turn: the record it carries is the file's, or nothing is.
LEMMA Turn ==
  ASSUME IInv, NEW w \in Writes, writes # <<>>, w = Head(writes), writes' = Tail(writes),
         \/ record' = record /\ disk' = disk
         \/ record' = [record EXCEPT ![w.monitor] = w.record] /\ disk' = record',
         NEW f \in {Rest} \cup Flows, GoesTo(w.monitor, f),
         f = Rest \/ (f.at = "checked" /\ Offered(w.monitor)'),
         waiting' \subseteq Monitors, unfinished' \subseteq Monitors,
         UNCHANGED <<outside, results, handled, fresh>>
  PROVE  IInv'
<1>1. TypeOK /\ RecordsOK /\ WritesOK /\ FlowOK /\ ResultsOK /\ ToldOnce
  BY Parts
<1>2. w.monitor \in Monitors /\ w.record \in Records /\ WriteGood(w) /\ Good(w.monitor, w.record)
  BY <1>1, NextWrite DEF Writes, WriteGood
<1>3. /\ flow' \in [Monitors -> {Rest} \cup Flows] /\ flow'[w.monitor] = f
      /\ \A n \in Monitors : n # w.monitor => flow'[n] = flow[n]
  BY <1>1, <1>2, FlowMoved
<1>4. writes' \in Seq(Writes)
  BY <1>1, NextWrite
<1>5. UNCHANGED <<head, config, results, handled, fresh>>
  BY DEF outside
<1>6. /\ record' \in [Monitors -> Records \cup {None}]
      /\ \A n \in Monitors : n # w.monitor => record'[n] = record[n]
  BY <1>1, <1>2 DEF TypeOK
<1>7. TypeOK'
  BY <1>1, <1>3, <1>4, <1>5, <1>6 DEF TypeOK, Flows, Writes
<1>8. Growing
  BY <1>1, <1>5, Grows
<1>9. RecordsOK'
  <2>1. ASSUME NEW n \in Monitors, record'[n] # None PROVE Good(n, record[n])'
    <3>1. PICK x \in Records : x = record'[n] /\ Good(n, x)
      <4>1. CASE record' = record
        BY <1>1, <2>1, <4>1 DEF TypeOK, RecordsOK
      <4>2. CASE record' = [record EXCEPT ![w.monitor] = w.record] /\ n = w.monitor
        BY <1>1, <1>2, <4>2 DEF TypeOK
      <4>3. CASE record' = [record EXCEPT ![w.monitor] = w.record] /\ n # w.monitor
        BY <1>1, <2>1, <4>3 DEF TypeOK, RecordsOK
      <4> QED
        BY <4>1, <4>2, <4>3
    <3>2. Good(n, x)'
      BY <1>5, <3>1, GoodStill
    <3> QED
      BY <3>1, <3>2
  <2>2. record' = disk'
    BY <1>1 DEF RecordsOK
  <2> QED
    BY <2>1, <2>2 DEF RecordsOK
<1>10. WritesOK'
  BY <1>1, <1>3, <1>5, <1>7, <1>8, WritesShrink
<1>11. FlowOK'
  <2>1. FlowGood(w.monitor)'
    <3>1. CASE f = Rest
      BY <1>2, <1>3, <3>1, RestGood
    <3>2. CASE f.at = "checked" /\ Offered(w.monitor)'
      BY <1>3, <3>2 DEF FlowGood
    <3> QED
      BY <3>1, <3>2
  <2>2. \A n \in Monitors : n # w.monitor => FlowGood(n)'
    BY <1>1, <1>3, <1>6, <1>8, FlowKept DEF FlowOK
  <2> QED
    BY <2>1, <2>2 DEF FlowOK
<1>12. ResultsOK' /\ ToldOnce'
  BY <1>1, <1>5, <1>7, <1>8, ResultsKept DEF ToldOnce
<1> QED
  BY <1>7, <1>9, <1>10, <1>11, <1>12 DEF IInv

LEMMA WriteLandsStep == ASSUME IInv, WriteLands PROVE IInv'
<1>1. /\ TypeOK /\ WritesOK /\ writes # <<>> /\ writes' = Tail(writes)
      /\ UNCHANGED <<outside, unfinished, results, handled, fresh>>
  BY Parts DEF WriteLands
<1>2. PICK w \in Writes : w = Head(writes) /\ WriteGood(w)
  BY <1>1, NextWrite
<1>3. w.monitor \in Monitors /\ w.record \in Records
  BY DEF Writes
<1>4. /\ disk' = [record EXCEPT ![w.monitor] = w.record]
      /\ record' = [record EXCEPT ![w.monitor] = w.record]
      /\ waiting' = IF w.retry THEN waiting \cup {w.monitor} ELSE waiting \ {w.monitor}
      /\ GoesTo(w.monitor, IF flow[w.monitor].change = None \/ flow[w.monitor].over THEN Rest
                           ELSE [flow[w.monitor] EXCEPT !.at = "checked"])
  BY <1>2 DEF WriteLands
<1>5. waiting' \subseteq Monitors /\ unfinished' \subseteq Monitors
  BY <1>1, <1>3, <1>4 DEF TypeOK
<1>6. CASE flow[w.monitor].change = None \/ flow[w.monitor].over
  <2>1. GoesTo(w.monitor, Rest)
    BY <1>4, <1>6
  <2> QED
    BY <1>1, <1>2, <1>4, <1>5, <2>1, Turn
<1>7. CASE flow[w.monitor].change # None /\ ~flow[w.monitor].over
  <2>1. PICK f : f = [flow[w.monitor] EXCEPT !.at = "checked"]
    OBVIOUS
  <2>2. GoesTo(w.monitor, f)
    BY <1>4, <1>7, <2>1
  <2>3. flow[w.monitor] \in Flows
    BY <1>1, <1>2, <1>3, Draining DEF WriteGood
  <2>4. /\ f \in Flows /\ f.at = "checked" /\ f.change = flow[w.monitor].change
        /\ f.over = flow[w.monitor].over
    BY <2>1, <2>3, Moving DEF Stages
  <2>5. flow'[w.monitor] = f
    BY <1>1, <1>3, <2>2, <2>4, FlowMoved
  <2>6. record'[w.monitor] = w.record /\ w.record # None
    BY <1>1, <1>3, <1>4, MonitorAssumption DEF TypeOK, MonitorAssumption
  <2>7. w.record.pending # None /\ f.change = Batch(w.record.pending)
    BY <1>2, <1>7, <2>4 DEF WriteGood
  <2>8. Offered(w.monitor)'
    BY <1>7, <2>4, <2>5, <2>6, <2>7 DEF Offered
  <2> QED
    BY <1>1, <1>2, <1>4, <1>5, <2>2, <2>4, <2>8, Turn
<1> QED
  BY <1>6, <1>7, Parts, Draining, <1>2, <1>3 DEF WriteGood, Flows

LEMMA WriteFailsStep == ASSUME IInv, WriteFails PROVE IInv'
<1>1. /\ TypeOK /\ WritesOK /\ writes # <<>> /\ writes' = Tail(writes)
      /\ UNCHANGED <<outside, record, disk, waiting, results, handled, fresh>>
  BY Parts DEF WriteFails
<1>2. PICK w \in Writes : w = Head(writes)
  BY <1>1, NextWrite
<1>3. w.monitor \in Monitors /\ GoesTo(w.monitor, Rest) /\ unfinished' \subseteq Monitors
  BY <1>1, <1>2 DEF Writes, WriteFails, TypeOK
<1>4. waiting' \subseteq Monitors
  BY <1>1 DEF TypeOK
<1> QED
  BY <1>1, <1>2, <1>3, <1>4, Turn

LEMMA RetryElapsesStep == ASSUME IInv, NEW m \in Monitors, RetryElapses(m) PROVE IInv'
<1>1. /\ TypeOK /\ waiting' = waiting \ {m}
      /\ UNCHANGED <<outside, record, disk, writes, flow, unfinished, results, handled, fresh>>
  BY Parts DEF RetryElapses
<1>2. TypeOK'
  BY <1>1 DEF TypeOK, outside
<1>3. Growing
  BY <1>1, Grows DEF outside
<1> QED
  BY <1>1, <1>2, <1>3, NothingMoves

LEMMA HappensStep == ASSUME IInv, NEW s \in Sources, Happens(s) PROVE IInv'
<1>1. /\ TypeOK /\ head' = [head EXCEPT ![s] = @ + 1]
      /\ UNCHANGED <<config, record, disk, waiting, writes, flow, unfinished, results, handled, fresh>>
  BY Parts DEF Happens, gate
<1>2. head' \in [Sources -> Nat] /\ \A t \in Sources : head[t] <= head'[t]
  BY <1>1 DEF TypeOK
<1>3. TypeOK'
  BY <1>1, <1>2 DEF TypeOK
<1>4. Growing
  BY <1>1, <1>2 DEF Growing, TypeOK
<1> QED
  BY <1>1, <1>3, <1>4, NothingMoves

LEMMA UserEditsStep == ASSUME IInv, NEW m \in Monitors, UserEdits(m) PROVE IInv'
<1>1. /\ TypeOK
      /\ UNCHANGED <<head, record, disk, waiting, writes, flow, unfinished, results, handled, fresh>>
  BY Parts DEF UserEdits, gate
<1>2. config' \in [Monitors -> [source : Sources, paused : BOOLEAN]]
  <2>1. config \in [Monitors -> [source : Sources, paused : BOOLEAN]]
    BY <1>1 DEF TypeOK
  <2>2. ASSUME NEW s \in Sources, config' = [config EXCEPT ![m].source = s]
        PROVE  config' \in [Monitors -> [source : Sources, paused : BOOLEAN]]
    <3>1. [config[m] EXCEPT !.source = s] \in [source : Sources, paused : BOOLEAN]
      BY <2>1
    <3> QED
      BY <2>1, <2>2, <3>1
  <2>3. CASE config' = [config EXCEPT ![m].paused = ~@]
    <3>1. config[m].paused \in BOOLEAN /\ \A b \in BOOLEAN : (~b) \in BOOLEAN
      BY <2>1
    <3>2. [config[m] EXCEPT !.paused = ~config[m].paused] \in [source : Sources, paused : BOOLEAN]
      BY <2>1, <3>1, Zenon
    <3> QED
      BY <2>1, <2>3, <3>2
  <2> QED
    BY <2>2, <2>3 DEF UserEdits
<1>3. TypeOK'
  BY <1>1, <1>2 DEF TypeOK
<1>4. Growing
  BY <1>1, Grows
<1> QED
  BY <1>1, <1>3, <1>4, NothingMoves

LEMMA RestartStep == ASSUME IInv, Restart PROVE IInv'
<1>1. /\ TypeOK /\ RecordsOK /\ ResultsOK /\ ToldOnce /\ record' = disk /\ writes' = <<>>
      /\ flow' = [m \in Monitors |-> Rest] /\ unfinished' = {}
      /\ UNCHANGED <<head, config, disk, waiting, results, handled, fresh>>
  BY Parts DEF Restart, outside
<1>2. UNCHANGED record
  BY <1>1 DEF RecordsOK
<1>3. TypeOK'
  BY <1>1, <1>2 DEF TypeOK
<1>4. Growing
  BY <1>1, Grows
<1>5. RecordsOK'
  <2>1. ASSUME NEW n \in Monitors, record'[n] # None PROVE Good(n, record[n])'
    <3>1. PICK x \in Records : x = record[n] /\ Good(n, x) /\ record'[n] = x
      BY <1>1, <1>2, <2>1 DEF TypeOK, RecordsOK
    <3>2. Good(n, x)'
      BY <1>1, <3>1, GoodStill
    <3> QED
      BY <3>1, <3>2
  <2> QED
    BY <1>1, <2>1 DEF RecordsOK
<1>6. WritesOK'
  BY <1>1 DEF WritesOK
<1>7. FlowOK'
  BY <1>1, RestGood DEF FlowOK
<1>8. ResultsOK' /\ ToldOnce'
  BY <1>1, <1>3, <1>4, ResultsKept DEF ToldOnce
<1> QED
  BY <1>3, <1>5, <1>6, <1>7, <1>8 DEF IInv

-------------------------------------------------------------------------------
(***************************************************************************)
(* The invariant, and what it says.                                        *)
(***************************************************************************)

LEMMA Invariance == Spec => []IInv
<1>1. Init => IInv
  <2> SUFFICES ASSUME Init PROVE IInv
    OBVIOUS
  <2>1. TypeOK
    BY TypeInit
  <2>2. RecordsOK /\ WritesOK
    BY DEF Init, RecordsOK, WritesOK
  <2>3. FlowOK
    BY DEF Init, FlowOK, FlowGood, Rest
  <2>4. ResultsOK /\ ToldOnce
    BY DEF Init, ResultsOK, ToldOnce
  <2> QED
    BY <2>1, <2>2, <2>3, <2>4 DEF IInv
<1>2. IInv /\ [Next]_vars => IInv'
  <2> SUFFICES ASSUME IInv, [Next]_vars PROVE IInv'
    OBVIOUS
  <2>1. ASSUME NEW m \in Monitors, Step(m) PROVE IInv'
    BY <2>1, DrainStep, CheckStep, ProbeAnswersStep, RecheckStep, QueueResultStep, RunEndsStep,
       CompleteStep DEF Step
  <2>2. ASSUME NEW m \in Monitors,
               \/ RetryElapses(m) \/ UserEdits(m)
               \/ ProbeFails(m) \/ QueueFails(m) \/ RunFails(m) \/ NotStarted(m)
        PROVE  IInv'
    BY <2>2, RetryElapsesStep, UserEditsStep, ProbeFailsStep, QueueFailsStep, RunFailsStep,
       NotStartedStep
  <2>3. CASE WriteLands \/ WriteFails \/ Restart
    BY <2>3, WriteLandsStep, WriteFailsStep, RestartStep
  <2>4. ASSUME NEW s \in Sources, Happens(s) PROVE IInv'
    BY <2>4, HappensStep
  <2>5. CASE UNCHANGED vars
    <3>1. TypeOK /\ UNCHANGED <<head, config, record, disk, waiting, writes, flow, unfinished,
                               results, handled, fresh>>
      BY <2>5, Parts DEF vars
    <3>2. TypeOK'
      BY <3>1 DEF TypeOK
    <3>3. Growing
      BY <3>1, Grows
    <3> QED
      BY <3>1, <3>2, <3>3, NothingMoves
  <2> QED
    BY <2>1, <2>2, <2>3, <2>4, <2>5 DEF Next
<1> QED
  BY <1>1, <1>2, PTL DEF Spec

\* The records, the outboxes, the writes that wait and the drains have the shapes the
\* gate and the dispatcher expect, whatever was interrupted.
THEOREM TypeCorrect == Spec => []TypeOK
<1>1. IInv => TypeOK
  BY DEF IInv
<1> QED
  BY <1>1, Invariance, PTL

\* What the file of the gate (MonitorGate.complete) has moved past was handed on, or
\* is in the outbox beside it: no failure of a probe, a run or a write, no edit and
\* no restart lets a monitor skip an event.
THEOREM NothingIsSkipped == Spec => []NothingSkipped
<1>1. IInv => NothingSkipped
  <2> SUFFICES ASSUME IInv, NEW m \in Monitors, disk[m] # None, disk[m].cursor # None
               PROVE  \A n \in (disk[m].base + 1)..(IF disk[m].pending = None THEN disk[m].cursor
                                                   ELSE disk[m].pending.cursor) :
                         \/ Delivered(m, Event(disk[m].source, n))
                         \/ /\ disk[m].pending # None
                            /\ Event(disk[m].source, n) \in Events(disk[m].pending.events)
    BY DEF NothingSkipped, Event
  <2>1. PICK rec \in Records : rec = disk[m] /\ Good(m, rec) /\ rec.cursor # None
    BY Parts DEF TypeOK, RecordsOK
  <2>2. HandedOn(m, rec) /\ rec.base \in Nat
    BY <2>1 DEF Good, CursorOK, HandedOn, Records
  <2>3. CASE rec.pending = None
    BY <2>1, <2>2, <2>3 DEF HandedOn, Reached
  <2>4. CASE rec.pending # None
    <3>1. PICK p \in Outboxes : p = rec.pending /\ OutboxOK(m, rec)
      BY <2>1, <2>4 DEF Records, Good, CursorOK
    <3>2. /\ Len(p.events) \in Nat /\ p.cursor \in Nat /\ Front(p) \in Int
          /\ Front(p) + Len(p.events) = p.cursor /\ DOMAIN p.events = 1..Len(p.events)
      BY DEF Outboxes, Front
    <3> SUFFICES ASSUME NEW n \in (rec.base + 1)..p.cursor
                 PROVE  Delivered(m, Event(rec.source, n)) \/ Event(rec.source, n) \in Events(p.events)
      BY <2>1, <2>4, <3>1
    <3>3. CASE n <= Front(p)
      BY <2>1, <2>2, <2>4, <3>1, <3>2, <3>3 DEF HandedOn, Reached
    <3>4. CASE Front(p) < n
      <4>1. PICK i \in Int : i = n - Front(p)
        BY <2>2, <3>2
      <4>2. i \in 1..Len(p.events) /\ n = Front(p) + i
        BY <2>2, <3>2, <3>4, <4>1
      <4>3. p.events[i] = Event(rec.source, n)
        BY <3>1, <4>2 DEF OutboxOK
      <4> QED
        BY <3>2, <4>2, <4>3 DEF Events
    <3> QED
      BY <2>2, <3>2, <3>3, <3>4
  <2> QED
    BY <2>3, <2>4
<1> QED
  BY <1>1, Invariance, PTL

\* An event is in one result only (the results of drainScheduledTask carry the id of
\* their change), although a change is offered again after every failure.
THEOREM ToldOnlyOnce == Spec => []ToldOnce
<1>1. IInv => ToldOnce
  BY DEF IInv
<1> QED
  BY <1>1, Invariance, PTL

===============================================================================
