---------------------------- MODULE HostEventReader ----------------------------
(***************************************************************************)
(* A client of the host service that follows a task: it takes a snapshot   *)
(* (ShunHostService.snapshot, src/src/host/service.ts) and then polls the  *)
(* task.events method from the snapshot's sequence on, as the CLI and the  *)
(* desktop do.  Composes with the store of TaskEvents, whose calls it      *)
(* overlaps: every await of the two methods is a step of its own.          *)
(*                                                                         *)
(* The client is a process of its own and keeps its cursor when the        *)
(* service dies.                                                           *)
(***************************************************************************)
EXTENDS TaskEvents

CONSTANTS
    PageSize,       \* how many events one read returns (2000 and 500 in the code)
    TailLimit       \* how many events the service keeps in memory (2000)

ASSUME HostEventReaderAssumption ==
    /\ PageSize \in Nat \ {0}
    /\ TailLimit \in Nat \ {0}

VARIABLES
    at,             \* where the client's current request is
    waiting,        \* the promise that request waits for
    through,        \* lastSequence's answer, the end of the snapshot; 0 outside of one
    cursor,         \* the client's sequence
    applied,        \* the lines the client has applied, in its order
    tail,           \* the service's tails.get(taskId)
    begun,          \* history: the lines in the file when the snapshot began
    cut,            \* history: that snapshot could not read the file
    top,            \* history: the highest number put in the file
    rewound         \* history: the numbers went on from below that one

numberVars == <<top, rewound>>
requestVars == <<at, waiting, through, cursor, applied, begun, cut>>
readerVars == <<requestVars, tail, numberVars>>
allVars == <<vars, readerVars>>

LinesInFile == {file[i] : i \in 1..Len(file)}
Applied == {applied[i] : i \in 1..Len(applied)}

Snapshotting == {"last allocations", "last writes", "last", "last file",
                 "loop", "page allocations", "page writes"}
Polling == {"poll allocations", "poll writes"}

ReaderTypeOK ==
    /\ at \in {"start", "following"} \cup Snapshotting \cup Polling
    /\ waiting \in Calls \cup {None}
    /\ through \in Nat /\ cursor \in Nat
    /\ applied \in Seq(Lines) /\ tail \in Seq(Lines)
    /\ begun \subseteq Lines
    /\ cut \in BOOLEAN
    /\ top \in Nat /\ rewound \in BOOLEAN

ReaderInit ==
    /\ Init
    /\ at = "start" /\ waiting = None
    /\ through = 0 /\ cursor = 0
    /\ applied = <<>> /\ tail = <<>>
    /\ begun = {} /\ cut = FALSE
    /\ top = 0 /\ rewound = FALSE

\* The lines that are in S, in their order.
Only(lines, S) ==
    LET kept[i \in 0..Len(lines)] ==
            IF i = 0 THEN <<>>
            ELSE IF lines[i] \in S THEN Append(kept[i - 1], lines[i]) ELSE kept[i - 1]
    IN  kept[Len(lines)]

Above(n) == {line \in Lines : line.seq > n}
UpTo(n) == {line \in Lines : line.seq <= n}

FirstOf(lines) == SubSeq(lines, 1, IF Len(lines) < PageSize THEN Len(lines) ELSE PageSize)

\* The first at most PageSize lines of `lines` above the sequence n.
Page(lines, n) == FirstOf(Only(lines, Above(n)))

\* Mutant: each page starts over, and the cursor is forgotten.
ApplyWithoutCursor(page) == applied' = page /\ UNCHANGED cursor

\* Applying a page event by event moves the cursor to the last event applied.
Apply(page) ==
    /\ applied' = applied \o page
    /\ cursor' = IF page = <<>> THEN cursor ELSE page[Len(page)].seq

-------------------------------------------------------------------------------
\* snapshot: the turns are rebuilt from nothing, up to the newest sequence.
SnapshotStart ==
    /\ at = "start"
    /\ at' = "last allocations" /\ waiting' = allocTail
    /\ cursor' = 0 /\ applied' = <<>>
    /\ begun' = LinesInFile /\ cut' = FALSE
    /\ UNCHANGED <<through, tail>>

\* Both lastSequence and read wait for the allocations and then for the writes.
AwaitWrites(from, to) ==
    /\ at = from /\ AllocationSettled(waiting)
    /\ at' = to /\ waiting' = writeTail
    /\ UNCHANGED <<through, cursor, applied, tail, begun, cut>>

\* lastSequence: the cached sequence, or else the file's last line.
LastKnown ==
    /\ at = "last writes" /\ WriteSettled(waiting)
    /\ waiting' = None
    /\ IF cache # None
          THEN at' = "loop" /\ through' = cache
          ELSE at' = "last file" /\ UNCHANGED through
    /\ UNCHANGED <<cursor, applied, tail, begun, cut>>

\* A file that cannot be read counts as an empty one, here and below.
LastFromFile ==
    /\ at = "last file"
    /\ at' = "loop"
    /\ \/ through' = LastInFile /\ UNCHANGED cut
       \/ ReadFaults /\ through' = 0 /\ cut' = TRUE
    /\ UNCHANGED <<waiting, cursor, applied, tail, begun>>

\* while (sequence < through)
SnapshotLoop ==
    /\ at = "loop"
    /\ IF cursor < through
          THEN at' = "page allocations" /\ waiting' = allocTail
          ELSE at' = "following" /\ UNCHANGED waiting
    /\ through' = IF cursor < through THEN through ELSE 0
    /\ UNCHANGED <<cursor, applied, tail, begun, cut>>

\* Mutant: one page is the whole snapshot.
SnapshotOnePage ==
    /\ at = "page writes" /\ WriteSettled(waiting)
    /\ at' = "following"
    /\ Apply(Only(Page(file, cursor), UpTo(through)))
    /\ waiting' = None
    /\ UNCHANGED <<through, tail, begun, cut>>

\* An empty page ends the snapshot; otherwise its events are applied up to `through`.
SnapshotPage ==
    /\ at = "page writes" /\ WriteSettled(waiting)
    /\ LET page == Page(file, cursor) IN
          /\ at' = IF page = <<>> THEN "following" ELSE "loop"
          /\ Apply(Only(page, UpTo(through)))
          /\ through' = IF page = <<>> THEN 0 ELSE through
    /\ waiting' = None
    /\ UNCHANGED <<tail, begun, cut>>

SnapshotPageUnread ==
    /\ at = "page writes" /\ WriteSettled(waiting)
    /\ ReadFaults
    /\ at' = "following" /\ waiting' = None /\ cut' = TRUE /\ through' = 0
    /\ UNCHANGED <<cursor, applied, tail, begun>>

\* Mutant: a tail that does not reach back to the cursor answers too.
PollAnyTail ==
    /\ at = "following"
    /\ IF tail # <<>>
          THEN Apply(Page(tail, cursor)) /\ UNCHANGED <<at, waiting>>
          ELSE at' = "poll allocations" /\ waiting' = allocTail /\ UNCHANGED <<cursor, applied>>
    /\ UNCHANGED <<through, tail, begun, cut>>

\* task.events: from memory if the tail reaches back to the cursor, else from the file.
Poll ==
    /\ at = "following"
    /\ IF tail # <<>> /\ cursor >= tail[1].seq - 1
          THEN Apply(Page(tail, cursor)) /\ UNCHANGED <<at, waiting>>
          ELSE at' = "poll allocations" /\ waiting' = allocTail /\ UNCHANGED <<cursor, applied>>
    /\ UNCHANGED <<through, tail, begun, cut>>

PollFile ==
    /\ at = "poll writes" /\ WriteSettled(waiting)
    /\ at' = "following" /\ waiting' = None
    /\ Apply(Page(file, cursor))
    /\ UNCHANGED <<through, tail, begun, cut>>

PollFileUnread ==
    /\ at = "poll writes" /\ WriteSettled(waiting)
    /\ ReadFaults
    /\ at' = "following" /\ waiting' = None
    /\ UNCHANGED <<through, cursor, applied, tail, begun, cut>>

ReaderStep ==
    /\ \/ SnapshotStart
       \/ AwaitWrites("last allocations", "last writes")
       \/ LastKnown \/ LastFromFile
       \/ SnapshotLoop
       \/ AwaitWrites("page allocations", "page writes")
       \/ SnapshotPage \/ SnapshotPageUnread
       \/ Poll
       \/ AwaitWrites("poll allocations", "poll writes")
       \/ PollFile \/ PollFileUnread
    /\ UNCHANGED <<vars, numberVars>>

-------------------------------------------------------------------------------
\* The service's durable subscriber: remember the event, keep the last TailLimit.
Remember(line) ==
    LET longer == Append(tail, line)
    IN  tail' = SubSeq(longer, IF Len(longer) > TailLimit THEN Len(longer) - TailLimit + 1 ELSE 1,
                       Len(longer))

\* The history of the numbers: n has been put in the file.
Put(n) == top' = IF n > top THEN n ELSE top

\* The store's steps, with what they do to the service and its client.
StoreCall(c) ==
    \/ /\ LookUp(c) \/ Assign(c)
       /\ UNCHANGED readerVars
    \/ /\ ReadLast(c)
       /\ rewound' = (rewound \/ seen'[c] < top)
       /\ UNCHANGED <<requestVars, tail, top>>
    \/ /\ \/ WriteLine(c) /\ Put(seq[c])
          \/ WriteFails(c) /\ Put(LastInFile')
       /\ UNCHANGED <<requestVars, tail, rewound>>
    \/ /\ Notify(c)
       /\ Remember(Line(c))
       /\ UNCHANGED <<requestVars, numberVars>>

StoreStep ==
    \/ AppendCall /\ UNCHANGED readerVars
    \/ \E c \in Calls : StoreCall(c)

\* The service dies: a request in flight fails, the tail is gone, and the client asks again.
ServiceCrash ==
    /\ Crash
    /\ at' = IF at \in Snapshotting THEN "start"
             ELSE IF at \in Polling THEN "following" ELSE at
    /\ waiting' = None /\ tail' = <<>>
    /\ Put(LastInFile')
    /\ through' = 0
    /\ UNCHANGED <<cursor, applied, begun, cut, rewound>>

ReaderNext == ReaderStep \/ StoreStep \/ ServiceCrash

ReaderSpec == ReaderInit /\ [][ReaderNext]_allVars

\* The store's I/O completes and the client keeps asking; a file that can be read now and
\* then is read in the end.
ReaderFairSpec ==
    /\ ReaderSpec
    /\ WF_allVars(\E c \in Calls : StoreCall(c))
    /\ WF_allVars(ReaderStep)
    /\ SF_allVars(PollFile /\ UNCHANGED <<vars, numberVars>>)

-------------------------------------------------------------------------------
\* The client's cursor never passes an event it has not applied, and no event is applied
\* twice or after a newer one: whatever is in the file at or below the cursor, written
\* before or after the cursor moved, was applied in its turn, across snapshot, tail and
\* file, across failing, torn and unreadable files, and restarts (service.ts:124-137 and
\* 245-252; the CLI continues from it, cli/index.ts:59-61).  What it takes is that numbers
\* are not given twice: they are when a store that comes up finds a lower last line than one
\* that was there, because that line was spoiled since or the file cannot be read.
CursorSound ==
    /\ rewound \/ \A line \in LinesInFile : line.seq <= cursor => line \in Applied
    /\ misread \/ \A i, j \in 1..Len(applied) : i < j => applied[i].seq < applied[j].seq

\* A snapshot that could read the file holds every event that was there when it began and
\* was not lost meanwhile (service.ts:124-137).
SnapshotComplete ==
    at \in {"following"} \cup Polling =>
        cut \/ misread \/ begun \cap LinesInFile \subseteq Applied

\* A snapshot whose next page holds later events only, because the one it is to end at is
\* not in the file: the loop of service.ts:129-136 reads that page for ever.
Stuck ==
    /\ at \in {"loop", "page allocations", "page writes"} /\ cursor < through
    /\ Page(file, cursor) # <<>>
    /\ Only(Page(file, cursor), UpTo(through)) = <<>>

\* The client is served: it catches up with every line in the file whose append did not
\* fail, unless that line is lost again or numbers are rewound, and a snapshot it asked for
\* is answered; but for the snapshot that can never end.
ClientIsServed ==
    /\ \A c \in Calls :
          (pc[c] # "failed" /\ \E line \in LinesInFile : line.call = c)
              ~> \/ \E line \in Applied : line.call = c
                 \/ \A line \in LinesInFile : line.call # c
                 \/ rewound \/ Stuck
    /\ (at \in Snapshotting) ~> (at \notin Snapshotting \/ Stuck)
===============================================================================
