------------------------------ MODULE TaskEvents ------------------------------
(***************************************************************************)
(* One task's event log, as src/src/main/task-events.ts keeps it: a file   *)
(* of JSON lines, a cached last sequence, and two promise chains.  The     *)
(* allocation chain hands out sequence numbers (and shows each event to    *)
(* the live subscribers); the write chain puts the lines in the file (and  *)
(* then shows each event to the durable subscribers).                      *)
(*                                                                         *)
(* The store's maps are keyed by task and no operation touches two keys,   *)
(* so one task is modelled.  Calls of append are numbered in the order in  *)
(* which they are made; a call's number stands for its payload.            *)
(***************************************************************************)
EXTENDS Integers, Sequences

CONSTANTS
    MaxAppends,     \* how many times append is called
    MaxRemoves,     \* how many times remove is called
    MaxCrashes,     \* how many times the process dies and comes back
    WriteFaults,    \* TRUE if mkdir or appendFile may fail
    TornWrites,     \* TRUE if a failed or interrupted write may leave a part of its line
    ReadFaults      \* TRUE if reading or deleting the file may fail

ASSUME TaskEventsAssumption ==
    /\ MaxAppends \in Nat /\ MaxRemoves \in Nat /\ MaxCrashes \in Nat
    /\ WriteFaults \in BOOLEAN /\ TornWrites \in BOOLEAN /\ ReadFaults \in BOOLEAN

VARIABLES
    issued,         \* number of append calls made so far
    pc,             \* where each call is
    priorAlloc,     \* the allocation each call was chained behind
    priorWrite,     \* the write each call was chained behind
    seen,           \* the last sequence the call's allocation has read
    seq,            \* the sequence it was given: what live subscribers saw
    allocTail,      \* #allocations.get(taskId)
    writeTail,      \* #writes.get(taskId)
    cache,          \* #sequences.get(taskId)
    file,           \* the lines of the file that a reader can parse
    partial,        \* what stands behind the file's last newline: nothing, half a
                    \* line, or a whole line, which is file's last one
    removing,       \* where the current call of remove is
    awaited,        \* the promise that call of remove waits for
    removes, crashes,
    raced,          \* history: an append was under way while the log was removed
    misread         \* history: an allocation could not read the file and began at 1

callVars == <<issued, pc, priorAlloc, priorWrite, seen, seq>>
storeVars == <<allocTail, writeTail, cache>>
diskVars == <<file, partial>>
removeVars == <<removing, awaited, removes>>
vars == <<callVars, storeVars, diskVars, removeVars, crashes, raced, misread>>

Calls == 1..MaxAppends
None == 0           \* no promise, no cached sequence

Allocating == {"queued", "reading", "assigning"}
Writing == {"writing", "written"}
Unsettled == Allocating \cup Writing
Stages == {"unborn", "done", "failed", "lost"} \cup Unsettled

Lines == [call : Calls, seq : Nat \ {0}]

TypeOK ==
    /\ issued \in 0..MaxAppends
    /\ pc \in [Calls -> Stages]
    /\ priorAlloc \in [Calls -> Calls \cup {None}]
    /\ priorWrite \in [Calls -> Calls \cup {None}]
    /\ seen \in [Calls -> Nat]
    /\ seq \in [Calls -> Nat]
    /\ allocTail \in Calls \cup {None}
    /\ writeTail \in Calls \cup {None}
    /\ cache \in Nat
    /\ file \in Seq(Lines)
    /\ partial \in {"none", "half", "whole"}
    /\ removing \in {"no", "allocations", "writes", "cleared"}
    /\ awaited \in Calls \cup {None}
    /\ removes \in 0..MaxRemoves
    /\ crashes \in 0..MaxCrashes
    /\ raced \in BOOLEAN
    /\ misread \in BOOLEAN

\* Mutant: an allocation does not wait for the one before it.
AllocationsOverlap(c) == c \in Calls \cup {None}

\* A promise of either chain is over when there is none or its call has passed that chain.
AllocationSettled(c) == c # None => pc[c] \notin Allocating
\* Mutants: writes of one task overlap; a failed write holds up the ones behind it.
WritesOverlap(c) == c \in Calls \cup {None}
OnlySuccessSettles(c) == c # None => pc[c] \notin Writing \cup {"failed"}

WriteSettled(c) == c # None => pc[c] \notin Writing

\* #lastWritten without a cached value: the last line that parses, or nothing.
LastInFile == IF file = <<>> THEN 0 ELSE file[Len(file)].seq

Line(c) == [call |-> c, seq |-> seq[c]]

\* The lines that end in a newline.
Whole == IF partial = "whole" THEN SubSeq(file, 1, Len(file) - 1) ELSE file

At(c, stage) == pc' = [pc EXCEPT ![c] = stage]

Init ==
    /\ issued = 0
    /\ pc = [c \in Calls |-> "unborn"]
    /\ priorAlloc = [c \in Calls |-> None]
    /\ priorWrite = [c \in Calls |-> None]
    /\ seen = [c \in Calls |-> 0]
    /\ seq = [c \in Calls |-> 0]
    /\ allocTail = None /\ writeTail = None /\ cache = None
    /\ file = <<>> /\ partial = "none"
    /\ removing = "no" /\ awaited = None /\ removes = 0
    /\ crashes = 0
    /\ raced = FALSE /\ misread = FALSE

-------------------------------------------------------------------------------
(***************************************************************************)
(* append                                                                  *)
(***************************************************************************)

\* The synchronous part: join the allocation chain.
AppendCall ==
    /\ issued < MaxAppends
    /\ issued' = issued + 1
    /\ At(issued + 1, "queued")
    /\ priorAlloc' = [priorAlloc EXCEPT ![issued + 1] = allocTail]
    /\ allocTail' = issued + 1
    /\ raced' = (raced \/ removing = "cleared")
    /\ UNCHANGED <<priorWrite, seen, seq, writeTail, cache, diskVars, removeVars, crashes, misread>>

\* Mutant: the sequence is always read back from the file, past writes still under way.
LookUpInFile(c) ==
    /\ pc[c] = "queued"
    /\ AllocationSettled(priorAlloc[c])
    /\ At(c, "reading")
    /\ UNCHANGED <<issued, priorAlloc, priorWrite, seen, seq, storeVars, diskVars,
                   removeVars, crashes, raced, misread>>

\* #lastWritten: the cached sequence answers at once, the file is read otherwise.
LookUp(c) ==
    /\ pc[c] = "queued"
    /\ AllocationSettled(priorAlloc[c])
    /\ IF cache # None
          THEN At(c, "assigning") /\ seen' = [seen EXCEPT ![c] = cache]
          ELSE At(c, "reading") /\ UNCHANGED seen
    /\ UNCHANGED <<issued, priorAlloc, priorWrite, seq, storeVars, diskVars,
                   removeVars, crashes, raced, misread>>

\* A file that cannot be read counts as an empty one.
ReadLast(c) ==
    /\ pc[c] = "reading"
    /\ At(c, "assigning")
    /\ \E last \in {LastInFile} \cup (IF ReadFaults THEN {0} ELSE {}) :
          /\ seen' = [seen EXCEPT ![c] = last]
          /\ misread' = (misread \/ last # LastInFile)
    /\ UNCHANGED <<issued, priorAlloc, priorWrite, seq, storeVars, diskVars,
                   removeVars, crashes, raced>>

\* The rest of the allocation is synchronous: name the event, cache the sequence,
\* show it to the live subscribers, join the write chain.
Assign(c) ==
    /\ pc[c] = "assigning"
    /\ At(c, "writing")
    /\ seq' = [seq EXCEPT ![c] = seen[c] + 1]
    /\ cache' = seen[c] + 1
    /\ priorWrite' = [priorWrite EXCEPT ![c] = writeTail]
    /\ writeTail' = c
    /\ allocTail' = IF allocTail = c THEN None ELSE allocTail
    /\ UNCHANGED <<issued, priorAlloc, seen, diskVars, removeVars, crashes, raced, misread>>

MayWrite(c) == pc[c] = "writing" /\ WriteSettled(priorWrite[c])

\* appendFile.  A line put behind one that lacks its newline shares that line, and the
\* two parse no more: both are spent, and the newline it brings ends the damage.
WriteLine(c) ==
    /\ MayWrite(c)
    /\ At(c, "written")
    /\ file' = IF partial = "none" THEN Append(file, Line(c)) ELSE Whole
    /\ partial' = "none"
    /\ UNCHANGED <<issued, priorAlloc, priorWrite, seen, seq, storeVars,
                   removeVars, crashes, raced, misread>>

\* An appendFile that does not come to its end leaves nothing, a part of its line, or
\* the line without its newline, which parses until the next byte is put behind it.
Tear(c) ==
    \/ UNCHANGED diskVars
    \/ TornWrites /\ file' = Whole /\ partial' = "half"
    \/ TornWrites /\ partial = "none" /\ file' = Append(file, Line(c)) /\ partial' = "whole"

\* mkdir or appendFile rejects, and so does the call; the chain goes on behind it.
WriteFails(c) ==
    /\ WriteFaults
    /\ MayWrite(c)
    /\ At(c, "failed")
    /\ Tear(c)
    /\ writeTail' = IF writeTail = c THEN None ELSE writeTail
    /\ UNCHANGED <<issued, priorAlloc, priorWrite, seen, seq, allocTail, cache,
                   removeVars, crashes, raced, misread>>

\* The durable subscribers are called and the call's promise resolves.
Notify(c) ==
    /\ pc[c] = "written"
    /\ At(c, "done")
    /\ writeTail' = IF writeTail = c THEN None ELSE writeTail
    /\ UNCHANGED <<issued, priorAlloc, priorWrite, seen, seq, allocTail, cache,
                   diskVars, removeVars, crashes, raced, misread>>

-------------------------------------------------------------------------------
(***************************************************************************)
(* remove: wait for the allocation chain as it is now, then for the write  *)
(* chain as it is then, forget the task, delete its file.                  *)
(***************************************************************************)

RemoveStart ==
    /\ removing = "no" /\ removes < MaxRemoves
    /\ removing' = "allocations" /\ awaited' = allocTail /\ removes' = removes + 1
    /\ UNCHANGED <<callVars, storeVars, diskVars, crashes, raced, misread>>

RemoveAwaitWrites ==
    /\ removing = "allocations" /\ AllocationSettled(awaited)
    /\ removing' = "writes" /\ awaited' = writeTail
    /\ UNCHANGED <<callVars, storeVars, diskVars, removes, crashes, raced, misread>>

RemoveForget ==
    /\ removing = "writes" /\ WriteSettled(awaited)
    /\ removing' = "cleared" /\ awaited' = None
    /\ allocTail' = None /\ writeTail' = None /\ cache' = None
    /\ raced' = (raced \/ \E c \in Calls : pc[c] \in Unsettled)
    /\ UNCHANGED <<callVars, diskVars, removes, crashes, misread>>

\* The file is gone, or cannot be deleted and stays.
RemoveFile ==
    /\ removing = "cleared"
    /\ removing' = "no"
    /\ \/ file' = <<>> /\ partial' = "none"
       \/ ReadFaults /\ UNCHANGED diskVars
    /\ UNCHANGED <<callVars, storeVars, awaited, removes, crashes, raced, misread>>

-------------------------------------------------------------------------------
\* The process dies, perhaps in the middle of a line, and a new store opens the file.
Crash ==
    /\ crashes < MaxCrashes
    /\ crashes' = crashes + 1
    /\ pc' = [c \in Calls |-> IF pc[c] \in Unsettled THEN "lost" ELSE pc[c]]
    /\ \/ UNCHANGED diskVars
       \/ \E c \in Calls : MayWrite(c) /\ Tear(c)
    /\ allocTail' = None /\ writeTail' = None /\ cache' = None
    /\ removing' = "no" /\ awaited' = None
    /\ UNCHANGED <<issued, priorAlloc, priorWrite, seen, seq, removes, raced, misread>>

CallStep(c) ==
    \/ LookUp(c) \/ ReadLast(c) \/ Assign(c)
    \/ WriteLine(c) \/ WriteFails(c) \/ Notify(c)

RemoveStep == RemoveAwaitWrites \/ RemoveForget \/ RemoveFile

Next ==
    \/ AppendCall
    \/ \E c \in Calls : CallStep(c)
    \/ RemoveStart \/ RemoveStep
    \/ Crash

Spec == Init /\ [][Next]_vars

\* Promises settle and I/O completes; nobody has to append, remove or crash.
Fairness ==
    /\ \A c \in Calls : WF_vars(CallStep(c))
    /\ WF_vars(RemoveStep)

FairSpec == Spec /\ Fairness

-------------------------------------------------------------------------------
(***************************************************************************)
(* What the store promises while no append is under way on a log that is   *)
(* being removed (host/service.ts and main/index.ts refuse to delete a     *)
(* task with a running turn).                                              *)
(***************************************************************************)

\* The lines of the file are numbered upwards: no number twice, none out of order,
\* whatever calls overlap, fail or are cut off by a restart (task-events.ts:28-59), as
\* long as the file could be read when numbering began (the catch of task-events.ts:129).
LogIncreasing ==
    raced \/ misread \/ \A i, j \in 1..Len(file) : i < j => file[i].seq < file[j].seq

\* The lines stand in the order in which append was called (both chains are first in,
\* first out, also past a write that failed).
LogInCallOrder ==
    raced \/ \A i, j \in 1..Len(file) : i < j => file[i].call < file[j].call

\* While the process lives, the cached sequence is never behind the file, so the next
\* number is fresh even though it is no longer read from the file.
CacheNotBehind == raced \/ misread \/ cache = None \/ LastInFile <= cache

\* Every call of append and of remove settles: no failed write and no overlapping removal
\* leaves a later call waiting for ever (task-events.ts:29-46, 98-106).
CallsSettle ==
    /\ \A c \in Calls : (pc[c] = "queued") ~> (pc[c] \notin Unsettled)
    /\ (removing # "no") ~> (removing = "no")

-------------------------------------------------------------------------------
(***************************************************************************)
(* The abstract log the file implements.                                   *)
(***************************************************************************)

\* The calls that were told nothing good, or nothing at all.
Unanswered == {c \in Calls : pc[c] \in {"failed", "lost"}}

Log == INSTANCE EventLog WITH Events <- Calls, log <- file, loose <- Unanswered

\* What readers see of the file is the abstract log: it grows by one higher-numbered,
\* new line at its end, loses at most a last line whose append was never answered with
\* success, or is removed as a whole (task-events.ts:36-46, 105).
LogContract == Log!Init /\ [][raced' \/ misread' \/ Log!Next]_file
===============================================================================
