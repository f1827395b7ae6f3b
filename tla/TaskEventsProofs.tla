--------------------------- MODULE TaskEventsProofs ---------------------------
(***************************************************************************)
(* Proofs about the event log of TaskEvents, for any number of calls,      *)
(* removals and crashes: type correctness, the order of the log, and the   *)
(* implementation of EventLog.  Then about its readers, HostEventReader,   *)
(* for any page size and any length of the tail: what the client holds is  *)
(* what the file has up to its cursor, and a snapshot leaves nothing out.  *)
(***************************************************************************)
EXTENDS HostEventReader, SequenceTheorems, FiniteSetTheorems, WellFoundedInduction, TLAPS

(***************************************************************************)
(* The inductive invariant.  Calls are numbered in the order in which they *)
(* are made, so "the chain is first in, first out" is a statement about    *)
(* numbers: whoever waits, waits for the youngest of its elders.           *)
(***************************************************************************)
InAllocation(c) == pc[c] \in Allocating
InWrite(c) == pc[c] \in Writing

\* Calls are born in order, and the log holds only calls that were made.
BornInOrder ==
    /\ \A c \in Calls : pc[c] = "unborn" <=> c > issued
    /\ \A i \in 1..Len(file) : file[i].call <= issued

\* The allocation chain.
AllocationChain ==
    /\ \A c, d \in Calls : InAllocation(c) /\ InAllocation(d) /\ d < c =>
          /\ priorAlloc[c] \in Calls /\ InAllocation(priorAlloc[c])
          /\ d <= priorAlloc[c] /\ priorAlloc[c] < c
    /\ \A c \in Calls : InAllocation(c) =>
          allocTail \in Calls /\ InAllocation(allocTail) /\ c <= allocTail
    /\ \A c, d \in Calls : pc[c] \in {"reading", "assigning"} /\ InAllocation(d) => c <= d

\* The write chain, which calls join in their order.
WriteChain ==
    /\ \A c, d \in Calls : InWrite(c) /\ InWrite(d) /\ d < c =>
          /\ priorWrite[c] \in Calls /\ InWrite(priorWrite[c])
          /\ d <= priorWrite[c] /\ priorWrite[c] < c
    /\ \A c \in Calls : InWrite(c) =>
          writeTail \in Calls /\ InWrite(writeTail) /\ c <= writeTail
    /\ \A c, d \in Calls : pc[c] = "written" /\ InWrite(d) => c <= d
    /\ \A c, d \in Calls : InAllocation(c) /\ InWrite(d) => d < c

\* What is in the file is older than what is still to come.
FileBehindCalls ==
    \A i \in 1..Len(file), c \in Calls :
        InAllocation(c) \/ pc[c] = "writing" => file[i].call < c

\* A line without its newline is one of a call that failed or was cut off.
TornIsLoose ==
    partial = "whole" => file # <<>> /\ pc[file[Len(file)].call] \in {"failed", "lost"}

\* What an allocation builds on is at least every number handed out and not yet lost, as
\* long as the file could be read.
NumbersKnown ==
    /\ \A c, d \in Calls : InWrite(c) /\ InWrite(d) /\ d < c => seq[d] < seq[c]
    /\ \A i \in 1..Len(file), c \in Calls : pc[c] = "writing" => file[i].seq < seq[c]
    /\ \A c \in Calls : pc[c] = "reading" => cache = None
    /\ \A c \in Calls : InWrite(c) => cache # None /\ seq[c] <= cache
    /\ cache # None => \A i \in 1..Len(file) : file[i].seq <= cache
    /\ \A c \in Calls : pc[c] = "assigning" =>
          /\ \A i \in 1..Len(file) : file[i].seq <= seen[c]
          /\ \A d \in Calls : InWrite(d) => seq[d] <= seen[c]
    /\ \A i, j \in 1..Len(file) : i < j => file[i].seq < file[j].seq

\* Between forgetting the log and deleting its file nothing is under way.
ClearedIsQuiet ==
    removing = "cleared" => cache = None /\ \A c \in Calls : pc[c] \notin Unsettled

OrderInv ==
    /\ BornInOrder
    /\ AllocationChain
    /\ WriteChain
    /\ FileBehindCalls
    /\ TornIsLoose
    /\ ClearedIsQuiet
    /\ LogInCallOrder
    /\ misread \/ NumbersKnown

\* Numbers that were given out are positive.
GivenPositive == \A c \in Calls : pc[c] \in Writing => seq[c] # 0

\* A whole line without its newline is there.
TornIsThere == partial = "whole" => file # <<>>

TypeInv == TypeOK /\ GivenPositive /\ TornIsThere

IInv == TypeInv /\ (raced \/ OrderInv)

-------------------------------------------------------------------------------
(***************************************************************************)
(* Type correctness.                                                       *)
(***************************************************************************)

LEMMA LastInFileType ==
    ASSUME file \in Seq(Lines)
    PROVE  /\ LastInFile \in Nat
           /\ file = <<>> <=> Len(file) = 0
           /\ Len(file) \in Nat
           /\ \A i \in 1..Len(file) : file[i] \in Lines
<1>1. /\ Len(file) \in Nat
      /\ file = <<>> <=> Len(file) = 0
      /\ \A i \in 1..Len(file) : file[i] \in Lines
  OBVIOUS
<1>2. \A line \in Lines : line.seq \in Nat
  BY DEF Lines
<1>3. LastInFile \in Nat
  BY <1>1, <1>2 DEF LastInFile
<1> QED
  BY <1>1, <1>3

\* A sequence without its last line.
LEMMA Front ==
    ASSUME NEW lines \in Seq(Lines), lines # <<>>
    PROVE  LET front == SubSeq(lines, 1, Len(lines) - 1)
           IN  /\ front \in Seq(Lines) /\ Len(front) = Len(lines) - 1
               /\ \A i \in 1..Len(front) : front[i] = lines[i]
<1> DEFINE n == Len(lines) - 1
           front == SubSeq(lines, 1, n)
<1>1. n \in Nat /\ \A i \in 1..n : lines[i] \in Lines
  OBVIOUS
<1> HIDE DEF n
<1>2. /\ front \in Seq(Lines) /\ Len(front) = (IF 1 <= n THEN n - 1 + 1 ELSE 0)
      /\ \A i \in 1..(n - 1 + 1) : front[i] = lines[1 + i - 1]
  BY <1>1, SubSeqProperties
<1> HIDE DEF front
<1>3. Len(front) = n /\ \A i \in 1..n : front[i] = lines[i]
  BY <1>1, <1>2
<1> QED
  BY <1>2, <1>3 DEF n, front

\* What a write, whole or torn, makes of the file: a part of what it was and at most the
\* writer's line behind all of it.
LEMMA FileAfter ==
    ASSUME TypeInv, NEW c \in Calls, pc[c] = "writing", WriteLine(c) \/ Tear(c)
    PROVE  /\ file' \in Seq(Lines) /\ partial' \in {"none", "half", "whole"}
           /\ \A i \in 1..Len(file') :
                 \/ i \in 1..Len(file) /\ file'[i] = file[i]
                 \/ i = Len(file) + 1 /\ file'[i] = Line(c)
           /\ partial' = "whole" =>
                 /\ file' # <<>>
                 /\ (UNCHANGED file /\ partial = "whole") \/ file'[Len(file')] = Line(c)
<1>1. /\ file \in Seq(Lines) /\ partial \in {"none", "half", "whole"}
      /\ partial = "whole" => file # <<>>
  BY DEF TypeInv, TypeOK, TornIsThere
<1>2. Line(c) \in Lines
  BY DEF TypeInv, TypeOK, GivenPositive, Writing, Line, Lines
<1>3. CASE file' = Whole /\ partial' \in {"none", "half"}
  <2>1. CASE partial = "whole"
    <3>1. /\ file' \in Seq(Lines) /\ Len(file') = Len(file) - 1 /\ Len(file) \in Nat
          /\ \A i \in 1..Len(file') : file'[i] = file[i]
      BY <1>1, <1>3, <2>1, Front DEF Whole
    <3> QED
      BY <1>3, <3>1
  <2>2. CASE partial # "whole"
    BY <1>1, <1>3, <2>2 DEF Whole
  <2> QED
    BY <2>1, <2>2
<1>4. CASE file' = Append(file, Line(c)) /\ partial' \in {"none", "whole"}
  <2>1. PICK line \in Lines : line = Line(c)
    BY <1>2
  <2>2. /\ file' \in Seq(Lines) /\ file' # <<>> /\ Len(file') = Len(file) + 1
        /\ file'[Len(file) + 1] = line /\ Len(file) \in Nat
        /\ \A i \in 1..Len(file) : file'[i] = file[i]
    BY <1>1, <1>4, <2>1
  <2> QED
    BY <1>4, <2>1, <2>2
<1>5. CASE UNCHANGED diskVars
  BY <1>1, <1>5 DEF diskVars
<1> QED
  BY <1>3, <1>4, <1>5 DEF WriteLine, Tear

LEMMA TypeInit == Init => TypeInv
<1> SUFFICES ASSUME Init PROVE TypeInv
  OBVIOUS
<1>1. file \in Seq(Lines)
  BY DEF Init
<1>2. /\ issued \in 0..MaxAppends /\ removes \in 0..MaxRemoves /\ crashes \in 0..MaxCrashes
      /\ cache \in Nat
  BY TaskEventsAssumption DEF TaskEventsAssumption, Init, None
<1>3. /\ pc \in [Calls -> Stages] /\ \A c \in Calls : pc[c] \notin Writing
      /\ priorAlloc \in [Calls -> Calls \cup {None}]
      /\ priorWrite \in [Calls -> Calls \cup {None}]
      /\ seen \in [Calls -> Nat] /\ seq \in [Calls -> Nat]
  BY DEF Init, Stages, Unsettled, Allocating, Writing
<1>4. /\ allocTail \in Calls \cup {None} /\ writeTail \in Calls \cup {None}
      /\ awaited \in Calls \cup {None}
      /\ partial = "none" /\ raced \in BOOLEAN /\ misread \in BOOLEAN
      /\ removing \in {"no", "allocations", "writes", "cleared"}
  BY DEF Init
<1> QED
  BY <1>1, <1>2, <1>3, <1>4 DEF TypeInv, TypeOK, GivenPositive, TornIsThere

LEMMA ForgetNotes == RemoveForget => raced' \in BOOLEAN
<1> DEFINE met == \E c \in Calls : pc[c] \in Unsettled
<1>1. RemoveForget => raced' = (raced \/ met)
  BY DEF RemoveForget
<1> HIDE DEF met
<1> QED
  BY <1>1, Zenon

LEMMA TypeStep == TypeInv /\ [Next]_vars => TypeInv'
<1> SUFFICES ASSUME TypeInv, [Next]_vars PROVE TypeInv'
  OBVIOUS
<1> USE TaskEventsAssumption DEF TaskEventsAssumption, TypeInv, TypeOK, GivenPositive, TornIsThere, Calls, None, Stages, Unsettled,
        Allocating, Writing, At
<1>1. CASE AppendCall
  <2>1. raced' \in BOOLEAN
    BY <1>1, Zenon DEF AppendCall
  <2>2. issued + 1 \in Calls
    BY <1>1 DEF AppendCall
  <2>3. /\ pc' \in [Calls -> Stages]
        /\ \A c \in Calls : pc'[c] \in Writing => pc[c] \in Writing
    BY <1>1, <2>2 DEF AppendCall
  <2>4. /\ issued' \in 0..MaxAppends /\ allocTail' \in Calls \cup {None}
        /\ priorAlloc' \in [Calls -> Calls \cup {None}]
    BY <1>1, <2>2 DEF AppendCall
  <2>5. UNCHANGED <<priorWrite, seen, seq, writeTail, cache, file, partial, removing, awaited,
                    removes, crashes, misread>>
    BY <1>1 DEF AppendCall, diskVars, removeVars
  <2> QED
    BY <2>1, <2>3, <2>4, <2>5
<1>2. ASSUME NEW c \in Calls, LookUp(c) PROVE TypeInv'
  BY <1>2 DEF LookUp, storeVars, diskVars, removeVars
<1>3. ASSUME NEW c \in Calls, ReadLast(c) PROVE TypeInv'
  <2>1. PICK last \in Nat : seen' = [seen EXCEPT ![c] = last] /\ misread' = (misread \/ last # LastInFile)
    BY <1>3, LastInFileType DEF ReadLast
  <2>2. misread' \in BOOLEAN
    BY <2>1, Zenon
  <2>3. /\ pc' \in [Calls -> Stages] /\ \A d \in Calls : pc'[d] \in Writing => pc[d] \in Writing
        /\ UNCHANGED <<issued, priorAlloc, priorWrite, seq, allocTail, writeTail, cache, file,
                       partial, removing, awaited, removes, crashes, raced>>
    BY <1>3 DEF ReadLast, storeVars, diskVars, removeVars
  <2>4. seen' \in [Calls -> Nat]
    BY <2>1
  <2> QED
    BY <2>2, <2>3, <2>4
<1>4. ASSUME NEW c \in Calls, Assign(c) PROVE TypeInv'
  <2>1. UNCHANGED <<issued, priorAlloc, seen, file, partial, removing, awaited, removes, crashes,
                    raced, misread>>
    BY <1>4 DEF Assign, diskVars, removeVars
  <2>2. /\ pc' \in [Calls -> Stages] /\ cache' \in Nat
        /\ priorWrite' \in [Calls -> Calls \cup {None}]
        /\ allocTail' \in Calls \cup {None} /\ writeTail' \in Calls \cup {None}
    BY <1>4 DEF Assign
  <2>3. seq' \in [Calls -> Nat]
    BY <1>4 DEF Assign
  <2>4. \A d \in Calls : pc'[d] \in Writing => seq'[d] # 0
    BY <1>4 DEF Assign
  <2> QED
    BY <2>1, <2>2, <2>3, <2>4
<1>5. ASSUME NEW c \in Calls, WriteLine(c) PROVE TypeInv'
  <2>1. file' \in Seq(Lines)
    BY <1>5, FileAfter DEF WriteLine, MayWrite
  <2> QED
    BY <1>5, <2>1 DEF WriteLine, MayWrite, storeVars, removeVars
<1>6. ASSUME NEW c \in Calls, WriteFails(c) PROVE TypeInv'
  <2>1. /\ file' \in Seq(Lines) /\ partial' \in {"none", "half", "whole"}
        /\ partial' = "whole" => file' # <<>>
    BY <1>6, FileAfter DEF WriteFails, MayWrite
  <2> QED
    BY <1>6, <2>1 DEF WriteFails, removeVars
<1>7. ASSUME NEW c \in Calls, Notify(c) PROVE TypeInv'
  BY <1>7 DEF Notify, diskVars, removeVars
<1>8. CASE RemoveStart
  BY <1>8 DEF RemoveStart, callVars, storeVars, diskVars
<1>9. CASE RemoveAwaitWrites
  BY <1>9 DEF RemoveAwaitWrites, callVars, storeVars, diskVars
<1>10. CASE RemoveForget
  <2>1. raced' \in BOOLEAN
    BY <1>10, ForgetNotes
  <2> QED
    BY <1>10, <2>1 DEF RemoveForget, callVars, diskVars
<1>11. CASE RemoveFile
  <2>1. /\ file' \in Seq(Lines) /\ partial' \in {"none", "half", "whole"}
        /\ partial' = "whole" => file' # <<>>
    <3>1. CASE file' = <<>> /\ partial' = "none"
      BY <3>1
    <3>2. CASE UNCHANGED <<file, partial>>
      BY <3>2
    <3> QED
      BY <1>11, <3>1, <3>2 DEF RemoveFile, diskVars
  <2> QED
    BY <1>11, <2>1 DEF RemoveFile, callVars, storeVars
<1>12. CASE Crash
  <2>1. pc' \in [Calls -> Stages] /\ \A c \in Calls : pc'[c] \notin Writing
    BY <1>12 DEF Crash
  <2>2. /\ file' \in Seq(Lines) /\ partial' \in {"none", "half", "whole"}
        /\ partial' = "whole" => file' # <<>>
    <3>1. CASE UNCHANGED diskVars
      BY <3>1 DEF diskVars
    <3>2. ASSUME NEW c \in Calls, MayWrite(c), Tear(c)
          PROVE  /\ file' \in Seq(Lines) /\ partial' \in {"none", "half", "whole"}
                 /\ partial' = "whole" => file' # <<>>
      BY <3>2, FileAfter DEF MayWrite
    <3> QED
      BY <1>12, <3>1, <3>2 DEF Crash
  <2> QED
    BY <1>12, <2>1, <2>2 DEF Crash
<1>13. CASE UNCHANGED vars
  BY <1>13 DEF vars, callVars, storeVars, diskVars, removeVars
<1> QED
  BY <1>1, <1>2, <1>3, <1>4, <1>5, <1>6, <1>7, <1>8, <1>9, <1>10, <1>11, <1>12, <1>13
  DEF Next, CallStep, RemoveStep

\* Every variable keeps its type: no stored line is numbered 0, no promise of a chain
\* refers to a call that was not made (task-events.ts:14-23).
THEOREM TypeCorrect == Spec => []TypeOK
<1>1. Spec => []TypeInv
  BY TypeInit, TypeStep, PTL DEF Spec
<1> QED
  BY <1>1, PTL DEF TypeInv
-------------------------------------------------------------------------------
(***************************************************************************)
(* The order of the log.                                                   *)
(***************************************************************************)

LEMMA OrderInit == Init => OrderInv
  BY DEF Init, OrderInv, BornInOrder, AllocationChain, WriteChain, FileBehindCalls, NumbersKnown,
      TornIsLoose, ClearedIsQuiet, LogInCallOrder, InAllocation, InWrite, Calls, None,
      Unsettled, Allocating, Writing

\* A write, whole or torn, keeps the file behind the calls to come, whatever becomes of the
\* writer.
LEMMA FileOrdered ==
    ASSUME TypeInv, OrderInv, ~raced, NEW c \in Calls, MayWrite(c), WriteLine(c) \/ Tear(c)
    PROVE  /\ \A i \in 1..Len(file') : file'[i].call <= issued
           /\ \A i, j \in 1..Len(file') : i < j => file'[i].call < file'[j].call
           /\ \A i \in 1..Len(file'), d \in Calls :
                 InAllocation(d) \/ (pc[d] = "writing" /\ d # c) => file'[i].call < d
           /\ partial' = "whole" =>
                 /\ file' # <<>>
                 /\ \/ file'[Len(file')].call = c
                    \/ pc[file'[Len(file')].call] \in {"failed", "lost"}
           /\ ~misread =>
                 /\ \A i \in 1..Len(file'), d \in Calls :
                       pc[d] = "writing" /\ d # c => file'[i].seq < seq[d]
                 /\ cache # None /\ \A i \in 1..Len(file') : file'[i].seq <= cache
                 /\ \A i \in 1..Len(file'), d \in Calls :
                       pc[d] = "assigning" => file'[i].seq <= seen[d]
                 /\ \A i, j \in 1..Len(file') : i < j => file'[i].seq < file'[j].seq
<1> USE DEF Calls, None, Unsettled, Allocating, Writing, InAllocation, InWrite
<1>1. /\ pc[c] = "writing" /\ \A d \in Calls : InWrite(d) => c <= d
      /\ c <= issued /\ issued \in Nat
  BY DEF MayWrite, WriteSettled, OrderInv, WriteChain, BornInOrder, TypeInv, TypeOK
<1>2. /\ Len(file) \in Nat /\ Len(file') \in Nat
      /\ \A i \in 1..Len(file) : file[i].call \in Calls /\ file[i].seq \in Nat
      /\ \A d \in Calls : seq[d] \in Nat /\ seen[d] \in Nat
      /\ cache \in Nat
  <2>1. file \in Seq(Lines) /\ file' \in Seq(Lines)
    BY <1>1, FileAfter DEF TypeInv, TypeOK
  <2>2. Len(file) \in Nat /\ Len(file') \in Nat /\ \A i \in 1..Len(file) : file[i] \in Lines
    BY <2>1
  <2>3. \A x \in Lines : x.call \in Calls /\ x.seq \in Nat
    BY DEF Lines
  <2>4. seq \in [Calls -> Nat] /\ seen \in [Calls -> Nat] /\ cache \in Nat
    BY DEF TypeInv, TypeOK
  <2> QED
    BY <2>2, <2>3, <2>4
<1>3. \A i \in 1..Len(file') :
          \/ i \in 1..Len(file) /\ file'[i] = file[i]
          \/ i = Len(file) + 1 /\ file'[i].call = c /\ file'[i].seq = seq[c]
  <2>1. \A i \in 1..Len(file') :
           \/ i \in 1..Len(file) /\ file'[i] = file[i]
           \/ i = Len(file) + 1 /\ file'[i] = Line(c)
    BY <1>1, FileAfter
  <2>2. Line(c).call = c /\ Line(c).seq = seq[c]
    BY DEF Line
  <2> QED
    BY <2>1, <2>2
<1>4. \A i \in 1..Len(file) : file[i].call < c /\ file[i].call <= issued
  BY <1>1, <1>2 DEF OrderInv, FileBehindCalls, BornInOrder
<1>5. \A i, j \in 1..Len(file') : i < j =>
          /\ i \in 1..Len(file) /\ file'[i] = file[i]
          /\ \/ j \in 1..Len(file) /\ file'[j] = file[j]
             \/ file'[j].call = c /\ file'[j].seq = seq[c]
  BY <1>2, <1>3
<1>6. \A i, j \in 1..Len(file') : i < j => file'[i].call < file'[j].call
  BY <1>4, <1>5 DEF OrderInv, LogInCallOrder
<1>7. \A d \in Calls : InAllocation(d) \/ (pc[d] = "writing" /\ d # c) => c < d
  BY <1>1 DEF OrderInv, WriteChain
<1>8. \A i \in 1..Len(file'), d \in Calls :
          InAllocation(d) \/ (pc[d] = "writing" /\ d # c) => file'[i].call < d
  BY <1>2, <1>3, <1>4, <1>7
<1>9. partial' = "whole" => /\ file' # <<>>
                            /\ \/ file'[Len(file')].call = c
                               \/ pc[file'[Len(file')].call] \in {"failed", "lost"}
  <2>1. partial' = "whole" =>
          /\ file' # <<>>
          /\ (UNCHANGED file /\ partial = "whole") \/ file'[Len(file')] = Line(c)
    BY <1>1, FileAfter
  <2> QED
    BY <2>1 DEF OrderInv, TornIsLoose, Line
<1>10. ASSUME ~misread
       PROVE  /\ \A i \in 1..Len(file'), d \in Calls :
                    pc[d] = "writing" /\ d # c => file'[i].seq < seq[d]
              /\ cache # None /\ \A i \in 1..Len(file') : file'[i].seq <= cache
              /\ \A i \in 1..Len(file'), d \in Calls :
                    pc[d] = "assigning" => file'[i].seq <= seen[d]
              /\ \A i, j \in 1..Len(file') : i < j => file'[i].seq < file'[j].seq
  <2>0. NumbersKnown
    BY <1>10 DEF OrderInv
  <2>1. /\ cache # None /\ seq[c] <= cache
        /\ \A d \in Calls : pc[d] = "assigning" => seq[c] <= seen[d]
        /\ \A d \in Calls : pc[d] = "writing" /\ d # c => seq[c] < seq[d]
        /\ \A i \in 1..Len(file) : file[i].seq < seq[c]
    BY <1>1, <1>7, <2>0 DEF NumbersKnown
  <2>2. \A i \in 1..Len(file'), d \in Calls : pc[d] = "writing" /\ d # c => file'[i].seq < seq[d]
    BY <1>2, <1>3, <2>0, <2>1 DEF NumbersKnown
  <2>3. \A i \in 1..Len(file') : file'[i].seq <= cache
    BY <1>3, <2>0, <2>1 DEF NumbersKnown
  <2>4. \A i \in 1..Len(file'), d \in Calls : pc[d] = "assigning" => file'[i].seq <= seen[d]
    BY <1>3, <2>0, <2>1 DEF NumbersKnown
  <2>5. \A i, j \in 1..Len(file') : i < j => file'[i].seq < file'[j].seq
    BY <1>5, <2>0, <2>1 DEF NumbersKnown
  <2> QED
    BY <2>1, <2>2, <2>3, <2>4, <2>5
<1>11. \A i \in 1..Len(file') : file'[i].call <= issued
  BY <1>1, <1>3, <1>4
<1> QED
  BY <1>6, <1>8, <1>9, <1>10, <1>11

\* A race or a misreading once noted stays noted.
LEMMA NotesStay == [Next]_vars => (raced => raced') /\ (misread => misread')
<1> SUFFICES ASSUME [Next]_vars PROVE (raced => raced') /\ (misread => misread')
  OBVIOUS
<1>1. ASSUME NEW c \in Calls, ReadLast(c) PROVE (raced => raced') /\ (misread => misread')
  <2>1. PICK last : misread' = (misread \/ last # LastInFile) /\ raced' = raced
    BY <1>1 DEF ReadLast
  <2> QED
    BY <2>1
<1>2. ASSUME NEW met, raced' = (raced \/ met), misread' = misread
      PROVE  (raced => raced') /\ (misread => misread')
  BY <1>2
<1>3. ASSUME NEW c \in Calls, LookUp(c) \/ Assign(c) \/ WriteLine(c) \/ WriteFails(c) \/ Notify(c)
      PROVE  UNCHANGED misread /\ raced' = raced
  BY <1>3 DEF LookUp, Assign, WriteLine, WriteFails, Notify
<1>4. CASE AppendCall
  <2>1. PICK met : met = (removing = "cleared")
    OBVIOUS
  <2>2. raced' = (raced \/ met) /\ misread' = misread
    BY <1>4, <2>1 DEF AppendCall
  <2> QED
    BY <1>2, <2>2
<1>5. CASE RemoveForget
  <2>1. PICK met : met = \E c \in Calls : pc[c] \in Unsettled
    OBVIOUS
  <2>2. raced' = (raced \/ met) /\ misread' = misread
    BY <1>5, <2>1 DEF RemoveForget
  <2> QED
    BY <1>2, <2>2
<1>6. CASE RemoveStart \/ RemoveAwaitWrites \/ RemoveFile \/ Crash \/ UNCHANGED vars
  BY <1>6 DEF RemoveStart, RemoveAwaitWrites, RemoveFile, Crash, vars
<1> QED
  BY <1>1, <1>2, <1>3, <1>4, <1>5, <1>6 DEF Next, CallStep, RemoveStep

LEMMA OrderStep == IInv /\ [Next]_vars /\ ~raced' => OrderInv'
<1> SUFFICES ASSUME IInv, [Next]_vars, ~raced' PROVE OrderInv'
  OBVIOUS
<1>0. TypeInv /\ TypeInv' /\ ~raced
  <2>1. TypeInv
    BY DEF IInv
  <2>2. TypeInv'
    BY <2>1, TypeStep
  <2> QED
    BY <2>1, <2>2, NotesStay
<1>a. OrderInv
  BY <1>0 DEF IInv
<1> USE DEF Calls, None, Unsettled, Allocating, Writing, InAllocation, InWrite
<1>b. /\ Len(file) \in Nat
      /\ \A i \in 1..Len(file) : file[i] \in Lines /\ file[i].call \in Calls /\ file[i].seq \in Nat
  <2>1. Len(file) \in Nat /\ \A i \in 1..Len(file) : file[i] \in Lines
    BY <1>0, LastInFileType DEF TypeInv, TypeOK
  <2> QED
    BY <2>1 DEF Lines
<1>c. ~misread' => NumbersKnown
  BY <1>a, NotesStay DEF OrderInv
<1>1. CASE AppendCall
  <2> DEFINE n == issued + 1
  <2>1. /\ n \in Calls /\ issued' = n /\ issued \in Nat
        /\ pc' = [pc EXCEPT ![n] = "queued"]
        /\ priorAlloc' = [priorAlloc EXCEPT ![n] = allocTail]
        /\ allocTail' = n
        /\ UNCHANGED <<priorWrite, seen, seq, writeTail, cache, file, partial, removing>>
    BY <1>1, <1>0 DEF AppendCall, At, diskVars, removeVars, TypeInv, TypeOK
  <2>0. removing # "cleared"
    BY <1>1, Zenon DEF AppendCall
  <2>2. /\ pc'[n] = "queued" /\ pc[n] = "unborn"
        /\ \A c \in Calls : c # n => pc'[c] = pc[c] /\ priorAlloc'[c] = priorAlloc[c]
        /\ priorAlloc'[n] = allocTail
        /\ \A c \in Calls : pc[c] \in Unsettled => c <= issued /\ c # n
    BY <2>1, <1>0, <1>a DEF TypeInv, TypeOK, OrderInv, BornInOrder
  <2> HIDE DEF n
  <2>3. BornInOrder'
    <3>1. \A c \in Calls : pc'[c] = "unborn" <=> c > n
      BY <2>1, <2>2, <1>a DEF OrderInv, BornInOrder, n
    <3>2. \A i \in 1..Len(file) : file[i].call <= n
      BY <1>a, <1>b, <2>1 DEF OrderInv, BornInOrder, n
    <3> QED
      BY <2>1, <3>1, <3>2 DEF BornInOrder
  <2>4. AllocationChain'
    <3>1. AllocationChain
      BY <1>a DEF OrderInv
    <3>2. \A c \in Calls : pc'[c] \in Allocating => c = n \/ (InAllocation(c) /\ c < n)
      BY <2>1, <2>2 DEF n
    <3>3. \A c \in Calls : c # n /\ InAllocation(c) => /\ pc'[c] \in Allocating
                                                     /\ priorAlloc'[c] = priorAlloc[c]
      BY <2>2
    <3>4. \A c \in Calls : InAllocation(c) => /\ allocTail \in Calls /\ InAllocation(allocTail)
                                              /\ c <= allocTail /\ allocTail < n
      BY <2>2, <3>1, <3>2 DEF AllocationChain, n
    <3>5. \A c, d \in Calls : pc'[c] \in Allocating /\ pc'[d] \in Allocating /\ d < c =>
            /\ priorAlloc'[c] \in Calls /\ pc'[priorAlloc'[c]] \in Allocating
            /\ d <= priorAlloc'[c] /\ priorAlloc'[c] < c
      BY <2>1, <2>2, <3>1, <3>2, <3>3, <3>4 DEF AllocationChain
    <3>6. \A c \in Calls : pc'[c] \in Allocating =>
            allocTail' \in Calls /\ pc'[allocTail'] \in Allocating /\ c <= allocTail'
      BY <2>1, <2>2, <3>2
    <3>7. \A c, d \in Calls : pc'[c] \in {"reading", "assigning"} /\ pc'[d] \in Allocating => c <= d
      BY <2>1, <2>2, <3>1, <3>2 DEF AllocationChain
    <3> QED
      BY <3>5, <3>6, <3>7 DEF AllocationChain
  <2>5. WriteChain'
    BY <2>1, <2>2, <1>0, <1>a DEF OrderInv, WriteChain, TypeInv, TypeOK, n
  <2>6. FileBehindCalls'
    <3>1. \A i \in 1..Len(file) : file[i].call < n
      BY <1>a, <1>b, <2>1 DEF OrderInv, BornInOrder, n
    <3> QED
      BY <2>1, <2>2, <3>1, <1>a DEF OrderInv, FileBehindCalls
  <2>7. ~misread' => NumbersKnown'
    BY <2>1, <2>2, <1>c DEF NumbersKnown
  <2>8. ClearedIsQuiet' /\ LogInCallOrder'
    BY <2>0, <2>1, <1>0, <1>a DEF OrderInv, ClearedIsQuiet, LogInCallOrder
  <2>9. TornIsLoose'
    BY <2>1, <2>2, <1>a, <1>b DEF OrderInv, TornIsLoose
  <2> QED
    BY <2>3, <2>4, <2>5, <2>6, <2>7, <2>8, <2>9 DEF OrderInv
<1>2. ASSUME NEW c \in Calls, LookUp(c) \/ ReadLast(c) PROVE OrderInv'
  <2>1. /\ pc[c] \in {"queued", "reading"} /\ pc'[c] \in {"reading", "assigning"}
        /\ \A d \in Calls : d # c => pc'[d] = pc[d] /\ seen'[d] = seen[d]
        /\ UNCHANGED <<issued, priorAlloc, priorWrite, seq, allocTail, writeTail, cache, file,
                       partial, removing>>
    BY <1>2, <1>0 DEF LookUp, ReadLast, At, storeVars, diskVars, removeVars, TypeInv, TypeOK
  <2>2. \A d \in Calls : InAllocation(d) => c <= d
    BY <1>2, <1>0, <1>a DEF LookUp, ReadLast, AllocationSettled, OrderInv, AllocationChain,
        TypeInv, TypeOK
  <2>3. \A d \in Calls : /\ pc'[d] \in Allocating <=> pc[d] \in Allocating
                         /\ pc'[d] \in Writing <=> pc[d] \in Writing
                         /\ pc'[d] = "unborn" <=> pc[d] = "unborn"
                         /\ pc'[d] = "writing" <=> pc[d] = "writing"
                         /\ pc'[d] = "written" <=> pc[d] = "written"
                         /\ pc[d] \in {"failed", "lost"} => pc'[d] = pc[d]
    BY <2>1
  <2>4. \A d \in Calls : pc[d] \in {"reading", "assigning"} => d = c
    BY <2>1, <2>2, <1>a DEF OrderInv, AllocationChain
  <2>5. BornInOrder' /\ FileBehindCalls' /\ ClearedIsQuiet' /\ LogInCallOrder'
    BY <2>1, <2>3, <1>0, <1>a DEF OrderInv, BornInOrder, FileBehindCalls, ClearedIsQuiet,
      LogInCallOrder
  <2>6. AllocationChain'
    BY <2>1, <2>2, <2>3, <2>4, <1>a DEF OrderInv, AllocationChain
  <2>7. WriteChain'
    BY <2>1, <2>3, <1>a DEF OrderInv, WriteChain
  <2>8. TornIsLoose'
    BY <2>1, <2>3, <1>a, <1>b, <1>0 DEF OrderInv, TornIsLoose, TypeInv, TypeOK
  <2>9. ASSUME ~misread' PROVE NumbersKnown'
    <3>0. NumbersKnown
      BY <1>c, <2>9
    <3>1. CASE LookUp(c)
      <4>1. /\ pc'[c] = (IF cache # None THEN "assigning" ELSE "reading")
            /\ cache # None => seen'[c] = cache
        BY <3>1, <1>0 DEF LookUp, At, TypeInv, TypeOK
      <4> QED
        BY <2>1, <2>3, <2>4, <3>0, <4>1 DEF NumbersKnown
    <3>2. CASE ReadLast(c)
      <4>1. /\ pc[c] = "reading" /\ pc'[c] = "assigning" /\ seen'[c] = LastInFile
        BY <3>2, <2>9, <1>0 DEF ReadLast, At, TypeInv, TypeOK
      <4>2. \A i \in 1..Len(file) : file[i].seq <= LastInFile
        BY <1>0, <1>b, <3>0 DEF NumbersKnown, LastInFile
      <4>3. \A d \in Calls : ~InWrite(d)
        BY <3>0, <4>1 DEF NumbersKnown
      <4> QED
        BY <2>1, <2>3, <2>4, <3>0, <4>1, <4>2, <4>3 DEF NumbersKnown
    <3> QED
      BY <1>2, <3>1, <3>2
  <2> QED
    BY <2>5, <2>6, <2>7, <2>8, <2>9 DEF OrderInv
<1>4. ASSUME NEW c \in Calls, Assign(c) PROVE OrderInv'
  <2>1. /\ pc[c] = "assigning" /\ pc'[c] = "writing"
        /\ seq'[c] = seen[c] + 1 /\ cache' = seen[c] + 1 /\ seen[c] \in Nat
        /\ priorWrite'[c] = writeTail /\ writeTail' = c
        /\ allocTail' = IF allocTail = c THEN None ELSE allocTail
        /\ \A d \in Calls : d # c => /\ pc'[d] = pc[d] /\ seq'[d] = seq[d]
                                     /\ priorWrite'[d] = priorWrite[d]
        /\ UNCHANGED <<issued, priorAlloc, seen, file, partial, removing>>
    BY <1>4, <1>0 DEF Assign, At, diskVars, removeVars, TypeInv, TypeOK
  <2>2. \A d \in Calls : seq[d] \in Nat
    BY <1>0 DEF TypeInv, TypeOK
  <2>3. \A d \in Calls : InAllocation(d) => c <= d
    BY <2>1, <1>a DEF OrderInv, AllocationChain
  <2>4. \A d \in Calls : InWrite(d) => d < c
    BY <2>1, <1>a DEF OrderInv, WriteChain
  <2>5. \A i \in 1..Len(file) : file[i].call < c
    BY <2>1, <1>a DEF OrderInv, FileBehindCalls
  <2>6. BornInOrder' /\ ClearedIsQuiet' /\ LogInCallOrder'
    BY <2>1, <1>0, <1>a DEF OrderInv, BornInOrder, ClearedIsQuiet, LogInCallOrder
  <2>7. AllocationChain'
    <3>1. \A d \in Calls : pc'[d] \in Allocating => InAllocation(d) /\ c < d
      BY <2>1, <2>3
    <3>2. \A d, e \in Calls : pc'[d] \in Allocating /\ pc'[e] \in Allocating /\ e < d =>
            /\ priorAlloc[d] \in Calls /\ pc'[priorAlloc[d]] \in Allocating
            /\ e <= priorAlloc[d] /\ priorAlloc[d] < d
      BY <2>1, <3>1, <1>a DEF OrderInv, AllocationChain
    <3>3. \A d \in Calls : pc'[d] \in Allocating =>
            allocTail' \in Calls /\ pc'[allocTail'] \in Allocating /\ d <= allocTail'
      BY <2>1, <3>1, <1>a DEF OrderInv, AllocationChain
    <3>4. \A d \in Calls : pc'[d] \notin {"reading", "assigning"}
      BY <2>1, <3>1, <1>a DEF OrderInv, AllocationChain
    <3> QED
      BY <2>1, <3>2, <3>3, <3>4 DEF AllocationChain
  <2>8. WriteChain'
    <3>1. \A d \in Calls : InWrite(d) => /\ writeTail \in Calls /\ InWrite(writeTail)
                                         /\ d <= writeTail /\ writeTail < c
      BY <2>4, <1>a DEF OrderInv, WriteChain
    <3>2. \A d, e \in Calls : pc'[d] \in Writing /\ pc'[e] \in Writing /\ e < d =>
            /\ priorWrite'[d] \in Calls /\ pc'[priorWrite'[d]] \in Writing
            /\ e <= priorWrite'[d] /\ priorWrite'[d] < d
      <4> SUFFICES ASSUME NEW d \in Calls, NEW e \in Calls, pc'[d] \in Writing,
                          pc'[e] \in Writing, e < d
                   PROVE  /\ priorWrite'[d] \in Calls /\ pc'[priorWrite'[d]] \in Writing
                          /\ e <= priorWrite'[d] /\ priorWrite'[d] < d
        OBVIOUS
      <4>1. e # c /\ InWrite(e)
        BY <2>1, <2>4
      <4>2. CASE d = c
        BY <4>1, <4>2, <2>1, <3>1
      <4>3. CASE d # c
        BY <4>1, <4>3, <2>1, <2>4, <1>a DEF OrderInv, WriteChain
      <4> QED
        BY <4>2, <4>3
    <3>3. \A d \in Calls : pc'[d] \in Writing => d <= c
      BY <2>1, <2>4
    <3>4. \A d, e \in Calls : pc'[d] = "written" /\ pc'[e] \in Writing => d <= e
      BY <2>1, <2>4, <1>a DEF OrderInv, WriteChain
    <3>5. \A d, e \in Calls : pc'[d] \in Allocating /\ pc'[e] \in Writing => e < d
      BY <2>1, <2>3, <1>a DEF OrderInv, WriteChain
    <3> QED
      BY <2>1, <3>2, <3>3, <3>4, <3>5 DEF WriteChain
  <2>9. FileBehindCalls'
    BY <2>1, <2>5, <1>a, <1>b DEF OrderInv, FileBehindCalls
  <2>10. TornIsLoose'
    BY <2>1, <1>a, <1>b DEF OrderInv, TornIsLoose
  <2>11. ASSUME ~misread' PROVE NumbersKnown'
    <3>0. NumbersKnown
      BY <1>c, <2>11
    <3>1. \A d \in Calls : pc'[d] \notin {"reading", "assigning"}
      BY <2>1, <2>3, <1>a DEF OrderInv, AllocationChain
    <3>2. \A d \in Calls : InWrite(d) => seq[d] <= seen[c]
      BY <2>1, <3>0 DEF NumbersKnown
    <3>3. \A d \in Calls : pc'[d] \in Writing => seq'[d] <= cache'
      BY <2>1, <2>2, <3>2
    <3>4. \A i \in 1..Len(file) : file[i].seq <= seen[c]
      BY <2>1, <3>0 DEF NumbersKnown
    <3>5. \A d, e \in Calls : pc'[d] \in Writing /\ pc'[e] \in Writing /\ e < d => seq'[e] < seq'[d]
      <4> SUFFICES ASSUME NEW d \in Calls, NEW e \in Calls, pc'[d] \in Writing,
                          pc'[e] \in Writing, e < d
                   PROVE  seq'[e] < seq'[d]
        OBVIOUS
      <4>1. e # c /\ InWrite(e)
        BY <2>1, <2>4
      <4>2. CASE d = c
        BY <4>1, <4>2, <2>1, <2>2, <3>2
      <4>3. CASE d # c
        BY <4>1, <4>3, <2>1, <3>0 DEF NumbersKnown
      <4> QED
        BY <4>2, <4>3
    <3>6. \A i \in 1..Len(file) : file[i].seq <= cache' /\ file[i].seq < seq'[c]
      BY <2>1, <3>4, <1>b
    <3>7. \A i \in 1..Len(file), d \in Calls : pc'[d] = "writing" => file[i].seq < seq'[d]
      BY <2>1, <3>0, <3>6 DEF NumbersKnown
    <3>8. \A i, j \in 1..Len(file) : i < j => file[i].seq < file[j].seq
      BY <3>0 DEF NumbersKnown
    <3> QED
      BY <2>1, <3>1, <3>3, <3>5, <3>6, <3>7, <3>8 DEF NumbersKnown
  <2> QED
    BY <2>6, <2>7, <2>8, <2>9, <2>10, <2>11 DEF OrderInv
<1>5. ASSUME NEW c \in Calls, WriteLine(c) PROVE OrderInv'
  <2>1. /\ pc[c] = "writing" /\ pc'[c] = "written" /\ partial' = "none"
        /\ \A d \in Calls : d # c => pc'[d] = pc[d]
        /\ UNCHANGED <<issued, priorAlloc, priorWrite, seen, seq, allocTail, writeTail, cache,
                       removing>>
    BY <1>5, <1>0 DEF WriteLine, MayWrite, At, storeVars, removeVars, TypeInv, TypeOK
  <2>2. \A d \in Calls : InWrite(d) => c <= d
    BY <1>5, <1>0, <1>a DEF WriteLine, MayWrite, WriteSettled, OrderInv, WriteChain, TypeInv, TypeOK
  <2>3. \A d \in Calls : /\ pc'[d] \in Allocating <=> pc[d] \in Allocating
                         /\ pc'[d] \in Writing <=> pc[d] \in Writing
                         /\ pc'[d] = "unborn" <=> pc[d] = "unborn"
                         /\ pc'[d] = "reading" <=> pc[d] = "reading"
                         /\ pc'[d] = "assigning" <=> pc[d] = "assigning"
                         /\ pc'[d] = "writing" => pc[d] = "writing" /\ d # c
    BY <2>1
  <2>4. /\ \A i \in 1..Len(file') : file'[i].call <= issued
        /\ \A i, j \in 1..Len(file') : i < j => file'[i].call < file'[j].call
        /\ \A i \in 1..Len(file'), d \in Calls :
              InAllocation(d) \/ (pc[d] = "writing" /\ d # c) => file'[i].call < d
    BY <1>0, <1>5, <1>a, FileOrdered DEF WriteLine
  <2>5. BornInOrder' /\ LogInCallOrder' /\ TornIsLoose'
    BY <2>1, <2>3, <2>4, <1>a DEF OrderInv, BornInOrder, LogInCallOrder, TornIsLoose
  <2>6. AllocationChain'
    BY <2>1, <2>3, <1>a DEF OrderInv, AllocationChain
  <2>7. WriteChain'
    BY <2>1, <2>2, <2>3, <1>a DEF OrderInv, WriteChain
  <2>8. FileBehindCalls'
    BY <2>1, <2>3, <2>4 DEF FileBehindCalls
  <2>9. ASSUME ~misread' PROVE NumbersKnown'
    <3>0. NumbersKnown /\ ~misread
      BY <1>c, <2>9, NotesStay
    <3>1. /\ \A i \in 1..Len(file'), d \in Calls :
                pc[d] = "writing" /\ d # c => file'[i].seq < seq[d]
          /\ cache # None /\ \A i \in 1..Len(file') : file'[i].seq <= cache
          /\ \A i \in 1..Len(file'), d \in Calls : pc[d] = "assigning" => file'[i].seq <= seen[d]
          /\ \A i, j \in 1..Len(file') : i < j => file'[i].seq < file'[j].seq
      BY <1>0, <1>5, <1>a, <3>0, FileOrdered DEF WriteLine
    <3> QED
      BY <2>1, <2>3, <3>0, <3>1 DEF NumbersKnown
  <2>10. ClearedIsQuiet'
    BY <2>1, <2>3, <1>a DEF OrderInv, ClearedIsQuiet
  <2> QED
    BY <2>5, <2>6, <2>7, <2>8, <2>9, <2>10 DEF OrderInv
<1>6. ASSUME NEW c \in Calls, WriteFails(c) \/ Notify(c) PROVE OrderInv'
  <2>1. /\ pc[c] \in Writing /\ pc'[c] \in {"failed", "done"}
        /\ \A d \in Calls : d # c => pc'[d] = pc[d]
        /\ writeTail' = IF writeTail = c THEN None ELSE writeTail
        /\ UNCHANGED <<issued, priorAlloc, priorWrite, seen, seq, allocTail, cache, removing>>
    BY <1>6, <1>0 DEF WriteFails, Notify, MayWrite, At, diskVars, removeVars, TypeInv, TypeOK
  <2>2. \A d \in Calls : InWrite(d) => c <= d
    BY <1>6, <1>0, <1>a DEF WriteFails, Notify, MayWrite, WriteSettled, OrderInv, WriteChain,
      TypeInv, TypeOK
  <2>3. /\ \A i \in 1..Len(file') : file'[i].call <= issued
        /\ \A i, j \in 1..Len(file') : i < j => file'[i].call < file'[j].call
        /\ \A i \in 1..Len(file'), d \in Calls :
              InAllocation(d) \/ (pc[d] = "writing" /\ d # c) => file'[i].call < d
    <3>1. CASE WriteFails(c)
      BY <1>0, <1>a, <3>1, FileOrdered DEF WriteFails
    <3>2. CASE Notify(c)
      BY <1>0, <1>a, <3>2 DEF Notify, diskVars, OrderInv, BornInOrder, LogInCallOrder, FileBehindCalls
    <3> QED
      BY <1>6, <3>1, <3>2
  <2>4. \A d \in Calls : /\ pc'[d] \in Writing => InWrite(d) /\ c < d
                         /\ pc'[d] \in Allocating <=> pc[d] \in Allocating
                         /\ pc'[d] = "unborn" <=> pc[d] = "unborn"
                         /\ pc'[d] = "written" => pc[d] = "written"
                         /\ pc'[d] = "writing" => pc[d] = "writing" /\ d # c
                         /\ pc[d] \in {"failed", "lost"} => pc'[d] = pc[d]
    BY <2>1, <2>2
  <2>5. BornInOrder' /\ FileBehindCalls' /\ LogInCallOrder'
    BY <2>1, <2>3, <2>4, <1>a DEF OrderInv, BornInOrder, FileBehindCalls, LogInCallOrder
  <2>6. ClearedIsQuiet'
    BY <2>1, <2>4, <1>a DEF OrderInv, ClearedIsQuiet
  <2>7. TornIsLoose'
    <3>1. CASE WriteFails(c)
      <4>1. partial' = "whole" =>
              /\ file' # <<>>
              /\ \/ file'[Len(file')].call = c
                 \/ pc[file'[Len(file')].call] \in {"failed", "lost"}
        BY <1>0, <1>a, <3>1, FileOrdered DEF WriteFails
      <4>2. pc'[c] = "failed"
        BY <1>0, <3>1 DEF WriteFails, At, TypeInv, TypeOK
      <4>3. file' # <<>> => file'[Len(file')].call \in Calls
        <5>1. file' \in Seq(Lines)
          BY <1>0 DEF TypeInv, TypeOK
        <5>2. file' # <<>> => file'[Len(file')] \in Lines
          BY <5>1
        <5> QED
          BY <5>2 DEF Lines
      <4> QED
        BY <2>4, <4>1, <4>2, <4>3 DEF TornIsLoose
    <3>2. CASE Notify(c)
      <4>1. UNCHANGED <<file, partial>>
        BY <3>2 DEF Notify, diskVars
      <4>2. file # <<>> => file[Len(file)].call \in Calls
        BY <1>0, <1>b DEF TypeInv, TypeOK
      <4> QED
        BY <2>4, <4>1, <4>2, <1>a DEF OrderInv, TornIsLoose
    <3> QED
      BY <1>6, <3>1, <3>2
  <2>8. AllocationChain'
    BY <2>1, <1>a DEF OrderInv, AllocationChain
  <2>9. WriteChain'
    <3>2. \A d, e \in Calls : pc'[d] \in Writing /\ pc'[e] \in Writing /\ e < d =>
            /\ priorWrite[d] \in Calls /\ pc'[priorWrite[d]] \in Writing
            /\ e <= priorWrite[d] /\ priorWrite[d] < d
      BY <2>1, <2>4, <1>a DEF OrderInv, WriteChain
    <3>3. \A d \in Calls : pc'[d] \in Writing =>
            writeTail' \in Calls /\ pc'[writeTail'] \in Writing /\ d <= writeTail'
      BY <2>1, <2>4, <1>a DEF OrderInv, WriteChain
    <3> QED
      BY <2>1, <2>4, <3>2, <3>3, <1>a DEF OrderInv, WriteChain
  <2>10. ASSUME ~misread' PROVE NumbersKnown'
    <3>0. NumbersKnown /\ ~misread
      BY <1>c, <2>10, NotesStay
    <3>1. /\ \A i \in 1..Len(file'), d \in Calls :
                pc[d] = "writing" /\ d # c => file'[i].seq < seq[d]
          /\ cache # None => \A i \in 1..Len(file') : file'[i].seq <= cache
          /\ \A i \in 1..Len(file'), d \in Calls : pc[d] = "assigning" => file'[i].seq <= seen[d]
          /\ \A i, j \in 1..Len(file') : i < j => file'[i].seq < file'[j].seq
      <4>1. CASE WriteFails(c)
        BY <1>0, <1>a, <3>0, <4>1, FileOrdered DEF WriteFails
      <4>2. CASE Notify(c)
        BY <3>0, <4>2 DEF Notify, diskVars, NumbersKnown
      <4> QED
        BY <1>6, <4>1, <4>2
    <3>2. \A d \in Calls : pc'[d] = pc[d] \/ pc'[d] \in {"failed", "done"}
      BY <2>1
    <3> QED
      BY <2>1, <2>4, <3>0, <3>1, <3>2 DEF NumbersKnown
  <2> QED
    BY <2>5, <2>6, <2>7, <2>8, <2>9, <2>10 DEF OrderInv
<1>7. CASE RemoveStart \/ RemoveAwaitWrites \/ UNCHANGED vars
  <2>1. /\ removing' = "cleared" => removing = "cleared"
        /\ UNCHANGED <<issued, pc, priorAlloc, priorWrite, seen, seq, allocTail, writeTail, cache,
                       file, partial>>
    BY <1>7 DEF RemoveStart, RemoveAwaitWrites, vars, callVars, storeVars, diskVars, removeVars
  <2> QED
    BY <2>1, <1>0, <1>a, <1>c DEF OrderInv, BornInOrder, AllocationChain, WriteChain,
      FileBehindCalls, NumbersKnown, TornIsLoose, ClearedIsQuiet, LogInCallOrder
<1>8. CASE RemoveForget
  <2>1. /\ cache' = None /\ \A c \in Calls : pc'[c] \notin Unsettled
        /\ UNCHANGED <<issued, pc, file, partial>>
    BY <1>8 DEF RemoveForget, callVars, diskVars
  <2> QED
    BY <2>1, <1>0, <1>a, <1>c DEF OrderInv, BornInOrder, AllocationChain, WriteChain,
      FileBehindCalls, NumbersKnown, TornIsLoose, ClearedIsQuiet, LogInCallOrder
<1>9. CASE RemoveFile
  <2>1. /\ removing' = "no" /\ \A c \in Calls : pc'[c] \notin Unsettled
        /\ UNCHANGED <<issued, pc, priorAlloc, priorWrite, seen, seq, allocTail, writeTail, cache>>
        /\ cache = None
    BY <1>9, <1>a DEF RemoveFile, callVars, storeVars, OrderInv, ClearedIsQuiet
  <2>2. CASE file' = <<>> /\ partial' = "none"
    <3>1. Len(file') = 0
      BY <2>2
    <3> QED
      BY <2>1, <2>2, <3>1, <1>a DEF OrderInv, BornInOrder, AllocationChain, WriteChain,
        FileBehindCalls, NumbersKnown, TornIsLoose, ClearedIsQuiet, LogInCallOrder
  <2>3. CASE UNCHANGED <<file, partial>>
    BY <2>1, <2>3, <1>0, <1>a, <1>c DEF OrderInv, BornInOrder, AllocationChain, WriteChain,
      FileBehindCalls, NumbersKnown, TornIsLoose, ClearedIsQuiet, LogInCallOrder
  <2> QED
    BY <1>9, <2>2, <2>3 DEF RemoveFile, diskVars
<1>10. CASE Crash
  <2>1. /\ removing' = "no" /\ cache' = None
        /\ \A c \in Calls : /\ pc'[c] \notin Unsettled
                            /\ pc'[c] = "unborn" <=> pc[c] = "unborn"
                            /\ pc[c] \in {"failed", "lost"} => pc'[c] \in {"failed", "lost"}
                            /\ pc[c] = "writing" => pc'[c] = "lost"
        /\ UNCHANGED issued
    BY <1>10, <1>0 DEF Crash, TypeInv, TypeOK
  <2>2. CASE UNCHANGED <<file, partial>>
    <3>1. file # <<>> => file[Len(file)].call \in Calls
      BY <1>0, <1>b DEF TypeInv, TypeOK
    <3> QED
      BY <2>1, <2>2, <3>1, <1>0, <1>a, <1>c DEF OrderInv, BornInOrder, AllocationChain, WriteChain,
        FileBehindCalls, NumbersKnown, TornIsLoose, ClearedIsQuiet, LogInCallOrder
  <2>3. ASSUME NEW c \in Calls, MayWrite(c), Tear(c) PROVE OrderInv'
    <3>1. /\ \A i \in 1..Len(file') : file'[i].call <= issued
          /\ \A i, j \in 1..Len(file') : i < j => file'[i].call < file'[j].call
          /\ partial' = "whole" =>
                /\ file' # <<>>
                /\ \/ file'[Len(file')].call = c
                   \/ pc[file'[Len(file')].call] \in {"failed", "lost"}
          /\ ~misread => \A i, j \in 1..Len(file') : i < j => file'[i].seq < file'[j].seq
      BY <1>0, <1>a, <2>3, FileOrdered
    <3>2. file' # <<>> => file'[Len(file')].call \in Calls
      <4>1. file' \in Seq(Lines)
        BY <1>0 DEF TypeInv, TypeOK
      <4>2. file' # <<>> => file'[Len(file')] \in Lines
        BY <4>1
      <4> QED
        BY <4>2 DEF Lines
    <3>3. TornIsLoose'
      BY <2>1, <2>3, <3>1, <3>2 DEF TornIsLoose, MayWrite
    <3>4. ~misread' => NumbersKnown'
      BY <2>1, <3>1, NotesStay DEF NumbersKnown
    <3>5. BornInOrder' /\ LogInCallOrder'
      BY <2>1, <3>1, <1>a DEF OrderInv, BornInOrder, LogInCallOrder
    <3> QED
      BY <2>1, <3>3, <3>4, <3>5 DEF OrderInv, AllocationChain, WriteChain, FileBehindCalls,
        ClearedIsQuiet
  <2> QED
    BY <1>10, <2>2, <2>3 DEF Crash, diskVars
<1> QED
  BY <1>1, <1>2, <1>4, <1>5, <1>6, <1>7, <1>8, <1>9, <1>10 DEF Next, CallStep, RemoveStep

\* The strengthened invariant holds in every state of the store.
THEOREM Invariance == Spec => []IInv
<1>1. Init => IInv
  BY TypeInit, OrderInit DEF IInv
<1>2. IInv /\ [Next]_vars => IInv'
  BY TypeStep, OrderStep DEF IInv
<1> QED
  BY <1>1, <1>2, PTL DEF Spec

\* Sequence numbers increase along the file, whatever calls overlap, fail or are cut off
\* (task-events.ts:28-59), as long as it could be read when numbering began.
THEOREM SequencesIncrease == Spec => []LogIncreasing
<1>1. IInv => LogIncreasing
  BY DEF IInv, OrderInv, NumbersKnown, LogIncreasing
<1> QED
  BY <1>1, Invariance, PTL

\* Lines stand in the order of the calls that wrote them.
THEOREM CallOrderKept == Spec => []LogInCallOrder
<1>1. IInv => LogInCallOrder
  BY DEF IInv, OrderInv, LogInCallOrder
<1> QED
  BY <1>1, Invariance, PTL

\* The cached sequence is never behind the file while the process lives, so that a number
\* taken from it is fresh (task-events.ts:112-119).
THEOREM CacheKeepsUp == Spec => []CacheNotBehind
<1>1. IInv => CacheNotBehind
  <2> SUFFICES ASSUME IInv, ~raced, ~misread, cache # None
               PROVE  LastInFile <= cache
    BY DEF CacheNotBehind
  <2>1. file \in Seq(Lines) /\ cache \in Nat
    BY DEF IInv, TypeInv, TypeOK
  <2>2. \A i \in 1..Len(file) : file[i].seq <= cache
    BY DEF IInv, OrderInv, NumbersKnown
  <2>3. CASE file = <<>>
    BY <2>1, <2>3 DEF LastInFile
  <2>4. CASE file # <<>>
    BY <2>1, <2>2, <2>4, LastInFileType DEF LastInFile
  <2> QED
    BY <2>3, <2>4
<1> QED
  BY <1>1, Invariance, PTL

-------------------------------------------------------------------------------
(***************************************************************************)
(* The store implements the abstract log.                                  *)
(***************************************************************************)

LEMMA StepIsLogStep ==
    IInv /\ [Next]_vars => (raced' \/ misread' \/ Log!Next \/ UNCHANGED file)
<1> SUFFICES ASSUME IInv, [Next]_vars, ~raced', ~misread' PROVE Log!Next \/ UNCHANGED file
  OBVIOUS
<1>1. ~raced /\ ~misread
  BY NotesStay
<1>2. TypeInv /\ OrderInv /\ NumbersKnown
  BY <1>1 DEF IInv, OrderInv
<1>3. ASSUME NEW c \in Calls, pc[c] = "writing", file' = Append(file, Line(c)) PROVE Log!Next
  <2>1. Line(c).call = c /\ Line(c).seq = seq[c]
    BY DEF Line
  <2>2. PICK line : line = Line(c)
    OBVIOUS
  <2>3. file' # <<>> /\ file'[Len(file')] = line
    BY <1>3, <2>2, <1>2 DEF TypeInv, TypeOK
  <2>4. \A i \in 1..Len(file) : file[i].call < c /\ file[i].seq < seq[c]
    BY <1>2, <1>3 DEF OrderInv, FileBehindCalls, NumbersKnown
  <2>5. seq[c] \in Nat /\ seq[c] # 0
    BY <1>2, <1>3 DEF TypeInv, TypeOK, GivenPositive, Writing
  <2>6. seq[c] > Log!Newest
    BY <2>4, <2>5, <1>2, LastInFileType DEF Log!Newest, TypeInv, TypeOK
  <2>7. \A i \in 1..Len(file) : file[i].call # c
    <3>1. c \in Nat
      BY DEF Calls
    <3> QED
      BY <2>4, <3>1
  <2>8. Log!Add
    BY <1>3, <2>1, <2>2, <2>3, <2>6, <2>7 DEF Log!Add
  <2> QED
    BY <2>8 DEF Log!Next
<1>4. ASSUME file' = Whole PROVE Log!Next \/ UNCHANGED file
  <2>1. CASE partial = "whole"
    <3>1. file # <<>> /\ pc[file[Len(file)].call] \in {"failed", "lost"}
      BY <1>2, <2>1 DEF OrderInv, TornIsLoose
    <3>2. file[Len(file)].call \in Calls
      <4>1. file[Len(file)] \in Lines
        BY <1>2, <3>1, LastInFileType DEF TypeInv, TypeOK
      <4> QED
        BY <4>1 DEF Lines
    <3>3. Log!Drop
      BY <1>4, <2>1, <3>1, <3>2 DEF Log!Drop, Whole, Unanswered
    <3> QED
      BY <3>3 DEF Log!Next
  <2>2. CASE partial # "whole"
    BY <1>4, <2>2 DEF Whole
  <2> QED
    BY <2>1, <2>2
<1>5. ASSUME NEW c \in Calls, pc[c] = "writing", WriteLine(c) \/ Tear(c)
      PROVE  Log!Next \/ UNCHANGED file
  <2>1. file' = Append(file, Line(c)) \/ file' = Whole \/ UNCHANGED file
    BY <1>5 DEF WriteLine, Tear, diskVars
  <2> QED
    BY <1>3, <1>4, <1>5, <2>1
<1>6. ASSUME NEW c \in Calls, WriteLine(c) \/ WriteFails(c) PROVE Log!Next \/ UNCHANGED file
  BY <1>5, <1>6 DEF WriteLine, WriteFails, MayWrite
<1>7. CASE Crash
  <2>1. CASE UNCHANGED diskVars
    BY <2>1 DEF diskVars
  <2>2. ASSUME NEW c \in Calls, MayWrite(c), Tear(c) PROVE Log!Next \/ UNCHANGED file
    BY <1>5, <2>2 DEF MayWrite
  <2> QED
    BY <1>7, <2>1, <2>2 DEF Crash
<1>8. CASE RemoveFile
  BY <1>8 DEF RemoveFile, diskVars, Log!Next, Log!Clear
<1>9. ASSUME NEW c \in Calls, LookUp(c) \/ ReadLast(c) \/ Assign(c) \/ Notify(c)
      PROVE  UNCHANGED file
  BY <1>9 DEF LookUp, ReadLast, Assign, Notify, diskVars
<1>10. CASE AppendCall \/ RemoveStart \/ RemoveAwaitWrites \/ RemoveForget \/ UNCHANGED vars
  BY <1>10 DEF AppendCall, RemoveStart, RemoveAwaitWrites, RemoveForget, vars, diskVars
<1> QED
  BY <1>6, <1>7, <1>8, <1>9, <1>10 DEF Next, CallStep, RemoveStep

\* The file as a reader parses it is the abstract log: until an append meets a removal it
\* grows by one newer, higher-numbered line at a time, loses at most a last line whose
\* append was not answered with success, or is deleted as a whole.
THEOREM ImplementsEventLog == Spec => LogContract
<1>1. Init => Log!Init
  BY DEF Init, Log!Init
<1>2. IInv /\ [Next]_vars => [raced' \/ misread' \/ Log!Next]_file
  BY StepIsLogStep
<1> QED
  BY <1>1, <1>2, Invariance, PTL DEF Spec, LogContract

-------------------------------------------------------------------------------
(***************************************************************************)
(* The readers of the log.  First what they do to sequences of lines.      *)
(***************************************************************************)

\* The lines of a sequence, and that they are numbered upwards.
In(s) == {s[i] : i \in 1..Len(s)}
Upward(s) == \A i, j \in 1..Len(s) : i < j => s[i].seq < s[j].seq

\* p are lines above n, and no line of that sequence is left out between them.
IsPage(p, lines, n) ==
    /\ p \in Seq(Lines) /\ Upward(p) /\ In(p) \subseteq In(lines)
    /\ \A x \in In(p) : n < x.seq
    /\ \A x \in In(lines), y \in In(p) : n < x.seq /\ x.seq <= y.seq => x \in In(p)

-------------------------------------------------------------------------------
(***************************************************************************)
(* Recursion.  What holds of 0 and is handed on from i - 1 to i holds up   *)
(* to N: the set of the numbers it does not hold of has no least element.  *)
(***************************************************************************)
LEMMA Climb ==
    ASSUME NEW N \in Nat, NEW T, 0 \in T, \A i \in 1..N : i - 1 \in T => i \in T
    PROVE  0..N \subseteq T
<1> DEFINE To(n) == 0..n
           Misses == {n \in 0..N : n \notin T}
           Chain == {To(n) : n \in Misses}
<1>1. SUFFICES ASSUME Misses # {} PROVE FALSE
  OBVIOUS
<1>2. IsFiniteSet(0..N)
  BY FS_Interval
<1>3. IsWellFoundedOn(StrictSubsetOrdering(0..N), FiniteSubsetsOf(0..N))
  BY <1>2, FS_StrictSubsetOrderingWellFounded
<1>4. Chain \subseteq FiniteSubsetsOf(0..N) /\ Chain # {}
  <2>1. FiniteSubsetsOf(0..N) = SUBSET (0..N)
    BY <1>2, FS_FiniteSubsetsOfFinite
  <2>2. \A n \in Misses : To(n) \subseteq 0..N
    OBVIOUS
  <2> HIDE DEF To
  <2> QED
    BY <1>1, <2>1, <2>2
<1>5. PICK x \in Chain : \A y \in Chain : <<y, x>> \notin StrictSubsetOrdering(0..N)
  BY <1>3, <1>4, WFMin
<1>6. PICK n \in Misses : x = To(n)
  BY <1>5
<1>7. n # 0 /\ n \in 1..N /\ n - 1 \in 0..N
  BY <1>6
<1>8. n - 1 \in Misses
  BY <1>6, <1>7
<1>9. To(n - 1) \in Chain /\ To(n - 1) \subseteq To(n) /\ To(n - 1) # To(n) /\ To(n) \subseteq 0..N
  BY <1>7, <1>8
<1> HIDE DEF To, Chain, Misses
<1> QED
  BY <1>4, <1>5, <1>6, <1>9 DEF StrictSubsetOrdering

\* Only is what its equation says: some function keeps each line or leaves it out.
LEMMA OnlyUnrolled ==
    ASSUME NEW lines \in Seq(Lines), NEW S
    PROVE  \E kept :
             /\ kept = [i \in 0..Len(lines) |->
                          IF i = 0 THEN <<>>
                          ELSE IF lines[i] \in S THEN Append(kept[i - 1], lines[i]) ELSE kept[i - 1]]
             /\ Only(lines, S) = kept[Len(lines)]
<1> DEFINE n == Len(lines)
           One(i, before) ==
               IF i = 0 THEN <<>>
               ELSE IF lines[i] \in S THEN Append(before, lines[i]) ELSE before
           Steps(k, f) == [i \in 0..k |->
                             IF i = 0 THEN <<>>
                             ELSE IF lines[i] \in S THEN Append(f[i - 1], lines[i]) ELSE f[i - 1]]
           T == {k \in 0..n : \E f : f = Steps(k, f)}
<1>1. n \in Nat
  OBVIOUS
<1>2. 0 \in T
  <2> DEFINE f == [i \in 0..0 |-> <<>>]
  <2>1. \A i \in 0..0 : f[i] = <<>> /\ i = 0
    OBVIOUS
  <2>2. f = [i \in 0..0 |-> f[i]]
    OBVIOUS
  <2> HIDE DEF f
  <2>3. [i \in 0..0 |-> f[i]]
            = [i \in 0..0 |->
                 IF i = 0 THEN <<>>
                 ELSE IF lines[i] \in S THEN Append(f[i - 1], lines[i]) ELSE f[i - 1]]
    BY <2>1
  <2>4. f = Steps(0, f)
    BY <2>2, <2>3
  <2> QED
    BY <1>1, <2>4
<1>3. ASSUME NEW k \in 1..n, k - 1 \in T PROVE k \in T
  <2>1. PICK f : f = Steps(k - 1, f)
    BY <1>3
  <2> DEFINE h == [i \in 0..k |-> IF i < k THEN f[i] ELSE One(k, f[k - 1])]
  <2>2. h = Steps(k, h)
    <3>1. \A i \in 0..(k - 1) : f[i] = One(i, f[i - 1])
      BY <2>1
    <3>2. ASSUME NEW i \in 0..k PROVE h[i] = One(i, h[i - 1])
      <4> HIDE DEF One
      <4>1. CASE i < k
        <5>1. i \in 0..(k - 1) /\ h[i] = f[i]
          BY <4>1
        <5>2. i # 0 => h[i - 1] = f[i - 1]
          BY <4>1
        <5>3. One(i, h[i - 1]) = One(i, f[i - 1])
          BY <5>2 DEF One
        <5> QED
          BY <3>1, <5>1, <5>3
      <4>2. CASE i = k
        <5>1. h[i] = One(k, f[k - 1]) /\ i # 0 /\ h[i - 1] = f[i - 1]
          BY <4>2
        <5> QED
          BY <4>2, <5>1
      <4> QED
        BY <4>1, <4>2
    <3> HIDE DEF h
    <3>3. h = [i \in 0..k |-> h[i]]
      BY DEF h
    <3>4. [i \in 0..k |-> h[i]]
              = [i \in 0..k |->
                   IF i = 0 THEN <<>>
                   ELSE IF lines[i] \in S THEN Append(h[i - 1], lines[i]) ELSE h[i - 1]]
      BY <3>2
    <3> QED
      BY <3>3, <3>4
  <2> HIDE DEF h, Steps
  <2>3. k \in 0..n /\ \E g : g = Steps(k, g)
    BY <1>1, <2>2
  <2> QED
    BY <2>3
<1>4. n \in T
  <2> HIDE DEF T, n
  <2>1. 0..n \subseteq T
    BY <1>1, <1>2, <1>3, Climb
  <2> QED
    BY <1>1, <2>1
<1>5. \E f : f = Steps(n, f)
  BY <1>4
<1>6. Only(lines, S) = (CHOOSE f : f = Steps(n, f))[n]
  BY DEF Only
<1> QED
  BY <1>5, <1>6

-------------------------------------------------------------------------------
(***************************************************************************)
(* Lines numbered upwards.                                                 *)
(***************************************************************************)
LEMMA LinesOf ==
    ASSUME NEW s \in Seq(Lines)
    PROVE  /\ Len(s) \in Nat /\ In(s) \subseteq Lines /\ (s = <<>> <=> In(s) = {})
           /\ \A x \in In(s) : x.seq \in Nat \ {0} /\ x.call \in Calls
<1>1. Len(s) \in Nat /\ \A i \in 1..Len(s) : s[i] \in Lines
  OBVIOUS
<1>2. s = <<>> <=> In(s) = {}
  <2>1. s # <<>> => Len(s) \in Nat \ {0} /\ 1 \in 1..Len(s)
    OBVIOUS
  <2>2. s = <<>> => Len(s) = 0
    OBVIOUS
  <2> QED
    BY <2>1, <2>2 DEF In
<1> QED
  BY <1>1, <1>2 DEF In, Lines

LEMMA EmptyUpward == In(<<>>) = {} /\ Upward(<<>>) /\ <<>> \in Seq(Lines)
BY DEF In, Upward

\* One more line, above those before it.
LEMMA UpwardAppend ==
    ASSUME NEW s \in Seq(Lines), NEW e \in Lines
    PROVE  /\ Append(s, e) \in Seq(Lines) /\ In(Append(s, e)) = In(s) \cup {e}
           /\ Upward(s) /\ (\A x \in In(s) : x.seq < e.seq) => Upward(Append(s, e))
<1> DEFINE t == Append(s, e)
<1>1. /\ t \in Seq(Lines) /\ Len(s) \in Nat /\ Len(t) = Len(s) + 1
      /\ t[Len(s) + 1] = e /\ \A i \in 1..Len(s) : t[i] = s[i]
  OBVIOUS
<1> HIDE DEF t
<1>2. \A i \in 1..Len(t) : i \in 1..Len(s) \/ i = Len(s) + 1
  BY <1>1
<1>3. \A i \in 1..Len(s) : i \in 1..Len(t)
  BY <1>1
<1>4. Len(s) + 1 \in 1..Len(t)
  BY <1>1
<1>5. In(t) = In(s) \cup {e}
  BY <1>1, <1>2, <1>3, <1>4 DEF In
<1>6. ASSUME Upward(s), \A x \in In(s) : x.seq < e.seq PROVE Upward(t)
  <2>1. SUFFICES ASSUME NEW i \in 1..Len(t), NEW j \in 1..Len(t), i < j
                 PROVE  t[i].seq < t[j].seq
    BY DEF Upward
  <2>2. i \in 1..Len(s)
    BY <1>1, <2>1
  <2>3. CASE j \in 1..Len(s)
    BY <1>1, <1>6, <2>1, <2>2, <2>3 DEF Upward
  <2>4. CASE j = Len(s) + 1
    <3>1. s[i] \in In(s)
      BY <2>2 DEF In
    <3> QED
      BY <1>1, <1>6, <2>2, <2>4, <3>1
  <2> QED
    BY <1>2, <2>3, <2>4
<1> QED
  BY <1>1, <1>5, <1>6 DEF t

\* Lines after lines that are below them.
LEMMA UpwardConcat ==
    ASSUME NEW s \in Seq(Lines), NEW t \in Seq(Lines), Upward(s), Upward(t),
           \A x \in In(s), y \in In(t) : x.seq < y.seq
    PROVE  s \o t \in Seq(Lines) /\ Upward(s \o t) /\ In(s \o t) = In(s) \cup In(t)
<1> DEFINE u == s \o t
<1>1. Len(s) \in Nat /\ Len(t) \in Nat
  OBVIOUS
<1>2. /\ u \in Seq(Lines) /\ Len(u) = Len(s) + Len(t)
      /\ \A i \in 1..(Len(s) + Len(t)) : u[i] = IF i <= Len(s) THEN s[i] ELSE t[i - Len(s)]
  BY ConcatProperties
<1> HIDE DEF u
<1>3. \A i \in 1..Len(u) : \/ i \in 1..Len(s) /\ u[i] = s[i] /\ i <= Len(s)
                           \/ i - Len(s) \in 1..Len(t) /\ u[i] = t[i - Len(s)] /\ ~(i <= Len(s))
  BY <1>1, <1>2
<1>4. Upward(u)
  <2>1. SUFFICES ASSUME NEW i \in 1..Len(u), NEW j \in 1..Len(u), i < j
                 PROVE  u[i].seq < u[j].seq
    BY DEF Upward
  <2>2. CASE i <= Len(s) /\ j <= Len(s)
    <3>1. i \in 1..Len(s) /\ j \in 1..Len(s) /\ u[i] = s[i] /\ u[j] = s[j]
      BY <1>3, <2>2
    <3> QED
      BY <2>1, <3>1 DEF Upward
  <2>3. CASE i <= Len(s) /\ ~(j <= Len(s))
    <3>1. u[i] = s[i] /\ u[j] = t[j - Len(s)] /\ i \in 1..Len(s) /\ j - Len(s) \in 1..Len(t)
      BY <1>3, <2>3
    <3>2. s[i] \in In(s) /\ t[j - Len(s)] \in In(t)
      BY <3>1 DEF In
    <3> QED
      BY <3>1, <3>2
  <2>4. CASE ~(i <= Len(s))
    <3>1. ~(j <= Len(s))
      BY <1>1, <1>2, <2>1, <2>4
    <3>2. /\ u[i] = t[i - Len(s)] /\ u[j] = t[j - Len(s)]
          /\ i - Len(s) \in 1..Len(t) /\ j - Len(s) \in 1..Len(t)
      BY <1>3, <2>4, <3>1
    <3>3. i - Len(s) < j - Len(s)
      BY <1>1, <1>2, <2>1
    <3> QED
      BY <3>2, <3>3 DEF Upward
  <2> QED
    BY <2>2, <2>3, <2>4
<1>5. In(u) = In(s) \cup In(t)
  <2>1. In(u) \subseteq In(s) \cup In(t)
    BY <1>3 DEF In
  <2>2. ASSUME NEW i \in 1..Len(s) PROVE s[i] \in In(u)
    <3>1. i \in 1..Len(u) /\ u[i] = s[i]
      BY <1>1, <1>2
    <3> QED
      BY <3>1 DEF In
  <2>3. ASSUME NEW i \in 1..Len(t) PROVE t[i] \in In(u)
    <3>1. i + Len(s) \in 1..Len(u) /\ ~(i + Len(s) <= Len(s)) /\ i + Len(s) - Len(s) = i
      BY <1>1, <1>2
    <3>2. u[i + Len(s)] = t[i]
      BY <1>2, <3>1
    <3> QED
      BY <3>1, <3>2 DEF In
  <2> QED
    BY <2>1, <2>2, <2>3 DEF In
<1> QED
  BY <1>2, <1>4, <1>5 DEF u

\* The ends, and numbers name lines.
LEMMA UpwardEnds ==
    ASSUME NEW s \in Seq(Lines), Upward(s)
    PROVE  /\ \A x, y \in In(s) : x.seq = y.seq => x = y
           /\ s # <<>> => /\ s[1] \in In(s) /\ \A x \in In(s) : s[1].seq <= x.seq
                          /\ s[Len(s)] \in In(s) /\ \A x \in In(s) : x.seq <= s[Len(s)].seq
<1>1. Len(s) \in Nat /\ \A i \in 1..Len(s) : s[i] \in In(s) /\ s[i].seq \in Nat
  BY LinesOf DEF In
<1>2. ASSUME NEW i \in 1..Len(s), NEW j \in 1..Len(s), s[i].seq = s[j].seq PROVE i = j
  BY <1>1, <1>2 DEF Upward
<1>3. \A x, y \in In(s) : x.seq = y.seq => x = y
  BY <1>2 DEF In
<1>4. ASSUME s # <<>>
      PROVE  /\ s[1] \in In(s) /\ \A x \in In(s) : s[1].seq <= x.seq
             /\ s[Len(s)] \in In(s) /\ \A x \in In(s) : x.seq <= s[Len(s)].seq
  <2>1. Len(s) \in Nat \ {0} /\ 1 \in 1..Len(s) /\ Len(s) \in 1..Len(s)
    BY <1>1, <1>4
  <2>2. \A i \in 1..Len(s) : s[1].seq <= s[i].seq /\ s[i].seq <= s[Len(s)].seq
    <3>1. SUFFICES ASSUME NEW i \in 1..Len(s)
                   PROVE  s[1].seq <= s[i].seq /\ s[i].seq <= s[Len(s)].seq
      OBVIOUS
    <3>2. i = 1 \/ 1 < i
      OBVIOUS
    <3>3. i = Len(s) \/ i < Len(s)
      BY <2>1
    <3>4. 1 < i => s[1].seq < s[i].seq
      BY <2>1 DEF Upward
    <3>5. i < Len(s) => s[i].seq < s[Len(s)].seq
      BY <2>1 DEF Upward
    <3> QED
      BY <1>1, <2>1, <3>2, <3>3, <3>4, <3>5
  <2> QED
    BY <1>1, <2>1, <2>2 DEF In
<1> QED
  BY <1>3, <1>4

\* A part of the lines that lie together.
LEMMA UpwardPart ==
    ASSUME NEW s \in Seq(Lines), NEW a \in 1..(Len(s) + 1), NEW b \in 0..Len(s)
    PROVE  LET p == SubSeq(s, a, b)
           IN  /\ p \in Seq(Lines) /\ In(p) = {s[i] : i \in a..b}
               /\ Upward(s) => Upward(p)
<1> DEFINE p == SubSeq(s, a, b)
<1>1. Len(s) \in Nat /\ a \in Nat /\ b \in Nat
  OBVIOUS
<1>2. /\ p \in Seq(Lines) /\ Len(p) = (IF a <= b THEN b - a + 1 ELSE 0)
      /\ \A i \in 1..(b - a + 1) : p[i] = s[a + i - 1]
  BY <1>1, SubSeqProperties
<1> HIDE DEF p
<1>3. \A i \in 1..Len(p) : p[i] = s[a + i - 1] /\ a + i - 1 \in a..b /\ a + i - 1 \in 1..Len(s)
  BY <1>1, <1>2
<1>4. \A k \in a..b : k - a + 1 \in 1..Len(p) /\ a + (k - a + 1) - 1 = k
  BY <1>1, <1>2
<1>5. In(p) = {s[i] : i \in a..b}
  <2>1. In(p) \subseteq {s[i] : i \in a..b}
    BY <1>3 DEF In
  <2>2. ASSUME NEW k \in a..b PROVE s[k] \in In(p)
    <3>1. p[k - a + 1] = s[k]
      BY <1>3, <1>4
    <3> QED
      BY <1>4, <3>1 DEF In
  <2> QED
    BY <2>1, <2>2
<1>6. ASSUME Upward(s) PROVE Upward(p)
  <2>1. SUFFICES ASSUME NEW i \in 1..Len(p), NEW j \in 1..Len(p), i < j
                 PROVE  p[i].seq < p[j].seq
    BY DEF Upward
  <2>2. a + i - 1 < a + j - 1
    BY <1>1, <1>2, <2>1
  <2> QED
    BY <1>3, <1>6, <2>2 DEF Upward
<1> QED
  BY <1>2, <1>5, <1>6 DEF p

-------------------------------------------------------------------------------
(***************************************************************************)
(* Pages.                                                                  *)
(***************************************************************************)
LEMMA OnlyKeeps ==
    ASSUME NEW lines \in Seq(Lines), NEW S
    PROVE  /\ Only(lines, S) \in Seq(Lines) /\ In(Only(lines, S)) = In(lines) \cap S
           /\ Upward(lines) => Upward(Only(lines, S))
<1>1. PICK kept :
         /\ kept = [i \in 0..Len(lines) |->
                      IF i = 0 THEN <<>>
                      ELSE IF lines[i] \in S THEN Append(kept[i - 1], lines[i]) ELSE kept[i - 1]]
         /\ Only(lines, S) = kept[Len(lines)]
  BY OnlyUnrolled
<1> DEFINE n == Len(lines)
           First(i) == {lines[j] : j \in 1..i}
           Good(i) == /\ kept[i] \in Seq(Lines) /\ In(kept[i]) = First(i) \cap S
                      /\ Upward(lines) => Upward(kept[i])
           T == {i \in 0..n : Good(i)}
<1>2. n \in Nat /\ \A i \in 1..n : lines[i] \in Lines
  OBVIOUS
<1>3. kept[0] = <<>> /\ \A i \in 1..n :
         kept[i] = IF lines[i] \in S THEN Append(kept[i - 1], lines[i]) ELSE kept[i - 1]
  <2>1. 0 \in 0..n /\ \A i \in 1..n : i \in 0..n /\ i # 0
    BY <1>2
  <2> DEFINE Next1(i) == IF lines[i] \in S THEN Append(kept[i - 1], lines[i]) ELSE kept[i - 1]
  <2>2. kept = [i \in 0..n |-> IF i = 0 THEN <<>> ELSE Next1(i)]
    BY <1>1
  <2> HIDE DEF Next1, n
  <2>3. kept[0] = <<>> /\ \A i \in 1..n : kept[i] = Next1(i)
    BY <2>1, <2>2
  <2> QED
    BY <2>3 DEF Next1
<1>4. 0 \in T
  <2>1. First(0) = {}
    OBVIOUS
  <2>2. Good(0)
    <3> HIDE DEF First
    <3> QED
      BY <1>3, <2>1, EmptyUpward
  <2> HIDE DEF Good
  <2> QED
    BY <1>2, <2>2
<1>5. ASSUME NEW i \in 1..n, i - 1 \in T PROVE i \in T
  <2>1. /\ kept[i - 1] \in Seq(Lines) /\ In(kept[i - 1]) = First(i - 1) \cap S
        /\ Upward(lines) => Upward(kept[i - 1])
    BY <1>5
  <2>2. First(i) = First(i - 1) \cup {lines[i]}
    <3>1. 1..i = 1..(i - 1) \cup {i}
      BY <1>2
    <3> QED
      BY <3>1
  <2>3. CASE lines[i] \notin S
    BY <1>3, <2>1, <2>2, <2>3
  <2>4. CASE lines[i] \in S
    <3>1. PICK k \in Seq(Lines) : k = kept[i - 1]
      BY <2>1
    <3>2. PICK e \in Lines : e = lines[i]
      BY <1>2
    <3>3. kept[i] = Append(k, e)
      BY <1>3, <2>4, <3>1, <3>2
    <3>4. Append(k, e) \in Seq(Lines) /\ In(Append(k, e)) = In(k) \cup {e}
      BY UpwardAppend
    <3>5. ASSUME Upward(lines) PROVE Upward(Append(k, e))
      <4>1. \A x \in In(k) : x.seq < e.seq
        <5>1. \A j \in 1..(i - 1) : j \in 1..Len(lines) /\ j < i /\ i \in 1..Len(lines)
          BY <1>2
        <5> QED
          BY <2>1, <3>1, <3>2, <3>5, <5>1 DEF Upward
      <4> QED
        BY <2>1, <3>1, <3>5, <4>1, UpwardAppend
    <3>6. In(kept[i]) = First(i) \cap S
      BY <2>1, <2>2, <2>4, <3>1, <3>2, <3>3, <3>4
    <3>7. Good(i)
      <4> HIDE DEF First
      <4> QED
        BY <3>3, <3>4, <3>5, <3>6
    <3> HIDE DEF Good
    <3> QED
      BY <1>2, <3>7
  <2> QED
    BY <2>3, <2>4
<1>6. n \in T
  <2> HIDE DEF T, n
  <2>1. 0..n \subseteq T
    BY <1>2, <1>4, <1>5, Climb
  <2> QED
    BY <1>2, <2>1
<1>7. Good(n) /\ First(n) = In(lines)
  BY <1>6 DEF In
<1> QED
  BY <1>1, <1>7

\* A page is one, and an empty one says that nothing is above n.
LEMMA PageIsPage ==
    ASSUME NEW lines \in Seq(Lines), NEW n \in Nat
    PROVE  /\ Page(lines, n) \in Seq(Lines) /\ In(Page(lines, n)) \subseteq In(lines)
           /\ Upward(lines) => IsPage(Page(lines, n), lines, n)
           /\ Page(lines, n) = <<>> => \A x \in In(lines) : x.seq <= n
<1> DEFINE above == Only(lines, Above(n))
           k == IF Len(above) < PageSize THEN Len(above) ELSE PageSize
           p == SubSeq(above, 1, k)
<1>1. /\ above \in Seq(Lines) /\ In(above) = In(lines) \cap Above(n)
      /\ Upward(lines) => Upward(above)
  BY OnlyKeeps
<1>2. In(lines) \subseteq Lines
  BY LinesOf
<1>3. Page(lines, n) = p
  BY DEF Page, FirstOf
<1>4. PageSize \in Nat \ {0}
  BY HostEventReaderAssumption
<1> HIDE DEF above
<1>5. Len(above) \in Nat /\ k \in 0..Len(above) /\ 1 \in 1..(Len(above) + 1)
  BY <1>1, <1>4
<1>6. p \in Seq(Lines) /\ In(p) = {above[i] : i \in 1..k} /\ (Upward(above) => Upward(p))
  <2> HIDE DEF k
  <2> QED
    BY <1>1, <1>5, UpwardPart
<1>7. In(p) \subseteq In(above)
  BY <1>5, <1>6 DEF In
<1>8. \A x \in In(p) : x \in In(lines) /\ n < x.seq
  <2>1. \A x \in Above(n) : x.seq > n /\ x.seq \in Nat
    BY DEF Above, Lines
  <2> QED
    BY <1>1, <1>7, <2>1
<1>9. ASSUME Upward(lines), NEW x \in In(lines), NEW y \in In(p), n < x.seq, x.seq <= y.seq
      PROVE  x \in In(p)
  <2>1. Upward(above)
    BY <1>1, <1>9
  <2>2. x \in In(above)
    BY <1>1, <1>2, <1>9 DEF Above
  <2>3. PICK i \in 1..Len(above) : above[i] = x
    BY <2>2 DEF In
  <2>4. PICK j \in 1..k : above[j] = y
    BY <1>6
  <2>5. ~(j < i)
    <3>1. j \in 1..Len(above)
      BY <1>5
    <3>2. x.seq \in Nat /\ y.seq \in Nat
      <4>1. y \in In(lines)
        BY <1>8
      <4> QED
        BY <4>1, LinesOf
    <3>3. j < i => above[j].seq < above[i].seq
      BY <2>1, <3>1 DEF Upward
    <3> QED
      BY <1>9, <2>3, <2>4, <3>2, <3>3
  <2>6. i \in 1..k
    BY <1>5, <2>5
  <2> QED
    BY <1>6, <2>3, <2>6
<1>10. Upward(lines) => IsPage(p, lines, n)
  <2> HIDE DEF p
  <2> QED
    BY <1>1, <1>6, <1>8, <1>9 DEF IsPage
<1>11. ASSUME p = <<>>, NEW x \in In(lines) PROVE x.seq <= n
  <2>1. k = 0
    <3>1. In(p) = {}
      BY <1>6, <1>11, LinesOf
    <3>2. 1 \notin 1..k
      BY <1>6, <3>1
    <3> QED
      BY <1>5, <3>2
  <2>2. above = <<>>
    BY <1>1, <1>4, <1>5, <2>1
  <2>3. x \notin Above(n)
    BY <1>1, <2>2, EmptyUpward
  <2>4. x \in Lines /\ x.seq \in Nat
    BY LinesOf
  <2> QED
    BY <2>3, <2>4 DEF Above
<1> HIDE DEF p
<1> QED
  BY <1>3, <1>6, <1>8, <1>10, <1>11

\* What is left of a page up to some number.
LEMMA PartOfPage ==
    ASSUME NEW p \in Seq(Lines), NEW lines \in Seq(Lines), NEW n \in Nat, NEW m \in Nat
    PROVE  /\ Only(p, UpTo(m)) \in Seq(Lines) /\ In(Only(p, UpTo(m))) \subseteq In(p)
           /\ IsPage(p, lines, n) => IsPage(Only(p, UpTo(m)), lines, n)
<1> DEFINE q == Only(p, UpTo(m))
<1>1. q \in Seq(Lines) /\ In(q) = In(p) \cap UpTo(m) /\ (Upward(p) => Upward(q))
  BY OnlyKeeps
<1> HIDE DEF q
<1>2. ASSUME IsPage(p, lines, n) PROVE IsPage(q, lines, n)
  <2>1. /\ Upward(p) /\ In(p) \subseteq In(lines) /\ \A x \in In(p) : n < x.seq
        /\ \A x \in In(lines), y \in In(p) : n < x.seq /\ x.seq <= y.seq => x \in In(p)
    BY <1>2 DEF IsPage
  <2>2. ASSUME NEW x \in In(lines), NEW y \in In(q), n < x.seq, x.seq <= y.seq PROVE x \in In(q)
    <3>1. y \in In(p) /\ y.seq <= m
      BY <1>1 DEF UpTo
    <3>2. x \in In(p)
      BY <2>1, <2>2, <3>1
    <3>3. x \in Lines /\ x.seq \in Nat /\ y.seq \in Nat
      BY <3>1, <3>2, LinesOf
    <3> QED
      BY <1>1, <2>2, <3>1, <3>2, <3>3 DEF UpTo
  <2> QED
    BY <1>1, <2>1, <2>2 DEF IsPage
<1> QED
  BY <1>1, <1>2 DEF q

-------------------------------------------------------------------------------
(***************************************************************************)
(* Types of the reader.                                                    *)
(***************************************************************************)
\* Whatever the reader and the service do is a step of the store, or none.
LEMMA StepOfStore ==
    ASSUME [ReaderNext]_allVars
    PROVE  [Next]_vars
<1>1. CASE ReaderStep \/ UNCHANGED allVars
  BY <1>1 DEF ReaderStep, allVars
<1>2. CASE StoreStep
  BY <1>2 DEF StoreStep, StoreCall, Next, CallStep
<1>3. CASE ServiceCrash
  BY <1>3 DEF ServiceCrash, Next
<1> QED
  BY <1>1, <1>2, <1>3 DEF ReaderNext

LEMMA ApplyTyped ==
    ASSUME applied \in Seq(Lines), cursor \in Nat, NEW p \in Seq(Lines), Apply(p)
    PROVE  /\ applied' \in Seq(Lines) /\ cursor' \in Nat
           /\ cursor' = cursor \/ \E x \in In(p) : cursor' = x.seq
<1>1. applied' \in Seq(Lines)
  BY ConcatProperties DEF Apply
<1>2. CASE p = <<>>
  BY <1>1, <1>2 DEF Apply
<1>3. CASE p # <<>>
  <2>1. Len(p) \in 1..Len(p)
    BY <1>3
  <2>2. p[Len(p)] \in Lines /\ p[Len(p)] \in In(p)
    BY <2>1 DEF In
  <2> QED
    BY <1>1, <1>3, <2>2 DEF Apply, Lines
<1> QED
  BY <1>2, <1>3

LEMMA ReaderTypeInit == ReaderInit => TypeInv /\ ReaderTypeOK
<1> SUFFICES ASSUME ReaderInit PROVE TypeInv /\ ReaderTypeOK
  OBVIOUS
<1>1. TypeInv
  BY TypeInit DEF ReaderInit
<1>2. <<>> \in Seq(Lines)
  OBVIOUS
<1> QED
  BY <1>1, <1>2 DEF ReaderInit, ReaderTypeOK

\* The line a call writes.
LEMMA LineTyped ==
    ASSUME TypeInv, NEW c \in Calls, pc[c] \in Writing
    PROVE  Line(c) \in Lines /\ Line(c).call = c /\ Line(c).seq = seq[c] /\ seq[c] \in Nat \ {0}
BY DEF TypeInv, TypeOK, GivenPositive, Line, Lines

\* What a request of the client applies comes from the file or the tail.
LEMMA RequestApplies ==
    ASSUME TypeInv, ReaderTypeOK, ReaderStep
    PROVE  \/ UNCHANGED <<applied, cursor>>
           \/ applied' = <<>> /\ cursor' = 0
           \/ \E p \in Seq(Lines) : Apply(p) /\ (In(p) \subseteq In(file) \/ In(p) \subseteq In(tail))
<1>1. cursor \in Nat /\ through \in Nat /\ file \in Seq(Lines) /\ tail \in Seq(Lines)
  BY DEF TypeInv, TypeOK, ReaderTypeOK
<1>2. CASE SnapshotPage
  <2>1. PICK p \in Seq(Lines) : p = Page(file, cursor) /\ In(p) \subseteq In(file)
    BY <1>1, PageIsPage
  <2>2. PICK q \in Seq(Lines) : q = Only(p, UpTo(through)) /\ In(q) \subseteq In(p)
    BY <1>1, PartOfPage
  <2> QED
    BY <1>2, <2>1, <2>2 DEF SnapshotPage
<1>3. CASE Poll
  <2>1. PICK p \in Seq(Lines) : p = Page(tail, cursor) /\ In(p) \subseteq In(tail)
    BY <1>1, PageIsPage
  <2> QED
    BY <1>3, <2>1 DEF Poll
<1>4. CASE PollFile
  <2>1. PICK p \in Seq(Lines) : p = Page(file, cursor) /\ In(p) \subseteq In(file)
    BY <1>1, PageIsPage
  <2> QED
    BY <1>4, <2>1 DEF PollFile
<1>5. CASE SnapshotStart
  BY <1>5 DEF SnapshotStart
<1> QED
  BY <1>2, <1>3, <1>4, <1>5
  DEF ReaderStep, AwaitWrites, LastKnown, LastFromFile, SnapshotLoop, SnapshotPageUnread,
      PollFileUnread

LEMMA ReaderTypeStep ==
    ASSUME TypeInv, ReaderTypeOK, [ReaderNext]_allVars
    PROVE  TypeInv' /\ ReaderTypeOK'
<1>1. TypeInv'
  BY StepOfStore, TypeStep
<1>2. /\ applied \in Seq(Lines) /\ tail \in Seq(Lines) /\ cursor \in Nat /\ through \in Nat
      /\ begun \subseteq Lines /\ file \in Seq(Lines) /\ top \in Nat
      /\ cut \in BOOLEAN /\ rewound \in BOOLEAN
      /\ at \in {"start", "following"} \cup Snapshotting \cup Polling
      /\ waiting \in Calls \cup {None} /\ allocTail \in Calls \cup {None}
      /\ writeTail \in Calls \cup {None} /\ cache \in Nat
      /\ seq \in [Calls -> Nat]
  BY DEF ReaderTypeOK, TypeInv, TypeOK
<1>0. SUFFICES ReaderTypeOK'
  BY <1>1
<1>3. LastInFile \in Nat /\ LastInFile' \in Nat
  <2>1. LastInFile \in Nat
    BY <1>2, LastInFileType
  <2>2. file' \in Seq(Lines)
    BY <1>1 DEF TypeInv, TypeOK
  <2>3. \A s \in Seq(Lines) : (IF s = <<>> THEN 0 ELSE s[Len(s)].seq) \in Nat
    <3>1. SUFFICES ASSUME NEW s \in Seq(Lines), s # <<>> PROVE s[Len(s)].seq \in Nat
      OBVIOUS
    <3>2. s[Len(s)] \in Lines
      BY <3>1
    <3> QED
      BY <3>2 DEF Lines
  <2> QED
    BY <2>1, <2>2, <2>3 DEF LastInFile
<1>4. CASE ReaderStep
  <2>1. applied' \in Seq(Lines) /\ cursor' \in Nat
    <3>1. CASE UNCHANGED <<applied, cursor>> \/ (applied' = <<>> /\ cursor' = 0)
      <4>1. <<>> \in Seq(Lines) /\ 0 \in Nat
        OBVIOUS
      <4> QED
        BY <1>2, <3>1, <4>1, Zenon
    <3>2. ASSUME NEW p \in Seq(Lines), Apply(p) PROVE applied' \in Seq(Lines) /\ cursor' \in Nat
      BY <1>2, <3>2, ApplyTyped
    <3> QED
      BY <1>4, <3>1, <3>2, RequestApplies
  <2>2. UNCHANGED <<tail, top, rewound>>
    BY <1>4 DEF ReaderStep, numberVars, SnapshotStart, AwaitWrites, LastKnown, LastFromFile,
      SnapshotLoop, SnapshotPage, SnapshotPageUnread, Poll, PollFile, PollFileUnread
  <2>3. LinesInFile \subseteq Lines
    BY <1>2, LinesOf DEF LinesInFile, In
  <2>4. begun' \subseteq Lines /\ through' \in Nat /\ waiting' \in Calls \cup {None}
    <3>1. begun' = begun \/ begun' = LinesInFile
      BY <1>4 DEF ReaderStep, SnapshotStart, AwaitWrites, LastKnown, LastFromFile, SnapshotLoop,
        SnapshotPage, SnapshotPageUnread, Poll, PollFile, PollFileUnread
    <3>2. through' \in {through, cache, LastInFile, 0}
      BY <1>4 DEF ReaderStep, SnapshotStart, AwaitWrites, LastKnown, LastFromFile, SnapshotLoop,
        SnapshotPage, SnapshotPageUnread, Poll, PollFile, PollFileUnread
    <3>3. waiting' \in {waiting, allocTail, writeTail, None}
      BY <1>4 DEF ReaderStep, SnapshotStart, AwaitWrites, LastKnown, LastFromFile, SnapshotLoop,
        SnapshotPage, SnapshotPageUnread, Poll, PollFile, PollFileUnread
    <3> QED
      BY <1>2, <1>3, <2>3, <3>1, <3>2, <3>3
  <2>5. cut' \in BOOLEAN
    <3>1. UNCHANGED cut \/ cut' = FALSE \/ cut' = TRUE
      BY <1>4 DEF ReaderStep, SnapshotStart, AwaitWrites, LastKnown, LastFromFile,
        SnapshotLoop, SnapshotPage, SnapshotPageUnread, Poll, PollFile, PollFileUnread
    <3> QED
      BY <1>2, <3>1, Zenon
  <2>6. at' \in {"start", "following"} \cup Snapshotting \cup Polling
    BY <1>2, <1>4 DEF ReaderStep, SnapshotStart, AwaitWrites, LastKnown, LastFromFile,
      SnapshotLoop, SnapshotPage, SnapshotPageUnread, Poll, PollFile, PollFileUnread,
      Snapshotting, Polling
  <2> QED
    BY <1>2, <2>1, <2>2, <2>4, <2>5, <2>6, Zenon DEF ReaderTypeOK
<1>5. CASE UNCHANGED readerVars
  BY <1>2, <1>5, Zenon DEF readerVars, requestVars, numberVars, ReaderTypeOK
<1>6. ASSUME NEW c \in Calls, StoreCall(c) PROVE ReaderTypeOK'
  <2>1. CASE ReadLast(c) /\ rewound' = (rewound \/ seen'[c] < top)
             /\ UNCHANGED <<requestVars, tail, top>>
    <3>1. PICK lower : lower = (seen'[c] < top)
      OBVIOUS
    <3>2. rewound' = (rewound \/ lower)
      BY <2>1, <3>1
    <3>3. rewound' \in BOOLEAN
      BY <3>2, Zenon
    <3> QED
      BY <1>2, <2>1, <3>3 DEF requestVars, ReaderTypeOK
  <2>2. CASE (Put(seq[c]) \/ Put(LastInFile')) /\ UNCHANGED <<requestVars, tail, rewound>>
    <3>1. top' \in Nat
      BY <1>2, <1>3, <2>2 DEF Put
    <3> QED
      BY <1>2, <2>2, <3>1 DEF requestVars, ReaderTypeOK
  <2>3. CASE Notify(c) /\ Remember(Line(c)) /\ UNCHANGED <<requestVars, numberVars>>
    <3>1. Line(c) \in Lines
      BY <2>3, LineTyped DEF Notify, Writing
    <3>2. PICK t \in Seq(Lines) : t = Append(tail, Line(c))
      BY <1>2, <3>1, UpwardAppend
    <3>3. tail' = SubSeq(t, IF Len(t) > TailLimit THEN Len(t) - TailLimit + 1 ELSE 1, Len(t))
      BY <2>3, <3>2 DEF Remember
    <3>4. tail' \in Seq(Lines)
      <4> DEFINE a == IF Len(t) > TailLimit THEN Len(t) - TailLimit + 1 ELSE 1
      <4>1. a \in 1..(Len(t) + 1) /\ Len(t) \in 0..Len(t)
        BY HostEventReaderAssumption
      <4> HIDE DEF a
      <4>2. SubSeq(t, a, Len(t)) \in Seq(Lines)
        BY <4>1, UpwardPart
      <4> QED
        BY <3>3, <4>2 DEF a
    <3> QED
      BY <1>2, <2>3, <3>4 DEF requestVars, numberVars, ReaderTypeOK
  <2> QED
    BY <1>5, <1>6, <2>1, <2>2, <2>3 DEF StoreCall
<1>7. CASE ServiceCrash
  <2>1. <<>> \in Seq(Lines)
    OBVIOUS
  <2>2. top' \in Nat
    BY <1>2, <1>3, <1>7 DEF ServiceCrash, Put
  <2>3. at' \in {"start", "following"} \cup Snapshotting \cup Polling
    BY <1>2, <1>7 DEF ServiceCrash
  <2>4. /\ waiting' = None /\ tail' = <<>> /\ through' = 0
        /\ UNCHANGED <<cursor, applied, begun, cut, rewound>>
    BY <1>7 DEF ServiceCrash
  <2>5. through' \in Nat /\ waiting' \in Calls \cup {None}
    BY <2>4
  <2> QED
    BY <1>2, <2>1, <2>2, <2>3, <2>4, <2>5, Zenon DEF ReaderTypeOK
<1>8. CASE UNCHANGED allVars
  BY <1>5, <1>8 DEF allVars
<1> QED
  BY <1>1, <1>4, <1>5, <1>6, <1>7, <1>8 DEF ReaderNext, StoreStep

\* The client's place, its cursor and what it holds keep their types, whatever is torn.
THEOREM ReaderTypeCorrect == ReaderSpec => []ReaderTypeOK
<1>1. TypeInv /\ ReaderTypeOK /\ [ReaderNext]_allVars => TypeInv' /\ ReaderTypeOK'
  BY ReaderTypeStep
<1> QED
  BY <1>1, ReaderTypeInit, PTL DEF ReaderSpec

-------------------------------------------------------------------------------
(***************************************************************************)
(* What the reader holds.  Three things go wrong in the code and are noted *)
(* when they do: the file could not be read when numbering began (misread),*)
(* the numbers went on from below one that was in the file (rewound), and  *)
(* the file could not be read for a snapshot (cut).  Up to then, and in    *)
(* parts also after it, the following holds.                               *)
(***************************************************************************)
Kept == ~raced /\ removing = "no"

\* The calls that are past their write.
Spent == {"written", "done", "failed", "lost"}

\* A line tells of the call that wrote it, and the tail of calls that are done.
LinesTrue ==
    /\ \A x \in In(file) \cup In(tail) \cup begun : pc[x.call] \in Spent /\ x.seq = seq[x.call]
    /\ \A x \in In(tail) : pc[x.call] = "done"

\* No number in sight is above the highest that was put in the file.
TopBounds ==
    /\ \A x \in In(file) \cup In(tail) : x.seq <= top
    /\ \A c \in Calls : pc[c] = "written" => seq[c] <= top
    /\ cursor <= top
    /\ misread => rewound

\* What was applied is numbered upwards to the cursor, and the tail to what comes next.
InOrder ==
    /\ Upward(applied) /\ \A x \in In(applied) : x.seq <= cursor
    /\ Upward(tail)
    /\ tail # <<>> => cache # None
    /\ \A x \in In(tail) :
          /\ x.seq <= cache
          /\ \A c \in Calls : pc[c] = "assigning" => x.seq <= seen[c]
          /\ \A c \in Calls : pc[c] \in Writing => x.seq < seq[c]

\* What comes next is above everything that was in the file.
Fresh ==
    /\ cache # None => top <= cache
    /\ \A c \in Calls : pc[c] = "assigning" => top <= seen[c]
    /\ \A c \in Calls : pc[c] = "writing" => top < seq[c]
    /\ \A c \in Calls : pc[c] = "written" =>
          /\ seq[c] = top /\ partial = "none"
          /\ \A x \in In(file) : x.call = c \/ x.seq < top

\* The tail has what the file has from the tail's first line on, but for lines behind its
\* last one that nobody has been told of.
TailReaches ==
    tail # <<>> => \A x \in In(file) :
        /\ tail[1].seq <= x.seq => x \in In(tail) \/ tail[Len(tail)].seq < x.seq
        /\ tail[Len(tail)].seq < x.seq =>
              pc[x.call] = "written" \/ (partial = "whole" /\ x = file[Len(file)])

\* What the file has up to the cursor was applied.
Passed == \A x \in In(file) : x.seq <= cursor => x \in In(applied)

\* The end of a snapshot is not below what was there when it began.
SnapshotSound ==
    /\ at \in {"loop", "page allocations", "page writes"} =>
          \A x \in begun \cap In(file) : x.seq <= through
    /\ at \in Snapshotting =>
          \A x \in begun \cap In(file) : x.seq <= cursor => x \in In(applied)
    /\ at \in {"following"} \cup Polling => begun \cap In(file) \subseteq In(applied)

ReaderInv ==
    /\ IInv /\ ReaderTypeOK /\ Kept
    /\ LinesTrue /\ TopBounds
    /\ misread \/ InOrder
    /\ rewound \/ (Fresh /\ TailReaches /\ Passed)
    /\ misread \/ cut \/ SnapshotSound

\* What the store's invariant says of the file.
LEMMA FileFacts ==
    ASSUME IInv, Kept, ~misread
    PROVE  /\ file \in Seq(Lines) /\ Upward(file) /\ cache \in Nat /\ NumbersKnown
           /\ cache # None => \A x \in In(file) : x.seq <= cache
           /\ \A x \in In(file) : x.seq <= LastInFile
<1>1. TypeInv /\ OrderInv /\ NumbersKnown
  BY DEF IInv, Kept, OrderInv
<1>2. file \in Seq(Lines) /\ cache \in Nat /\ Len(file) \in Nat
  BY <1>1 DEF TypeInv, TypeOK
<1>3. Upward(file)
  BY <1>1 DEF NumbersKnown, Upward
<1>4. \A x \in In(file) : x.seq <= LastInFile
  <2>1. CASE file = <<>>
    BY <1>2, <2>1, LinesOf
  <2>2. CASE file # <<>>
    BY <1>2, <1>3, <2>2, UpwardEnds DEF LastInFile
  <2> QED
    BY <2>1, <2>2
<1>5. cache # None => \A x \in In(file) : x.seq <= cache
  BY <1>1 DEF NumbersKnown, In
<1> QED
  BY <1>1, <1>2, <1>3, <1>4, <1>5

\* A part of a numbered sequence that reaches to its end.
LEMMA Truncated ==
    ASSUME NEW t \in Seq(Lines), Upward(t), NEW a \in 1..Len(t)
    PROVE  LET s == SubSeq(t, a, Len(t))
           IN  /\ s \in Seq(Lines) /\ Upward(s) /\ In(s) \subseteq In(t)
               /\ s # <<>> /\ s[1] \in In(t)
               /\ \A x \in In(t) : s[1].seq <= x.seq => x \in In(s)
<1> DEFINE s == SubSeq(t, a, Len(t))
<1>1. s \in Seq(Lines) /\ In(s) = {t[i] : i \in a..Len(t)} /\ Upward(s)
  <2>1. a \in 1..(Len(t) + 1) /\ Len(t) \in 0..Len(t)
    OBVIOUS
  <2> QED
    BY <2>1, UpwardPart
<1>2. s # <<>> /\ s[1] = t[a]
  <2>1. a \in Int /\ Len(t) \in Int /\ a <= Len(t) /\ \A i \in a..Len(t) : t[i] \in Lines
    OBVIOUS
  <2>2. Len(s) = Len(t) - a + 1 /\ \A i \in 1..(Len(t) - a + 1) : s[i] = t[a + i - 1]
    BY <2>1, SubSeqProperties
  <2>3. Len(s) # 0 /\ 1 \in 1..(Len(t) - a + 1) /\ a + 1 - 1 = a
    BY <2>1, <2>2
  <2>4. s[1] = t[a + 1 - 1]
    BY <2>2, <2>3
  <2> HIDE DEF s
  <2> QED
    BY <1>1, <2>3, <2>4
<1> HIDE DEF s
<1>3. a..Len(t) \subseteq 1..Len(t) /\ a \in 1..Len(t)
  OBVIOUS
<1>4. In(s) \subseteq In(t) /\ s[1] \in In(t)
  BY <1>1, <1>2, <1>3 DEF In
<1>5. ASSUME NEW x \in In(t), s[1].seq <= x.seq PROVE x \in In(s)
  <2>1. PICK j \in 1..Len(t) : x = t[j]
    BY DEF In
  <2>2. t[a].seq \in Nat /\ t[j].seq \in Nat
    BY LinesOf DEF In
  <2>3. ~(j < a)
    BY <1>2, <1>5, <2>1, <2>2 DEF Upward
  <2>4. j \in a..Len(t)
    BY <2>3
  <2> QED
    BY <1>1, <2>1, <2>4
<1> QED
  BY <1>1, <1>2, <1>4, <1>5 DEF s

LEMMA StoreInvStep == ASSUME IInv, [Next]_vars PROVE IInv'
<1>1. TypeInv'
  BY TypeStep DEF IInv
<1>2. CASE raced'
  BY <1>1, <1>2 DEF IInv
<1>3. CASE ~raced'
  BY <1>1, <1>3, OrderStep DEF IInv
<1> QED
  BY <1>2, <1>3

\* Nobody removes the log the client follows.
LEMMA KeptStep ==
    ASSUME Kept, [ReaderNext]_allVars PROVE Kept'
<1> USE DEF Kept
<1>1. CASE ReaderStep \/ UNCHANGED allVars
  <2>1. UNCHANGED <<raced, removing>>
    BY <1>1 DEF ReaderStep, allVars, vars, removeVars
  <2> QED
    BY <2>1
<1>2. CASE AppendCall
  <2>1. removing # "cleared" /\ UNCHANGED removing /\ (raced' <=> raced)
    BY <1>2 DEF AppendCall, removeVars
  <2> QED
    BY <2>1
<1>3. ASSUME NEW c \in Calls,
             \/ LookUp(c) \/ ReadLast(c) \/ Assign(c)
             \/ WriteLine(c) \/ WriteFails(c) \/ Notify(c)
      PROVE  Kept'
  <2>1. UNCHANGED <<raced, removing>>
    BY <1>3 DEF LookUp, ReadLast, Assign, WriteLine, WriteFails, Notify, removeVars
  <2> QED
    BY <2>1
<1>4. CASE ServiceCrash
  BY <1>4 DEF ServiceCrash, Crash
<1> QED
  BY <1>1, <1>2, <1>3, <1>4 DEF ReaderNext, StoreStep, StoreCall

\* What was noted stays noted, but for a snapshot's, which the next snapshot forgets.
LEMMA ReaderNotesStay ==
    ASSUME [ReaderNext]_allVars
    PROVE  (misread => misread') /\ (rewound => rewound')
<1>1. misread => misread'
  BY StepOfStore, NotesStay
<1>2. ASSUME NEW c \in Calls, StoreCall(c) PROVE rewound => rewound'
  <2>1. CASE ReadLast(c) /\ rewound' = (rewound \/ seen'[c] < top)
    BY <2>1
  <2>2. CASE UNCHANGED rewound
    BY <2>2
  <2> QED
    BY <1>2, <2>1, <2>2 DEF StoreCall, readerVars, numberVars
<1>3. CASE ReaderStep \/ (AppendCall /\ UNCHANGED readerVars) \/ ServiceCrash \/ UNCHANGED allVars
  <2>1. UNCHANGED rewound
    BY <1>3 DEF ReaderStep, ServiceCrash, allVars, readerVars, numberVars
  <2> QED
    BY <1>1, <2>1
<1>4. CASE \E c \in Calls : StoreCall(c)
  BY <1>1, <1>2, <1>4
<1> QED
  BY <1>3, <1>4 DEF ReaderNext, StoreStep

-------------------------------------------------------------------------------
(***************************************************************************)
(* What a step does to the calls, the file, the tail and the rest.         *)
(***************************************************************************)

\* A write, whole or torn, puts at most the writer's line behind the file, and tears it only
\* where no newline follows it.
LEMMA WriteEffect ==
    ASSUME TypeInv, NEW c \in Calls, pc[c] = "writing", WriteLine(c) \/ Tear(c)
    PROVE  /\ file' \in Seq(Lines)
           /\ \A x \in In(file') :
                 \/ x \in In(file)
                 \/ /\ x = Line(c) /\ x = file'[Len(file')]
                    /\ partial' = "whole" \/ WriteLine(c)
<1>1. file \in Seq(Lines) /\ (partial = "whole" => file # <<>>)
  BY DEF TypeInv, TypeOK, TornIsThere
<1>2. Line(c) \in Lines
  BY LineTyped DEF Writing
<1>3. CASE file' = Whole
  <2>1. CASE partial = "whole"
    <3>1. /\ file' \in Seq(Lines) /\ Len(file') = Len(file) - 1 /\ Len(file) \in Nat
          /\ \A i \in 1..Len(file') : file'[i] = file[i]
      BY <1>1, <1>3, <2>1, Front DEF Whole
    <3>2. \A i \in 1..Len(file') : i \in 1..Len(file)
      BY <3>1
    <3> QED
      BY <3>1, <3>2 DEF In
  <2>2. CASE partial # "whole"
    BY <1>1, <1>3, <2>2 DEF Whole
  <2> QED
    BY <2>1, <2>2
<1>4. CASE file' = Append(file, Line(c)) /\ (partial' = "whole" \/ WriteLine(c))
  <2>1. PICK line \in Lines : line = Line(c)
    BY <1>2
  <2>2. file' \in Seq(Lines) /\ In(file') = In(file) \cup {line}
    BY <1>1, <1>4, <2>1, UpwardAppend
  <2>3. file'[Len(file')] = line
    BY <1>1, <1>4, <2>1
  <2> QED
    BY <1>4, <2>1, <2>2, <2>3
<1>5. CASE UNCHANGED diskVars
  BY <1>1, <1>5 DEF diskVars
<1>6. CASE WriteLine(c)
  BY <1>3, <1>4, <1>6 DEF WriteLine
<1>7. CASE Tear(c)
  BY <1>3, <1>4, <1>5, <1>7 DEF Tear
<1> QED
  BY <1>6, <1>7

\* The next byte takes a line without its newline with it.
LEMMA TornGoes ==
    ASSUME TypeInv, Upward(file), NEW c \in Calls, pc[c] = "writing", WriteLine(c) \/ Tear(c),
           partial = "whole", file[Len(file)] \in In(file')
    PROVE  UNCHANGED <<file, partial>>
<1>1. file \in Seq(Lines) /\ file # <<>>
  BY DEF TypeInv, TypeOK, TornIsThere
<1>2. file' # Whole
  <2>1. SUFFICES ASSUME file' = Whole PROVE FALSE
    OBVIOUS
  <2>2. /\ file' \in Seq(Lines) /\ Len(file') = Len(file) - 1 /\ Len(file) \in Nat
        /\ \A i \in 1..Len(file') : file'[i] = file[i]
    BY <1>1, <2>1, Front DEF Whole
  <2>3. PICK i \in 1..Len(file') : file'[i] = file[Len(file)]
    BY DEF In
  <2>4. file[i] = file[Len(file)] /\ i \in 1..Len(file) /\ Len(file) \in 1..Len(file) /\ i < Len(file)
    BY <2>2, <2>3
  <2>5. file[i].seq < file[Len(file)].seq /\ file[i].seq \in Nat
    BY <1>1, <2>4, LinesOf DEF Upward, In
  <2> QED
    BY <2>4, <2>5
<1> QED
  BY <1>2 DEF WriteLine, Tear, diskVars

\* Where lines come from.
LEMMA StepFacts ==
    ASSUME IInv, ReaderTypeOK, Kept, [ReaderNext]_allVars
    PROVE  /\ \A c \in Calls : pc[c] \in Spent =>
                 /\ pc'[c] \in Spent /\ seq'[c] = seq[c]
                 /\ pc[c] = "done" => pc'[c] = "done"
           /\ \A x \in In(file') :
                 \/ x \in In(file)
                 \/ \E c \in Calls : /\ x = Line(c) /\ pc[c] = "writing" /\ pc'[c] \in Spent
                                     /\ seq'[c] = seq[c] /\ seq[c] <= top'
           /\ \A x \in In(tail') :
                 \/ x \in In(tail)
                 \/ \E c \in Calls : /\ x = Line(c) /\ pc[c] = "written" /\ pc'[c] = "done"
                                     /\ seq'[c] = seq[c]
           /\ begun' = begun \/ begun' = In(file)
           /\ top <= top'
<1>1. /\ TypeInv /\ OrderInv /\ TypeInv' /\ file \in Seq(Lines) /\ file' \in Seq(Lines)
      /\ pc \in [Calls -> Stages]
      /\ seq \in [Calls -> Nat] /\ tail \in Seq(Lines) /\ top \in Nat
  <2>1. TypeInv /\ OrderInv
    BY DEF IInv, Kept
  <2>2. TypeInv'
    BY <2>1, StepOfStore, TypeStep
  <2> QED
    BY <2>1, <2>2 DEF TypeInv, TypeOK, ReaderTypeOK
<1>2. LastInFile' \in Nat /\ (file' # <<>> => LastInFile' = file'[Len(file')].seq)
  <2>1. PICK s \in Seq(Lines) : s = file'
    BY <1>1
  <2>2. s # <<>> => s[Len(s)] \in Lines
    OBVIOUS
  <2>3. s # <<>> => s[Len(s)].seq \in Nat
    BY <2>2 DEF Lines
  <2> QED
    BY <2>1, <2>3 DEF LastInFile
<1>3. CASE ReaderStep \/ UNCHANGED allVars
  <2>1. UNCHANGED <<pc, seq, file, top, tail>> /\ (begun' = begun \/ begun' = In(file))
    BY <1>3 DEF ReaderStep, allVars, vars, callVars, diskVars, readerVars, requestVars, numberVars,
      SnapshotStart, AwaitWrites, LastKnown, LastFromFile, SnapshotLoop, SnapshotPage,
      SnapshotPageUnread, Poll, PollFile, PollFileUnread, LinesInFile, In
  <2> QED
    BY <1>1, <2>1
<1>4. CASE AppendCall /\ UNCHANGED readerVars
  <2>1. /\ UNCHANGED <<seq, file, top, tail, begun>>
        /\ pc' = [pc EXCEPT ![issued + 1] = "queued"]
    BY <1>4 DEF AppendCall, At, diskVars, readerVars, requestVars, numberVars
  <2>2. \A c \in Calls : c = issued + 1 => pc[c] = "unborn"
    BY <1>1 DEF OrderInv, BornInOrder, TypeInv, TypeOK, Calls
  <2>3. \A c \in Calls : pc[c] \in Spent => pc'[c] = pc[c]
    BY <1>1, <2>1, <2>2 DEF Spent
  <2> QED
    BY <1>1, <2>1, <2>3
<1>5. ASSUME NEW c \in Calls, LookUp(c) \/ Assign(c) \/ ReadLast(c),
             UNCHANGED <<requestVars, tail, top>>
      PROVE  /\ \A d \in Calls : pc[d] \in Spent => pc'[d] = pc[d] /\ seq'[d] = seq[d]
             /\ UNCHANGED <<file, top, tail, begun>>
  <2>1. /\ pc[c] \in Allocating /\ \A d \in Calls \ {c} : pc'[d] = pc[d] /\ seq'[d] = seq[d]
        /\ UNCHANGED <<file, top, tail, begun>>
    BY <1>1, <1>5 DEF LookUp, Assign, ReadLast, At, diskVars, requestVars, Allocating
  <2> QED
    BY <2>1 DEF Spent, Allocating
<1>6. ASSUME NEW c \in Calls, \/ WriteLine(c) /\ Put(seq[c])
                              \/ WriteFails(c) /\ Put(LastInFile'),
             UNCHANGED <<requestVars, tail, rewound>>
      PROVE  /\ \A d \in Calls : pc[d] \in Spent => pc'[d] = pc[d] /\ seq'[d] = seq[d]
             /\ \A x \in In(file') : x \in In(file) \/
                   (/\ x = Line(c) /\ pc[c] = "writing" /\ pc'[c] \in Spent
                    /\ seq'[c] = seq[c] /\ seq[c] <= top')
             /\ UNCHANGED <<tail, begun>> /\ top <= top'
  <2>1. /\ pc[c] = "writing" /\ pc'[c] \in Spent /\ \A d \in Calls \ {c} : pc'[d] = pc[d]
        /\ seq' = seq /\ UNCHANGED <<tail, begun>> /\ (WriteLine(c) \/ Tear(c))
    BY <1>1, <1>6 DEF WriteLine, WriteFails, MayWrite, At, requestVars, Spent
  <2>2. top <= top' /\ (WriteLine(c) => seq[c] <= top') /\ (WriteFails(c) => LastInFile' <= top')
    <3>1. CASE WriteLine(c) /\ Put(seq[c])
      <4>1. ~WriteFails(c)
        BY <1>1, <3>1 DEF WriteLine, WriteFails, At, TypeInv, TypeOK
      <4> QED
        BY <1>1, <3>1, <4>1 DEF Put
    <3>2. CASE WriteFails(c) /\ Put(LastInFile')
      <4>1. ~WriteLine(c)
        BY <1>1, <3>2 DEF WriteLine, WriteFails, At, TypeInv, TypeOK
      <4> QED
        BY <1>1, <1>2, <3>2, <4>1 DEF Put
    <3> QED
      BY <1>6, <3>1, <3>2
  <2>3. ASSUME NEW x \in In(file'), x \notin In(file) PROVE x = Line(c) /\ seq[c] <= top'
    <3>1. x = Line(c) /\ x = file'[Len(file')]
      BY <1>1, <2>1, <2>3, WriteEffect
    <3>2. file' # <<>>
      BY <1>1, <2>3, EmptyUpward
    <3>3. x.seq = seq[c] /\ LastInFile' = x.seq
      BY <1>2, <3>1, <3>2 DEF Line
    <3> QED
      BY <1>6, <2>2, <3>1, <3>3
  <2> QED
    BY <2>1, <2>2, <2>3 DEF Spent
<1>7. ASSUME NEW c \in Calls, Notify(c), Remember(Line(c)), UNCHANGED <<requestVars, numberVars>>
      PROVE  /\ \A d \in Calls : pc[d] \in Spent =>
                   pc'[d] \in Spent /\ seq'[d] = seq[d] /\ (pc[d] = "done" => pc'[d] = "done")
             /\ \A x \in In(tail') : x \in In(tail) \/
                   (/\ x = Line(c) /\ pc[c] = "written" /\ pc'[c] = "done" /\ seq'[c] = seq[c])
             /\ UNCHANGED <<file, begun, top>>
  <2>1. /\ pc[c] = "written" /\ pc'[c] = "done" /\ \A d \in Calls \ {c} : pc'[d] = pc[d]
        /\ seq' = seq /\ UNCHANGED <<file, begun, top>>
    BY <1>1, <1>7 DEF Notify, At, diskVars, requestVars, numberVars
  <2>2. PICK line \in Lines : line = Line(c)
    BY <1>1, <2>1, LineTyped DEF Writing
  <2>3. PICK t \in Seq(Lines) : t = Append(tail, line) /\ In(t) = In(tail) \cup {line}
    BY <1>1, UpwardAppend
  <2> DEFINE a == IF Len(t) > TailLimit THEN Len(t) - TailLimit + 1 ELSE 1
  <2>4. tail' = SubSeq(t, a, Len(t))
    BY <1>7, <2>2, <2>3 DEF Remember
  <2>5. a \in 1..(Len(t) + 1) /\ Len(t) \in 0..Len(t) /\ \A i \in a..Len(t) : i \in 1..Len(t)
    BY HostEventReaderAssumption
  <2> HIDE DEF a
  <2>6. In(tail') = {t[i] : i \in a..Len(t)}
    BY <2>4, <2>5, UpwardPart
  <2>7. In(tail') \subseteq In(t)
    BY <2>5, <2>6 DEF In
  <2> QED
    BY <2>1, <2>2, <2>3, <2>7 DEF Spent
<1>8. CASE ServiceCrash
  <2>1. /\ \A d \in Calls : pc'[d] = IF pc[d] \in Unsettled THEN "lost" ELSE pc[d]
        /\ seq' = seq /\ tail' = <<>> /\ begun' = begun /\ Put(LastInFile')
        /\ UNCHANGED diskVars \/ \E c \in Calls : MayWrite(c) /\ Tear(c)
    BY <1>1, <1>8 DEF ServiceCrash, Crash
  <2>2. \A d \in Calls : pc[d] \in Spent => pc'[d] \in Spent /\ (pc[d] = "done" => pc'[d] = "done")
    BY <2>1 DEF Spent, Unsettled, Allocating, Writing
  <2>3. top <= top' /\ LastInFile' <= top'
    BY <1>1, <1>2, <2>1 DEF Put
  <2>4. ASSUME NEW x \in In(file'), x \notin In(file)
        PROVE  \E c \in Calls : /\ x = Line(c) /\ pc[c] = "writing" /\ pc'[c] \in Spent
                                /\ seq'[c] = seq[c] /\ seq[c] <= top'
    <3>1. PICK c \in Calls : MayWrite(c) /\ Tear(c)
      BY <2>1, <2>4 DEF diskVars
    <3>2. pc[c] = "writing" /\ pc'[c] \in Spent
      BY <2>1, <3>1 DEF MayWrite, Spent, Unsettled, Writing
    <3>3. x = Line(c) /\ x = file'[Len(file')]
      BY <1>1, <2>4, <3>1, <3>2, WriteEffect
    <3>4. file' # <<>>
      BY <1>1, <2>4, EmptyUpward
    <3>5. x.seq = seq[c] /\ LastInFile' = x.seq
      BY <1>2, <3>3, <3>4 DEF Line
    <3> QED
      BY <2>1, <2>3, <3>2, <3>3, <3>5
  <2> QED
    BY <2>1, <2>2, <2>3, <2>4, EmptyUpward
<1>9. ASSUME NEW c \in Calls, LookUp(c) \/ Assign(c), UNCHANGED readerVars
      PROVE  UNCHANGED <<requestVars, tail, top>>
  BY <1>9 DEF readerVars, numberVars
<1>10. CASE \E c \in Calls : StoreCall(c)
  <2>1. PICK c \in Calls : StoreCall(c)
    BY <1>10
  <2>2. CASE (LookUp(c) \/ Assign(c) \/ ReadLast(c)) /\ UNCHANGED <<requestVars, tail, top>>
    BY <1>1, <1>5, <2>2
  <2>3. CASE /\ \/ WriteLine(c) /\ Put(seq[c])
                \/ WriteFails(c) /\ Put(LastInFile')
             /\ UNCHANGED <<requestVars, tail, rewound>>
    <3>1. \A d \in Calls : pc[d] \in Spent => pc'[d] = pc[d] /\ seq'[d] = seq[d]
      BY <1>6, <2>3
    <3>2. \A x \in In(file') : x \in In(file) \/
                   (/\ x = Line(c) /\ pc[c] = "writing" /\ pc'[c] \in Spent
                    /\ seq'[c] = seq[c] /\ seq[c] <= top')
      BY <1>6, <2>3
    <3>3. UNCHANGED <<tail, begun>> /\ top <= top'
      BY <1>6, <2>3
    <3> QED
      BY <3>1, <3>2, <3>3
  <2>4. CASE Notify(c) /\ Remember(Line(c)) /\ UNCHANGED <<requestVars, numberVars>>
    <3>1. \A d \in Calls : pc[d] \in Spent =>
                   pc'[d] \in Spent /\ seq'[d] = seq[d] /\ (pc[d] = "done" => pc'[d] = "done")
      BY <1>7, <2>4
    <3>2. \A x \in In(tail') : x \in In(tail) \/
                   (/\ x = Line(c) /\ pc[c] = "written" /\ pc'[c] = "done" /\ seq'[c] = seq[c])
      BY <1>7, <2>4
    <3>3. UNCHANGED <<file, begun, top>>
      BY <1>7, <2>4
    <3> QED
      BY <1>1, <3>1, <3>2, <3>3
  <2> QED
    BY <1>9, <2>1, <2>2, <2>3, <2>4 DEF StoreCall
<1> QED
  BY <1>3, <1>4, <1>8, <1>10 DEF ReaderNext, StoreStep

-------------------------------------------------------------------------------
(***************************************************************************)
(* Every step keeps the invariant, one part of it after the other.         *)
(***************************************************************************)

LEMMA LinesStep ==
    ASSUME ReaderInv, [ReaderNext]_allVars PROVE LinesTrue'
<1>1. /\ IInv /\ ReaderTypeOK /\ Kept /\ LinesTrue
      /\ file \in Seq(Lines) /\ tail \in Seq(Lines) /\ begun \subseteq Lines
  BY DEF ReaderInv, IInv, TypeInv, TypeOK, ReaderTypeOK
<1>2. /\ \A c \in Calls : pc[c] \in Spent =>
            pc'[c] \in Spent /\ seq'[c] = seq[c] /\ (pc[c] = "done" => pc'[c] = "done")
      /\ \A x \in In(file') :
            x \in In(file) \/ \E c \in Calls : x = Line(c) /\ pc'[c] \in Spent /\ seq'[c] = seq[c]
      /\ \A x \in In(tail') :
            x \in In(tail) \/ \E c \in Calls : x = Line(c) /\ pc'[c] = "done" /\ seq'[c] = seq[c]
      /\ begun' = begun \/ begun' = In(file)
  BY <1>1, StepFacts
<1>3. \A x \in In(file) \cup In(tail) \cup begun : x.call \in Calls
  BY <1>1, LinesOf DEF Lines
<1>4. \A x \in In(file) \cup In(tail) \cup begun : pc'[x.call] \in Spent /\ x.seq = seq'[x.call]
  BY <1>1, <1>2, <1>3 DEF LinesTrue
<1>5. \A x \in In(tail) : pc'[x.call] = "done"
  BY <1>1, <1>2, <1>3, <1>4 DEF LinesTrue, Spent
<1>6. \A c \in Calls : Line(c).call = c /\ Line(c).seq = seq[c]
  BY DEF Line
<1>7. \A x \in In(file') : pc'[x.call] \in Spent /\ x.seq = seq'[x.call]
  BY <1>2, <1>4, <1>6
<1>8. \A x \in In(tail') : pc'[x.call] = "done" /\ x.seq = seq'[x.call]
  BY <1>2, <1>4, <1>5, <1>6
<1>9. \A x \in begun' : pc'[x.call] \in Spent /\ x.seq = seq'[x.call]
  BY <1>2, <1>4
<1> QED
  BY <1>7, <1>8, <1>9 DEF LinesTrue, Spent

LEMMA TopStep ==
    ASSUME ReaderInv, [ReaderNext]_allVars PROVE TopBounds'
<1>1. /\ IInv /\ TypeInv /\ ReaderTypeOK /\ Kept /\ TopBounds
      /\ file \in Seq(Lines) /\ tail \in Seq(Lines) /\ top \in Nat /\ cursor \in Nat
      /\ seq \in [Calls -> Nat] /\ pc \in [Calls -> Stages]
  BY DEF ReaderInv, IInv, TypeInv, TypeOK, ReaderTypeOK
<1>2. /\ \A x \in In(file') :
            x \in In(file) \/ \E c \in Calls : x = Line(c) /\ seq[c] <= top'
      /\ \A x \in In(tail') :
            x \in In(tail) \/ \E c \in Calls : x = Line(c) /\ pc[c] = "written"
      /\ top <= top'
  BY <1>1, StepFacts
<1>3. top' \in Nat /\ cursor' \in Nat
  BY <1>1, ReaderTypeStep DEF ReaderTypeOK
<1>4. \A x \in In(file) \cup In(tail) : x.seq \in Nat /\ x.seq <= top
  BY <1>1, LinesOf DEF TopBounds
<1>5. \A c \in Calls : Line(c).seq = seq[c] /\ seq[c] \in Nat
  BY <1>1 DEF Line
<1>6. \A x \in In(file') \cup In(tail') : x.seq <= top'
  <2>1. ASSUME NEW x \in In(file') PROVE x.seq <= top'
    <3>1. CASE x \in In(file)
      BY <1>1, <1>2, <1>3, <1>4, <3>1
    <3>2. CASE \E c \in Calls : x = Line(c) /\ seq[c] <= top'
      BY <1>5, <3>2
    <3> QED
      BY <1>2, <3>1, <3>2
  <2>2. ASSUME NEW x \in In(tail') PROVE x.seq <= top'
    <3>1. CASE x \in In(tail)
      BY <1>1, <1>2, <1>3, <1>4, <3>1
    <3>2. ASSUME NEW c \in Calls, x = Line(c), pc[c] = "written" PROVE x.seq <= top'
      BY <1>1, <1>2, <1>3, <1>5, <3>2 DEF TopBounds
    <3> QED
      BY <1>2, <3>1, <3>2
  <2> QED
    BY <2>1, <2>2
<1>7. cursor' <= top'
  <2>1. CASE UNCHANGED cursor
    BY <1>1, <1>2, <1>3, <2>1 DEF TopBounds
  <2>2. CASE ReaderStep
    <3>1. CASE cursor' = 0
      BY <1>3, <3>1
    <3>2. ASSUME NEW p \in Seq(Lines), Apply(p), In(p) \subseteq In(file) \/ In(p) \subseteq In(tail)
          PROVE  cursor' <= top'
      <4>1. cursor' = cursor \/ \E x \in In(p) : cursor' = x.seq
        BY <1>1, <3>2, ApplyTyped DEF ReaderTypeOK
      <4>2. \A x \in In(p) : x.seq \in Nat /\ x.seq <= top
        BY <1>4, <3>2
      <4> QED
        BY <1>1, <1>2, <1>3, <2>1, <4>1, <4>2
    <3> QED
      BY <1>1, <2>1, <2>2, <3>1, <3>2, RequestApplies
  <2>3. CASE StoreStep \/ ServiceCrash \/ UNCHANGED allVars
    <3>1. UNCHANGED cursor
      BY <2>3 DEF StoreStep, StoreCall, ServiceCrash, allVars, readerVars, requestVars
    <3> QED
      BY <2>1, <3>1
  <2> QED
    BY <2>2, <2>3 DEF ReaderNext
<1>8. ASSUME NEW c \in Calls, pc'[c] = "written" PROVE seq'[c] <= top'
  <2>1. CASE pc[c] = "written"
    <3>1. seq'[c] = seq[c]
      BY <1>1, <2>1, StepFacts DEF Spent
    <3> QED
      BY <1>1, <1>2, <1>3, <2>1, <3>1 DEF TopBounds
  <2>2. CASE pc[c] # "written"
    <3>1. WriteLine(c) /\ Put(seq[c])
      <4>1. ASSUME NEW d \in Calls, StoreCall(d) PROVE WriteLine(c) /\ Put(seq[c])
        <5>1. CASE LookUp(d) \/ ReadLast(d) \/ Assign(d) \/ WriteFails(d) \/ Notify(d)
          BY <1>1, <1>8, <2>2, <5>1 DEF LookUp, ReadLast, Assign, WriteFails, Notify, At
        <5>2. CASE WriteLine(d) /\ Put(seq[d])
          BY <1>1, <1>8, <2>2, <5>2 DEF WriteLine, At
        <5> QED
          BY <4>1, <5>1, <5>2 DEF StoreCall
      <4>2. ~AppendCall /\ ~ServiceCrash /\ ~ReaderStep /\ ~UNCHANGED allVars
        BY <1>1, <1>8, <2>2 DEF AppendCall, At, ServiceCrash, Crash, ReaderStep, allVars, vars,
          callVars, Unsettled, Writing
      <4> QED
        BY <4>1, <4>2 DEF ReaderNext, StoreStep
    <3>2. seq' = seq
      BY <3>1 DEF WriteLine
    <3> QED
      BY <1>1, <3>1, <3>2 DEF Put
  <2> QED
    BY <2>1, <2>2
<1>9. misread' => rewound'
  <2>1. CASE misread
    BY <1>1, <2>1, ReaderNotesStay DEF TopBounds
  <2>2. ASSUME NEW c \in Calls, ReadLast(c), rewound' = (rewound \/ seen'[c] < top), misread', ~misread
        PROVE  rewound'
    <3>1. PICK last \in {LastInFile} \cup {0} : /\ seen' = [seen EXCEPT ![c] = last]
                                               /\ misread' = (misread \/ last # LastInFile)
      BY <2>2 DEF ReadLast
    <3>2. last = 0 /\ LastInFile # 0 /\ seen'[c] = 0
      BY <1>1, <2>2, <3>1 DEF TypeInv, TypeOK
    <3>3. file # <<>> /\ LastInFile = file[Len(file)].seq
      BY <3>2 DEF LastInFile
    <3>4. Len(file) \in 1..Len(file)
      BY <1>1, <3>3
    <3>5. LastInFile \in Nat /\ LastInFile <= top
      BY <1>4, <3>3, <3>4 DEF In
    <3>6. seen'[c] < top
      BY <1>1, <3>2, <3>5
    <3> QED
      BY <2>2, <3>6
  <2>3. CASE UNCHANGED misread
    BY <1>1, <2>1, <2>3
  <2>4. UNCHANGED misread \/ \E c \in Calls : ReadLast(c) /\ rewound' = (rewound \/ seen'[c] < top)
    BY DEF ReaderNext, ReaderStep, StoreStep, StoreCall, ServiceCrash, allVars, vars, AppendCall,
      LookUp, Assign, WriteLine, WriteFails, Notify, Crash
  <2> QED
    BY <2>1, <2>2, <2>3, <2>4
<1> QED
  BY <1>6, <1>7, <1>8, <1>9 DEF TopBounds

-------------------------------------------------------------------------------
\* Lines applied behind those they are above.
LEMMA ApplyOrdered ==
    ASSUME applied \in Seq(Lines), cursor \in Nat, Upward(applied),
           \A x \in In(applied) : x.seq <= cursor,
           NEW p \in Seq(Lines), Upward(p), \A x \in In(p) : cursor < x.seq, Apply(p)
    PROVE  /\ Upward(applied') /\ In(applied') = In(applied) \cup In(p)
           /\ \A x \in In(applied') : x.seq <= cursor'
           /\ cursor <= cursor' /\ cursor' \in Nat
           /\ cursor' = cursor \/ \E y \in In(p) : cursor' = y.seq
<1>1. applied' = applied \o p /\ cursor' = IF p = <<>> THEN cursor ELSE p[Len(p)].seq
  BY DEF Apply
<1>2. \A x \in In(applied) \cup In(p) : x.seq \in Nat
  BY LinesOf
<1>3. Upward(applied') /\ In(applied') = In(applied) \cup In(p)
  <2>1. PICK a \in Seq(Lines) : a = applied
    OBVIOUS
  <2>2. \A x \in In(a), y \in In(p) : x.seq < y.seq
    BY <1>2, <2>1
  <2>3. Upward(a \o p) /\ In(a \o p) = In(a) \cup In(p)
    BY <2>1, <2>2, UpwardConcat
  <2> QED
    BY <1>1, <2>1, <2>3
<1>4. CASE p = <<>>
  BY <1>1, <1>3, <1>4, EmptyUpward
<1>5. CASE p # <<>>
  <2>1. PICK z \in In(p) : cursor' = z.seq /\ \A x \in In(p) : x.seq <= z.seq
    BY <1>1, <1>5, UpwardEnds
  <2>2. cursor < cursor' /\ cursor' \in Nat
    BY <1>2, <2>1
  <2> QED
    BY <1>2, <1>3, <2>1, <2>2
<1> QED
  BY <1>4, <1>5

\* A request of the client that applies lines applies a page of the file, or of a tail that
\* reaches back to the cursor.
LEMMA RequestPages ==
    ASSUME IInv, ReaderTypeOK, Kept, ~misread, Upward(tail), ReaderStep
    PROVE  \/ UNCHANGED <<applied, cursor>>
           \/ SnapshotStart /\ applied' = <<>> /\ cursor' = 0
           \/ \E p \in Seq(Lines) :
                 /\ Apply(p)
                 /\ \/ IsPage(p, file, cursor)
                    \/ IsPage(p, tail, cursor) /\ tail # <<>> /\ cursor >= tail[1].seq - 1
<1>1. /\ cursor \in Nat /\ through \in Nat /\ file \in Seq(Lines) /\ tail \in Seq(Lines)
      /\ Upward(file)
  BY FileFacts DEF ReaderTypeOK
<1>2. CASE SnapshotPage
  <2>1. PICK p \in Seq(Lines) : p = Page(file, cursor) /\ IsPage(p, file, cursor)
    BY <1>1, PageIsPage
  <2>2. PICK q \in Seq(Lines) : q = Only(p, UpTo(through)) /\ IsPage(q, file, cursor)
    BY <1>1, <2>1, PartOfPage
  <2> QED
    BY <1>2, <2>1, <2>2 DEF SnapshotPage
<1>3. CASE Poll
  <2>1. PICK p \in Seq(Lines) : p = Page(tail, cursor) /\ IsPage(p, tail, cursor)
    BY <1>1, PageIsPage
  <2> QED
    BY <1>3, <2>1 DEF Poll
<1>4. CASE PollFile
  <2>1. PICK p \in Seq(Lines) : p = Page(file, cursor) /\ IsPage(p, file, cursor)
    BY <1>1, PageIsPage
  <2> QED
    BY <1>4, <2>1 DEF PollFile
<1>5. CASE SnapshotStart
  BY <1>5 DEF SnapshotStart
<1> QED
  BY <1>2, <1>3, <1>4, <1>5
  DEF ReaderStep, AwaitWrites, LastKnown, LastFromFile, SnapshotLoop, SnapshotPageUnread,
      PollFileUnread

-------------------------------------------------------------------------------
LEMMA OrderedStep ==
    ASSUME ReaderInv, [ReaderNext]_allVars, ~misread' PROVE InOrder'
<1>1. /\ ~misread /\ InOrder /\ IInv /\ TypeInv /\ ReaderTypeOK /\ Kept
      /\ applied \in Seq(Lines) /\ cursor \in Nat /\ tail \in Seq(Lines)
      /\ pc \in [Calls -> Stages] /\ seq \in [Calls -> Nat] /\ seen \in [Calls -> Nat]
      /\ cache \in Nat
  BY ReaderNotesStay DEF ReaderInv, IInv, TypeInv, TypeOK, ReaderTypeOK
<1>2. NumbersKnown /\ WriteChain
  BY <1>1, FileFacts DEF IInv, OrderInv, Kept
<1>3. /\ Upward(applied) /\ \A x \in In(applied) : x.seq <= cursor
      /\ Upward(tail)
      /\ tail # <<>> => cache # None
      /\ \A x \in In(tail) :
            /\ x.seq <= cache /\ x.seq \in Nat
            /\ \A c \in Calls : pc[c] = "assigning" => x.seq <= seen[c]
            /\ \A c \in Calls : pc[c] \in Writing => x.seq < seq[c]
  BY <1>1, LinesOf DEF InOrder
<1>4. CASE ReaderStep
  <2>1. UNCHANGED <<tail, pc, seq, seen, cache>>
    BY <1>4 DEF ReaderStep, vars, callVars, storeVars, SnapshotStart, AwaitWrites, LastKnown,
      LastFromFile, SnapshotLoop, SnapshotPage, SnapshotPageUnread, Poll, PollFile, PollFileUnread
  <2>2. Upward(applied') /\ \A x \in In(applied') : x.seq <= cursor'
    <3>1. CASE UNCHANGED <<applied, cursor>>
      BY <1>3, <3>1
    <3>2. CASE applied' = <<>> /\ cursor' = 0
      BY <3>2, EmptyUpward
    <3>3. ASSUME NEW p \in Seq(Lines), Apply(p), IsPage(p, file, cursor) \/ IsPage(p, tail, cursor)
          PROVE  Upward(applied') /\ \A x \in In(applied') : x.seq <= cursor'
      <4>1. Upward(p) /\ \A x \in In(p) : cursor < x.seq
        BY <3>3 DEF IsPage
      <4> QED
        BY <1>1, <1>3, <3>3, <4>1, ApplyOrdered
    <3> QED
      BY <1>1, <1>3, <1>4, <3>1, <3>2, <3>3, RequestPages
  <2> QED
    BY <1>3, <2>1, <2>2 DEF InOrder
<1>5. SUFFICES ASSUME StoreStep \/ ServiceCrash \/ UNCHANGED allVars PROVE InOrder'
  BY <1>4 DEF ReaderNext
<1>6. UNCHANGED <<applied, cursor>>
  BY <1>5 DEF StoreStep, StoreCall, ServiceCrash, allVars, readerVars, requestVars
<1>7. CASE tail' = <<>>
  BY <1>3, <1>6, <1>7, EmptyUpward DEF InOrder
<1>8. CASE UNCHANGED tail /\ UNCHANGED <<cache, seq, seen>>
           /\ \A c \in Calls : /\ pc'[c] = "assigning" => pc[c] = "assigning"
                               /\ pc'[c] \in Writing => pc[c] \in Writing
  BY <1>3, <1>6, <1>8 DEF InOrder
<1>9. CASE AppendCall /\ UNCHANGED readerVars
  <2>1. UNCHANGED <<cache, seq, seen, tail>> /\ pc' = [pc EXCEPT ![issued + 1] = "queued"]
    BY <1>9 DEF AppendCall, At, readerVars
  <2> QED
    BY <1>1, <1>8, <2>1 DEF Writing
<1>10. ASSUME NEW c \in Calls, LookUp(c), UNCHANGED readerVars PROVE InOrder'
  <2>1. /\ UNCHANGED <<cache, seq, tail>>
        /\ \A d \in Calls \ {c} : pc'[d] = pc[d] /\ seen'[d] = seen[d]
        /\ pc'[c] \in {"reading", "assigning"}
        /\ pc'[c] = "assigning" => seen'[c] = cache
    BY <1>1, <1>10 DEF LookUp, At, readerVars, storeVars
  <2>2. \A x \in In(tail), d \in Calls : pc'[d] = "assigning" => x.seq <= seen'[d]
    BY <1>3, <2>1
  <2>3. \A x \in In(tail), d \in Calls : pc'[d] \in Writing => x.seq < seq[d]
    BY <1>3, <2>1 DEF Writing
  <2> QED
    BY <1>3, <1>6, <2>1, <2>2, <2>3 DEF InOrder
<1>11. ASSUME NEW c \in Calls, ReadLast(c), UNCHANGED tail PROVE InOrder'
  <2>1. cache = None
    BY <1>2, <1>11 DEF ReadLast, NumbersKnown
  <2>2. tail' = <<>>
    BY <1>3, <1>11, <2>1
  <2> QED
    BY <1>7, <2>2
<1>12. ASSUME NEW c \in Calls, Assign(c), UNCHANGED readerVars PROVE InOrder'
  <2>1. /\ UNCHANGED <<seen, tail>> /\ pc[c] = "assigning"
        /\ cache' = seen[c] + 1 /\ seq'[c] = seen[c] + 1 /\ pc'[c] = "writing"
        /\ \A d \in Calls \ {c} : pc'[d] = pc[d] /\ seq'[d] = seq[d]
    BY <1>1, <1>12 DEF Assign, At, readerVars
  <2>2. \A x \in In(tail) : x.seq <= seen[c] /\ x.seq \in Nat /\ seen[c] \in Nat
    BY <1>1, <1>3, <2>1
  <2>3. \A x \in In(tail), d \in Calls : pc'[d] = "assigning" => x.seq <= seen[d]
    BY <1>3, <2>1
  <2>4. \A x \in In(tail), d \in Calls : pc'[d] \in Writing => x.seq < seq'[d]
    BY <1>3, <2>1, <2>2
  <2>5. cache' # None /\ \A x \in In(tail) : x.seq <= cache'
    BY <1>1, <2>1, <2>2 DEF None
  <2> QED
    BY <1>3, <1>6, <2>1, <2>3, <2>4, <2>5 DEF InOrder
<1>13. ASSUME NEW c \in Calls, WriteLine(c) \/ WriteFails(c), UNCHANGED tail PROVE InOrder'
  <2>1. /\ UNCHANGED <<cache, seq, seen>> /\ pc[c] = "writing"
        /\ \A d \in Calls \ {c} : pc'[d] = pc[d]
        /\ pc'[c] \in {"written", "failed"}
    BY <1>1, <1>13 DEF WriteLine, WriteFails, MayWrite, At, storeVars
  <2> QED
    BY <1>8, <1>13, <2>1 DEF Writing
<1>14. ASSUME NEW c \in Calls, Notify(c), Remember(Line(c)) PROVE InOrder'
  <2>1. /\ UNCHANGED <<cache, seq, seen>> /\ pc[c] = "written" /\ pc'[c] = "done"
        /\ \A d \in Calls \ {c} : pc'[d] = pc[d]
    BY <1>1, <1>14 DEF Notify, At
  <2>2. PICK line \in Lines : line = Line(c) /\ line.seq = seq[c] /\ line.seq \in Nat
    BY <1>1, <2>1, LineTyped DEF Writing
  <2>3. PICK t \in Seq(Lines) : t = Append(tail, line)
    BY <1>1, <2>2, UpwardAppend
  <2>4. \A x \in In(tail) : x.seq < line.seq
    BY <1>3, <2>1, <2>2 DEF Writing
  <2>5. In(t) = In(tail) \cup {line} /\ Upward(t) /\ t # <<>>
    <3>1. In(t) = In(tail) \cup {line} /\ Upward(t)
      BY <1>1, <1>3, <2>3, <2>4, UpwardAppend
    <3> QED
      BY <3>1, EmptyUpward
  <2>6. Upward(tail') /\ In(tail') \subseteq In(t)
    <3> DEFINE a == IF Len(t) > TailLimit THEN Len(t) - TailLimit + 1 ELSE 1
    <3>1. tail' = SubSeq(t, a, Len(t))
      BY <1>14, <2>2, <2>3 DEF Remember
    <3>2. a \in 1..Len(t)
      BY <2>5, HostEventReaderAssumption
    <3> HIDE DEF a
    <3> QED
      BY <2>5, <3>1, <3>2, Truncated
  <2>7. cache # None /\ line.seq <= cache
    BY <1>2, <2>1, <2>2 DEF NumbersKnown, InWrite, Writing
  <2>8. \A d \in Calls : pc[d] = "assigning" => line.seq <= seen[d]
    BY <1>2, <2>1, <2>2 DEF NumbersKnown, InWrite, Writing
  <2>9. ASSUME NEW d \in Calls, pc'[d] \in Writing PROVE pc[d] \in Writing /\ line.seq < seq[d]
    <3>1. d # c /\ pc[d] \in Writing
      BY <2>1, <2>9 DEF Writing
    <3>2. c <= d
      BY <1>2, <2>1, <3>1 DEF WriteChain, InWrite
    <3>3. c < d
      BY <3>1, <3>2 DEF Calls
    <3> QED
      BY <1>2, <2>1, <2>2, <3>1, <3>3 DEF NumbersKnown, InWrite, Writing
  <2>10. \A x \in In(tail') :
            /\ x.seq <= cache
            /\ \A d \in Calls : pc'[d] = "assigning" => x.seq <= seen[d]
            /\ \A d \in Calls : pc'[d] \in Writing => x.seq < seq[d]
    BY <1>3, <2>1, <2>5, <2>6, <2>7, <2>8, <2>9
  <2> QED
    BY <1>3, <1>6, <2>1, <2>6, <2>7, <2>10 DEF InOrder
<1>15. CASE ServiceCrash
  BY <1>7, <1>15 DEF ServiceCrash
<1>16. CASE UNCHANGED allVars
  BY <1>8, <1>16 DEF allVars, vars, callVars, storeVars, readerVars
<1> QED
  <2>1. ASSUME NEW c \in Calls, StoreCall(c) PROVE InOrder'
    <3>1. CASE (LookUp(c) \/ Assign(c)) /\ UNCHANGED readerVars
      BY <1>10, <1>12, <3>1
    <3>2. CASE (ReadLast(c) \/ WriteLine(c) \/ WriteFails(c)) /\ UNCHANGED tail
      BY <1>11, <1>13, <3>2
    <3>3. CASE Notify(c) /\ Remember(Line(c))
      BY <1>14, <3>3
    <3> QED
      BY <2>1, <3>1, <3>2, <3>3 DEF StoreCall
  <2> QED
    BY <1>5, <1>9, <1>15, <1>16, <2>1 DEF StoreStep

-------------------------------------------------------------------------------
\* A call that writes is the eldest of those that are to write, and none is about to be told.
LEMMA WriterAlone ==
    ASSUME TypeInv, OrderInv, NEW c \in Calls, MayWrite(c)
    PROVE  \A d \in Calls : d # c => pc[d] # "written" /\ (pc[d] = "writing" => c < d)
<1>1. pc[c] = "writing" /\ \A d \in Calls : pc[d] \in Writing => c <= d
  BY DEF MayWrite, WriteSettled, OrderInv, WriteChain, InWrite, Writing, None, Calls
<1>2. SUFFICES ASSUME NEW d \in Calls, d # c
               PROVE  pc[d] # "written" /\ (pc[d] = "writing" => c < d)
  OBVIOUS
<1>3. pc[d] = "written" => d <= c
  BY <1>1 DEF OrderInv, WriteChain, InWrite, Writing
<1> QED
  BY <1>1, <1>2, <1>3 DEF Writing, Calls

-------------------------------------------------------------------------------
\* While no number was given out twice, a call that is to write is above everything.
LEMMA FreshStep ==
    ASSUME ReaderInv, [ReaderNext]_allVars, ~rewound' PROVE Fresh'
<1>1. /\ ~rewound /\ ~misread /\ Fresh /\ IInv /\ TypeInv /\ ReaderTypeOK /\ Kept
      /\ LinesTrue /\ TopBounds
      /\ top \in Nat /\ pc \in [Calls -> Stages] /\ seq \in [Calls -> Nat]
      /\ seen \in [Calls -> Nat] /\ cache \in Nat /\ file \in Seq(Lines)
  BY ReaderNotesStay DEF ReaderInv, TopBounds, IInv, TypeInv, TypeOK, ReaderTypeOK
<1>2. NumbersKnown /\ WriteChain /\ OrderInv /\ ~raced /\ IInv'
  BY <1>1, FileFacts, StepOfStore, StoreInvStep DEF IInv, OrderInv, Kept
<1>3. /\ cache # None => top <= cache
      /\ \A c \in Calls : pc[c] = "assigning" => top <= seen[c]
      /\ \A c \in Calls : pc[c] = "writing" => top < seq[c]
      /\ \A c \in Calls : pc[c] = "written" =>
            /\ seq[c] = top /\ partial = "none"
            /\ \A x \in In(file) : x.call = c \/ x.seq < top
  BY <1>1 DEF Fresh
<1>4. CASE /\ UNCHANGED <<cache, seq, seen, top, file, partial>>
           /\ \A c \in Calls : pc'[c] \in {"assigning", "writing", "written"} => pc'[c] = pc[c]
  BY <1>3, <1>4 DEF Fresh
<1>5. CASE ReaderStep \/ UNCHANGED allVars
  BY <1>4, <1>5 DEF ReaderStep, allVars, vars, callVars, storeVars, diskVars, readerVars, numberVars
<1>6. CASE AppendCall /\ UNCHANGED readerVars
  <2>1. /\ UNCHANGED <<cache, seq, seen, top, file, partial>>
        /\ pc' = [pc EXCEPT ![issued + 1] = "queued"]
    BY <1>6 DEF AppendCall, At, diskVars, readerVars, numberVars
  <2> QED
    BY <1>1, <1>4, <2>1
<1>7. ASSUME NEW c \in Calls, LookUp(c), UNCHANGED readerVars PROVE Fresh'
  <2>1. /\ UNCHANGED <<cache, seq, top, file, partial>>
        /\ \A d \in Calls \ {c} : pc'[d] = pc[d] /\ seen'[d] = seen[d]
        /\ pc'[c] \in {"reading", "assigning"}
        /\ pc'[c] = "assigning" => cache # None /\ seen'[c] = cache
    BY <1>1, <1>7 DEF LookUp, At, diskVars, readerVars, numberVars, storeVars
  <2>2. \A d \in Calls : pc'[d] = "assigning" => top <= seen'[d]
    BY <1>3, <2>1
  <2> QED
    BY <1>3, <2>1, <2>2 DEF Fresh
<1>8. ASSUME NEW c \in Calls, ReadLast(c), rewound' = (rewound \/ seen'[c] < top), UNCHANGED top
      PROVE  Fresh'
  <2>1. /\ UNCHANGED <<cache, seq, file, partial>>
        /\ \A d \in Calls \ {c} : pc'[d] = pc[d] /\ seen'[d] = seen[d]
        /\ pc'[c] = "assigning"
    BY <1>1, <1>8 DEF ReadLast, At, diskVars, storeVars
  <2>2. top <= seen'[c]
    <3>1. ~(seen'[c] < top)
      BY <1>8
    <3>2. seen'[c] \in Nat
      <4>1. seen' \in [Calls -> Nat]
        BY <1>2 DEF IInv, TypeInv, TypeOK
      <4> QED
        BY <4>1
    <3> QED
      BY <1>1, <3>1, <3>2
  <2> QED
    BY <1>3, <1>8, <2>1, <2>2 DEF Fresh
<1>9. ASSUME NEW c \in Calls, Assign(c), UNCHANGED readerVars PROVE Fresh'
  <2>1. /\ UNCHANGED <<seen, top, file, partial>> /\ pc[c] = "assigning"
        /\ cache' = seen[c] + 1 /\ seq'[c] = seen[c] + 1 /\ pc'[c] = "writing"
        /\ \A d \in Calls \ {c} : pc'[d] = pc[d] /\ seq'[d] = seq[d]
    BY <1>1, <1>9 DEF Assign, At, diskVars, readerVars, numberVars
  <2>2. top < seen[c] + 1 /\ top <= cache' /\ top < seq'[c]
    BY <1>1, <1>3, <2>1
  <2>3. \A d \in Calls : pc'[d] = "writing" => top < seq'[d]
    BY <1>3, <2>1, <2>2
  <2>4. \A d \in Calls : pc'[d] = "written" => pc[d] = "written" /\ seq'[d] = seq[d]
    BY <2>1
  <2> QED
    BY <1>3, <2>1, <2>2, <2>3, <2>4 DEF Fresh
<1>10. ASSUME NEW c \in Calls, \/ WriteLine(c) /\ Put(seq[c])
                               \/ WriteFails(c) /\ Put(LastInFile')
       PROVE  Fresh'
  <2>1. /\ UNCHANGED <<cache, seq, seen>> /\ MayWrite(c) /\ pc[c] = "writing"
        /\ \A d \in Calls \ {c} : pc'[d] = pc[d]
        /\ pc'[c] \in {"written", "failed"}
        /\ WriteLine(c) \/ Tear(c)
    BY <1>1, <1>10 DEF WriteLine, WriteFails, MayWrite, At, storeVars
  <2>2. /\ cache # None /\ seq[c] <= cache /\ seq[c] \in Nat
        /\ \A d \in Calls : pc[d] = "assigning" => seq[c] <= seen[d]
    BY <1>1, <1>2, <2>1 DEF NumbersKnown, InWrite, Writing
  <2>4. \A d \in Calls : d # c => pc[d] # "written" /\ (pc[d] = "writing" => c < d)
    BY <1>1, <1>2, <2>1, WriterAlone
  <2>5. ASSUME NEW d \in Calls, d # c, pc[d] = "writing" PROVE seq[c] < seq[d]
    BY <1>2, <2>1, <2>4, <2>5 DEF NumbersKnown, InWrite, Writing
  <2>6. top' \in {top, seq[c]}
    <3>1. CASE Put(seq[c])
      BY <3>1 DEF Put
    <3>2. CASE WriteFails(c) /\ Put(LastInFile')
      <4>1. CASE file' = <<>>
        BY <1>1, <3>2, <4>1 DEF Put, LastInFile
      <4>2. CASE file' # <<>>
        <5>1. PICK x : x = file'[Len(file')] /\ x.seq = LastInFile'
          BY <4>2 DEF LastInFile
        <5>2. x \in In(file')
          <6>1. file' \in Seq(Lines)
            BY <1>1, <2>1, WriteEffect
          <6>2. Len(file') \in 1..Len(file')
            BY <4>2, <6>1
          <6> QED
            BY <5>1, <6>2 DEF In
        <5>3. CASE x \in In(file)
          <6>1. x.seq <= top /\ x.seq \in Nat
            BY <1>1, <5>3, LinesOf DEF TopBounds
          <6> QED
            BY <1>1, <3>2, <5>1, <6>1 DEF Put
        <5>4. CASE x = Line(c)
          BY <3>2, <5>1, <5>4 DEF Put, Line
        <5> QED
          BY <1>1, <2>1, <5>2, <5>3, <5>4, WriteEffect
      <4> QED
        BY <4>1, <4>2
    <3> QED
      BY <1>10, <3>1, <3>2
  <2>7. /\ cache' # None /\ top' <= cache'
        /\ \A d \in Calls : pc'[d] = "assigning" => top' <= seen'[d]
    BY <1>3, <2>1, <2>2, <2>6
  <2>8. \A d \in Calls : pc'[d] = "writing" => top' < seq'[d]
    BY <1>3, <2>1, <2>5, <2>6
  <2>9. ASSUME NEW d \in Calls, pc'[d] = "written"
        PROVE  /\ seq'[d] = top' /\ partial' = "none"
               /\ \A x \in In(file') : x.call = d \/ x.seq < top'
    <3>1. d = c
      BY <2>1, <2>4, <2>9
    <3>2. WriteLine(c) /\ Put(seq[c])
      BY <1>1, <1>10, <2>9, <3>1 DEF WriteFails, At
    <3>3. top < seq[c]
      BY <1>3, <2>1
    <3>4. top' = seq[c] /\ partial' = "none" /\ seq' = seq
      BY <1>1, <2>2, <3>2, <3>3 DEF Put, WriteLine
    <3>5. ASSUME NEW x \in In(file') PROVE x.call = c \/ x.seq < top'
      <4>1. CASE x \in In(file)
        <5>1. x.seq <= top /\ x.seq \in Nat
          BY <1>1, <4>1, LinesOf DEF TopBounds
        <5> QED
          BY <1>1, <2>2, <3>3, <3>4, <5>1
      <4>2. CASE x = Line(c)
        BY <4>2 DEF Line
      <4> QED
        BY <1>1, <2>1, <3>5, <4>1, <4>2, WriteEffect
    <3> QED
      BY <3>1, <3>4, <3>5
  <2> QED
    BY <2>7, <2>8, <2>9 DEF Fresh
<1>11. ASSUME NEW c \in Calls, Notify(c), UNCHANGED numberVars PROVE Fresh'
  <2>1. /\ UNCHANGED <<cache, seq, seen, top, file, partial>>
        /\ \A d \in Calls \ {c} : pc'[d] = pc[d]
        /\ pc'[c] = "done"
    BY <1>1, <1>11 DEF Notify, At, diskVars, numberVars
  <2> QED
    BY <1>4, <2>1
<1>12. CASE ServiceCrash
  <2>1. cache' = None /\ \A d \in Calls : pc'[d] \notin {"assigning", "writing", "written"}
    BY <1>1, <1>12 DEF ServiceCrash, Crash, Unsettled, Allocating, Writing
  <2> QED
    BY <2>1 DEF Fresh
<1> QED
  <2>1. ASSUME NEW c \in Calls, StoreCall(c) PROVE Fresh'
    <3>1. CASE (LookUp(c) \/ Assign(c)) /\ UNCHANGED readerVars
      BY <1>7, <1>9, <3>1
    <3>2. CASE ReadLast(c) /\ rewound' = (rewound \/ seen'[c] < top) /\ UNCHANGED top
      BY <1>8, <3>2
    <3>3. CASE \/ WriteLine(c) /\ Put(seq[c])
               \/ WriteFails(c) /\ Put(LastInFile')
      BY <1>10, <3>3
    <3>4. CASE Notify(c) /\ UNCHANGED numberVars
      BY <1>11, <3>4
    <3> QED
      BY <2>1, <3>1, <3>2, <3>3, <3>4 DEF StoreCall
  <2> QED
    BY <1>5, <1>6, <1>12, <2>1 DEF ReaderNext, StoreStep

-------------------------------------------------------------------------------
LEMMA ReachStep ==
    ASSUME ReaderInv, [ReaderNext]_allVars, ~rewound' PROVE TailReaches'
<1>1. /\ ~rewound /\ ~misread /\ Fresh /\ TailReaches /\ InOrder
      /\ IInv /\ TypeInv /\ OrderInv /\ ReaderTypeOK /\ Kept /\ LinesTrue /\ TopBounds
      /\ top \in Nat /\ pc \in [Calls -> Stages] /\ seq \in [Calls -> Nat]
      /\ file \in Seq(Lines) /\ tail \in Seq(Lines) /\ Upward(file)
  BY ReaderNotesStay, FileFacts DEF ReaderInv, TopBounds, IInv, Kept, TypeInv, TypeOK, ReaderTypeOK
<1>2. \A x \in In(file) \cup In(tail) : x \in Lines /\ x.call \in Calls /\ x.seq \in Nat /\ x.seq <= top
  BY <1>1, LinesOf DEF TopBounds
<1>3. tail # <<>> => \A x \in In(file) :
        /\ tail[1].seq <= x.seq => x \in In(tail) \/ tail[Len(tail)].seq < x.seq
        /\ tail[Len(tail)].seq < x.seq =>
              pc[x.call] = "written" \/ (partial = "whole" /\ x = file[Len(file)])
  BY <1>1 DEF TailReaches
<1>4. CASE UNCHANGED <<tail, file, partial>> /\ \A c \in Calls : pc[c] = "written" => pc'[c] = "written"
  BY <1>2, <1>3, <1>4 DEF TailReaches
<1>5. CASE ReaderStep
  BY <1>4, <1>5 DEF ReaderStep, vars, callVars, diskVars, SnapshotStart, AwaitWrites, LastKnown,
    LastFromFile, SnapshotLoop, SnapshotPage, SnapshotPageUnread, Poll, PollFile, PollFileUnread
<1>6. CASE UNCHANGED allVars
  BY <1>4, <1>6 DEF allVars, vars, callVars, diskVars, readerVars
<1>7. CASE AppendCall /\ UNCHANGED readerVars
  <2>1. UNCHANGED <<tail, file, partial>> /\ pc' = [pc EXCEPT ![issued + 1] = "queued"]
    BY <1>7 DEF AppendCall, At, diskVars, readerVars
  <2>2. \A c \in Calls : c = issued + 1 => pc[c] = "unborn"
    BY <1>1 DEF OrderInv, BornInOrder, TypeInv, TypeOK, Calls
  <2> QED
    BY <1>1, <1>4, <2>1, <2>2
<1>8. ASSUME NEW c \in Calls, LookUp(c) \/ ReadLast(c) \/ Assign(c), UNCHANGED tail
      PROVE  TailReaches'
  <2>1. /\ UNCHANGED <<file, partial>> /\ pc[c] # "written"
        /\ \A d \in Calls \ {c} : pc'[d] = pc[d]
    BY <1>1, <1>8 DEF LookUp, ReadLast, Assign, At, diskVars
  <2> QED
    BY <1>4, <1>8, <2>1
<1>9. ASSUME NEW c \in Calls, WriteLine(c) \/ WriteFails(c), UNCHANGED tail PROVE TailReaches'
  <2>1. MayWrite(c) /\ pc[c] = "writing" /\ (WriteLine(c) \/ Tear(c))
    BY <1>9 DEF WriteLine, WriteFails, MayWrite
  <2>2. \A d \in Calls : pc[d] # "written"
    BY <1>1, <2>1, WriterAlone
  <2>3. tail # <<>> => tail[Len(tail)].seq \in Nat /\ tail[Len(tail)].seq <= top
    <3>1. tail # <<>> => Len(tail) \in 1..Len(tail)
      BY <1>1
    <3> QED
      BY <1>2, <3>1 DEF In
  <2>4. SUFFICES ASSUME tail # <<>>, NEW x \in In(file')
                 PROVE  /\ tail[1].seq <= x.seq => x \in In(tail) \/ tail[Len(tail)].seq < x.seq
                        /\ tail[Len(tail)].seq < x.seq =>
                              pc'[x.call] = "written" \/ (partial' = "whole" /\ x = file'[Len(file')])
    BY <1>9 DEF TailReaches
  <2>5. CASE x \in In(file)
    <3>1. ASSUME tail[Len(tail)].seq < x.seq PROVE partial' = "whole" /\ x = file'[Len(file')]
      <4>1. partial = "whole" /\ x = file[Len(file)]
        BY <1>2, <1>3, <2>2, <2>4, <2>5, <3>1
      <4>2. UNCHANGED <<file, partial>>
        BY <1>1, <2>1, <2>4, <4>1, TornGoes
      <4> QED
        BY <4>1, <4>2
    <3> QED
      BY <1>3, <2>4, <2>5, <3>1
  <2>6. CASE x = Line(c) /\ x = file'[Len(file')] /\ (partial' = "whole" \/ WriteLine(c))
    <3>1. x.seq = seq[c] /\ x.call = c /\ top < seq[c] /\ seq[c] \in Nat
      BY <1>1, <2>1, <2>6 DEF Line, Fresh
    <3>2. tail[Len(tail)].seq < x.seq
      BY <1>1, <2>3, <2>4, <3>1
    <3>3. WriteLine(c) => pc'[c] = "written"
      BY <1>1 DEF WriteLine, At
    <3> QED
      BY <2>6, <3>1, <3>2, <3>3
  <2> QED
    BY <1>1, <2>1, <2>4, <2>5, <2>6, WriteEffect
<1>10. ASSUME NEW c \in Calls, Notify(c), Remember(Line(c)) PROVE TailReaches'
  <2>1. pc[c] = "written" /\ UNCHANGED <<file, partial>>
    BY <1>10 DEF Notify, diskVars
  <2>2. PICK line \in Lines : line = Line(c) /\ line.seq = seq[c] /\ line.call = c
    BY <1>1, <2>1, LineTyped DEF Writing
  <2>3. /\ seq[c] = top /\ partial = "none"
        /\ \A x \in In(file) : x.call = c \/ x.seq < top
    BY <1>1, <2>1 DEF Fresh
  <2>4. \A x \in In(file) : x.call = c => x = line
    <3>1. SUFFICES ASSUME NEW x \in In(file), x.call = c PROVE x = line
      OBVIOUS
    <3>2. x.seq = seq[c] /\ x \in Lines
      BY <1>1, <1>2, <3>1 DEF LinesTrue
    <3> QED
      BY <2>2, <3>1, <3>2 DEF Lines
  <2>5. PICK t \in Seq(Lines) : t = Append(tail, line)
    BY <1>1, <2>2, UpwardAppend
  <2>6. \A x \in In(tail) : x.seq < line.seq
    BY <1>1, <2>1, <2>2 DEF InOrder, Writing
  <2>7. In(t) = In(tail) \cup {line} /\ Upward(t) /\ t # <<>>
    <3>1. In(t) = In(tail) \cup {line} /\ Upward(t)
      BY <1>1, <2>5, <2>6, UpwardAppend DEF InOrder
    <3> QED
      BY <3>1, EmptyUpward
  <2>8. PICK a \in 1..Len(t) : tail' = SubSeq(t, a, Len(t))
    <3> DEFINE n == IF Len(t) > TailLimit THEN Len(t) - TailLimit + 1 ELSE 1
    <3>1. tail' = SubSeq(t, n, Len(t))
      BY <1>10, <2>2, <2>5 DEF Remember
    <3>2. n \in 1..Len(t)
      BY <2>7, HostEventReaderAssumption
    <3> HIDE DEF n
    <3> QED
      BY <3>1, <3>2
  <2>9. /\ tail' # <<>> /\ tail'[1] \in In(t) /\ In(tail') \subseteq In(t) /\ Upward(tail')
        /\ tail' \in Seq(Lines)
        /\ \A x \in In(t) : tail'[1].seq <= x.seq => x \in In(tail')
    BY <2>7, <2>8, Truncated
  <2>10. \A x \in In(t) : x.seq \in Nat /\ t[1].seq \in Nat /\ t[1].seq <= x.seq /\ x.seq <= line.seq
    <3>1. t[1] \in In(t) /\ \A x \in In(t) : t[1].seq <= x.seq
      BY <2>7, UpwardEnds
    <3>2. \A x \in In(t) : x.seq \in Nat
      BY LinesOf
    <3> QED
      BY <1>1, <2>2, <2>6, <2>7, <3>1, <3>2
  <2>11. line \in In(tail')
    BY <2>7, <2>9, <2>10
  <2>12. tail'[Len(tail')].seq = line.seq
    <3>1. tail'[Len(tail')] \in In(tail') /\ line.seq <= tail'[Len(tail')].seq
      BY <2>9, <2>11, UpwardEnds
    <3>2. PICK z \in In(t) : z = tail'[Len(tail')]
      BY <2>9, <3>1
    <3>3. line \in In(t) /\ line.seq \in Nat /\ z.seq \in Nat /\ z.seq <= line.seq
      BY <2>7, <2>10
    <3> QED
      BY <3>1, <3>2, <3>3
  <2>13. ASSUME NEW x \in In(file), tail'[1].seq <= x.seq PROVE x \in In(tail')
    <3>1. CASE x.call = c
      BY <2>4, <2>11, <3>1
    <3>2. CASE x.seq < top
      <4>1. t[1].seq <= x.seq
        BY <1>2, <2>9, <2>10, <2>13
      <4>2. tail # <<>>
        <5>1. SUFFICES ASSUME tail = <<>> PROVE FALSE
          OBVIOUS
        <5>2. t[1] = line
          BY <2>5, <5>1
        <5> QED
          BY <1>1, <1>2, <2>2, <2>3, <3>2, <4>1, <5>2
      <4>3. t[1] = tail[1]
        BY <1>1, <2>5, <4>2
      <4>4. x \in In(tail) \/ tail[Len(tail)].seq < x.seq
        BY <1>3, <4>1, <4>2, <4>3
      <4>5. CASE x \in In(tail)
        BY <2>7, <2>9, <2>13, <4>5
      <4>6. CASE tail[Len(tail)].seq < x.seq
        <5>1. pc[x.call] = "written"
          BY <1>3, <2>3, <4>2, <4>6
        <5>2. x.call = c
          BY <1>1, <1>2, <2>1, <5>1 DEF OrderInv, WriteChain, InWrite, Writing, Calls
        <5> QED
          BY <2>4, <2>11, <5>2
      <4> QED
        BY <4>4, <4>5, <4>6
    <3> QED
      BY <2>3, <3>1, <3>2
  <2>14. ASSUME NEW x \in In(file) PROVE ~(tail'[Len(tail')].seq < x.seq)
    BY <1>1, <1>2, <2>2, <2>3, <2>12
  <2> QED
    BY <2>1, <2>13, <2>14 DEF TailReaches
<1>11. CASE ServiceCrash
  BY <1>11 DEF ServiceCrash, TailReaches
<1> QED
  <2>1. ASSUME NEW c \in Calls, StoreCall(c) PROVE TailReaches'
    <3>1. CASE (LookUp(c) \/ Assign(c) \/ ReadLast(c)) /\ UNCHANGED tail
      BY <1>8, <3>1
    <3>2. CASE (WriteLine(c) \/ WriteFails(c)) /\ UNCHANGED tail
      BY <1>9, <3>2
    <3>3. CASE Notify(c) /\ Remember(Line(c))
      BY <1>10, <3>3
    <3> QED
      BY <2>1, <3>1, <3>2, <3>3 DEF StoreCall, readerVars
  <2> QED
    BY <1>5, <1>6, <1>7, <1>11, <2>1 DEF ReaderNext, StoreStep

-------------------------------------------------------------------------------
LEMMA PassedStep ==
    ASSUME ReaderInv, [ReaderNext]_allVars, ~rewound' PROVE Passed'
<1>1. /\ ~rewound /\ ~misread /\ Fresh /\ TailReaches /\ InOrder /\ Passed
      /\ IInv /\ ReaderTypeOK /\ Kept /\ TopBounds
      /\ top \in Nat /\ cursor \in Nat /\ seq \in [Calls -> Nat]
      /\ file \in Seq(Lines) /\ tail \in Seq(Lines) /\ applied \in Seq(Lines)
  BY ReaderNotesStay DEF ReaderInv, TopBounds, IInv, TypeInv, TypeOK, ReaderTypeOK
<1>2. \A x \in In(file) \cup In(tail) : x.seq \in Nat \ {0}
  BY <1>1, LinesOf
<1>3. /\ Upward(applied) /\ (\A x \in In(applied) : x.seq <= cursor) /\ Upward(tail)
      /\ \A x \in In(file) : x.seq <= cursor => x \in In(applied)
  BY <1>1 DEF InOrder, Passed
<1>4. CASE ReaderStep
  <2>1. UNCHANGED file
    BY <1>4 DEF ReaderStep, vars, diskVars
  <2>2. CASE UNCHANGED <<applied, cursor>>
    BY <1>3, <2>1, <2>2 DEF Passed
  <2>3. CASE applied' = <<>> /\ cursor' = 0
    <3>1. \A x \in In(file) : ~(x.seq <= 0)
      BY <1>2
    <3> QED
      BY <2>1, <2>3, <3>1 DEF Passed
  <2>4. ASSUME NEW p \in Seq(Lines), Apply(p),
               \/ IsPage(p, file, cursor)
               \/ IsPage(p, tail, cursor) /\ tail # <<>> /\ cursor >= tail[1].seq - 1
        PROVE  Passed'
    <3>1. Upward(p) /\ \A x \in In(p) : cursor < x.seq
      BY <2>4 DEF IsPage
    <3>2. /\ In(applied') = In(applied) \cup In(p)
          /\ cursor' = cursor \/ \E y \in In(p) : cursor' = y.seq
      BY <1>1, <1>3, <2>4, <3>1, ApplyOrdered
    <3>3. SUFFICES ASSUME NEW x \in In(file), x.seq <= cursor', cursor < x.seq PROVE x \in In(p)
      BY <1>1, <1>2, <1>3, <2>1, <3>2 DEF Passed
    <3>4. PICK y \in In(p) : cursor' = y.seq /\ x.seq <= y.seq
      BY <1>1, <1>2, <3>2, <3>3
    <3>5. CASE IsPage(p, file, cursor)
      BY <3>3, <3>4, <3>5 DEF IsPage
    <3>6. CASE IsPage(p, tail, cursor) /\ tail # <<>> /\ cursor >= tail[1].seq - 1
      <4>1. y \in In(tail)
        BY <3>4, <3>6 DEF IsPage
      <4>2. tail[1] \in In(tail) /\ tail[Len(tail)] \in In(tail) /\ y.seq <= tail[Len(tail)].seq
        BY <1>1, <1>3, <3>6, <4>1, UpwardEnds
      <4>3. /\ tail[1].seq \in Nat /\ tail[Len(tail)].seq \in Nat
            /\ x.seq \in Nat /\ y.seq \in Nat
        BY <1>2, <4>1, <4>2
      <4>4. tail[1].seq <= x.seq /\ ~(tail[Len(tail)].seq < x.seq)
        BY <1>1, <3>3, <3>4, <3>6, <4>2, <4>3
      <4>5. x \in In(tail)
        BY <1>1, <3>6, <4>4 DEF TailReaches
      <4> QED
        BY <3>3, <3>4, <3>6, <4>5 DEF IsPage
    <3> QED
      BY <2>4, <3>5, <3>6
  <2> QED
    BY <1>1, <1>3, <1>4, <2>2, <2>3, <2>4, RequestPages
<1>5. CASE StoreStep \/ ServiceCrash \/ UNCHANGED allVars
  <2>1. UNCHANGED <<applied, cursor>>
    BY <1>5 DEF StoreStep, StoreCall, ServiceCrash, allVars, readerVars, requestVars
  <2>2. \A x \in In(file') : x \in In(file) \/ \E c \in Calls : x = Line(c) /\ pc[c] = "writing"
    BY <1>1, StepFacts
  <2>3. ASSUME NEW c \in Calls, pc[c] = "writing" PROVE ~(Line(c).seq <= cursor)
    <3>1. Line(c).seq = seq[c] /\ seq[c] \in Nat /\ top < seq[c] /\ cursor <= top
      BY <1>1, <2>3 DEF Line, Fresh, TopBounds
    <3> QED
      BY <1>1, <3>1
  <2> QED
    BY <1>3, <2>1, <2>2, <2>3 DEF Passed
<1> QED
  BY <1>4, <1>5 DEF ReaderNext

-------------------------------------------------------------------------------
\* A snapshot leaves nothing out that was there when it began and still is.
LEMMA SoundStep ==
    ASSUME ReaderInv, [ReaderNext]_allVars, ~misread', ~cut' PROVE SnapshotSound'
<1>1. /\ ~misread /\ InOrder /\ IInv /\ ReaderTypeOK /\ Kept /\ LinesTrue
      /\ file \in Seq(Lines) /\ tail \in Seq(Lines) /\ applied \in Seq(Lines)
      /\ cursor \in Nat /\ through \in Nat /\ cache \in Nat /\ Upward(file)
      /\ cache # None => \A x \in In(file) : x.seq <= cache
      /\ \A x \in In(file) : x.seq <= LastInFile
  BY ReaderNotesStay, FileFacts DEF ReaderInv, ReaderTypeOK
<1>2. \A x \in In(file) : x.seq \in Nat \ {0}
  BY <1>1, LinesOf
<1>3. /\ Upward(applied) /\ (\A x \in In(applied) : x.seq <= cursor) /\ Upward(tail)
  BY <1>1 DEF InOrder
<1>4. cut \/ ( /\ at \in {"loop", "page allocations", "page writes"} =>
                     \A x \in begun \cap In(file) : x.seq <= through
               /\ at \in Snapshotting =>
                     \A x \in begun \cap In(file) : x.seq <= cursor => x \in In(applied)
               /\ at \in {"following"} \cup Polling => begun \cap In(file) \subseteq In(applied))
  BY <1>1 DEF ReaderInv, SnapshotSound
<1>5. CASE ReaderStep
  <2>1. UNCHANGED file
    BY <1>5 DEF ReaderStep, vars, diskVars
  <2>2. CASE SnapshotStart
    <3>1. cursor' = 0 /\ at' = "last allocations"
      BY <2>2 DEF SnapshotStart
    <3>2. \A x \in In(file) : ~(x.seq <= 0)
      BY <1>2
    <3> QED
      BY <2>1, <3>1, <3>2 DEF SnapshotSound, Polling
  <2>3. CASE ~SnapshotStart
    <3>1. UNCHANGED <<begun, cut>>
      BY <1>5, <2>3 DEF ReaderStep, AwaitWrites, LastKnown, LastFromFile, SnapshotLoop, SnapshotPage,
        SnapshotPageUnread, Poll, PollFile, PollFileUnread
    <3>2. ~cut
      BY <3>1
    <3>3. /\ at \in {"loop", "page allocations", "page writes"} =>
                \A x \in begun \cap In(file) : x.seq <= through
          /\ at \in Snapshotting =>
                \A x \in begun \cap In(file) : x.seq <= cursor => x \in In(applied)
          /\ at \in {"following"} \cup Polling => begun \cap In(file) \subseteq In(applied)
      BY <1>4, <3>2
    <3>4. CASE AwaitWrites("last allocations", "last writes")
      BY <2>1, <3>1, <3>3, <3>4 DEF AwaitWrites, SnapshotSound, Snapshotting, Polling
    <3>5. CASE AwaitWrites("page allocations", "page writes")
      BY <2>1, <3>1, <3>3, <3>5 DEF AwaitWrites, SnapshotSound, Snapshotting, Polling
    <3>6. CASE AwaitWrites("poll allocations", "poll writes") \/ PollFileUnread
      BY <2>1, <3>1, <3>3, <3>6 DEF AwaitWrites, PollFileUnread, SnapshotSound, Snapshotting, Polling
    <3>7. CASE LastKnown
      BY <1>1, <2>1, <3>1, <3>3, <3>7 DEF LastKnown, SnapshotSound, Snapshotting, Polling
    <3>8. CASE LastFromFile
      <4>1. through' = LastInFile /\ at = "last file" /\ at' = "loop" /\ UNCHANGED <<cursor, applied>>
        BY <3>2, <3>8 DEF LastFromFile
      <4> QED
        BY <1>1, <2>1, <3>1, <3>3, <4>1 DEF SnapshotSound, Snapshotting, Polling
    <3>9. CASE SnapshotLoop
      <4>1. CASE cursor < through
        BY <2>1, <3>1, <3>3, <3>9, <4>1 DEF SnapshotLoop, SnapshotSound, Snapshotting, Polling
      <4>2. CASE ~(cursor < through)
        <5>1. at = "loop" /\ at' = "following" /\ UNCHANGED applied
          BY <3>9, <4>2 DEF SnapshotLoop
        <5>2. \A x \in begun \cap In(file) : x.seq <= through /\ (x.seq <= cursor => x \in In(applied))
          BY <3>3, <5>1 DEF Snapshotting
        <5>3. begun \cap In(file) \subseteq In(applied)
          BY <1>1, <1>2, <4>2, <5>2
        <5> QED
          BY <2>1, <3>1, <5>1, <5>3 DEF SnapshotSound, Snapshotting, Polling
      <4> QED
        BY <4>1, <4>2
    <3>10. CASE SnapshotPage
      <4>1. PICK p \in Seq(Lines) : p = Page(file, cursor) /\ IsPage(p, file, cursor)
                                    /\ (p = <<>> => \A x \in In(file) : x.seq <= cursor)
        BY <1>1, PageIsPage
      <4>2. PICK q \in Seq(Lines) : q = Only(p, UpTo(through)) /\ IsPage(q, file, cursor)
        BY <1>1, <4>1, PartOfPage
      <4>3. /\ Apply(q) /\ at = "page writes"
            /\ p = <<>> => at' = "following"
            /\ p # <<>> => at' = "loop" /\ through' = through
        BY <3>10, <4>1, <4>2 DEF SnapshotPage
      <4>4. Upward(q) /\ \A x \in In(q) : cursor < x.seq
        BY <4>2 DEF IsPage
      <4>5. /\ In(applied') = In(applied) \cup In(q)
            /\ cursor' = cursor \/ \E y \in In(q) : cursor' = y.seq
        BY <1>1, <1>3, <4>3, <4>4, ApplyOrdered
      <4>6. \A x \in begun \cap In(file) : x.seq <= through /\ (x.seq <= cursor => x \in In(applied))
        BY <3>3, <4>3 DEF Snapshotting
      <4>7. ASSUME NEW x \in begun \cap In(file), x.seq <= cursor' PROVE x \in In(applied')
        <5>1. CASE x.seq <= cursor
          BY <4>5, <4>6, <5>1
        <5>2. CASE cursor < x.seq
          <6>1. PICK y \in In(q) : cursor' = y.seq
            BY <1>1, <1>2, <4>5, <4>7, <5>2
          <6>2. x \in In(q)
            BY <4>2, <4>7, <5>2, <6>1 DEF IsPage
          <6> QED
            BY <4>5, <6>2
        <5> QED
          BY <1>1, <1>2, <5>1, <5>2
      <4>8. CASE p = <<>>
        <5>1. begun \cap In(file) \subseteq In(applied')
          BY <4>1, <4>5, <4>6, <4>8
        <5> QED
          BY <2>1, <3>1, <4>3, <4>8, <5>1 DEF SnapshotSound, Snapshotting, Polling
      <4>9. CASE p # <<>>
        BY <2>1, <3>1, <4>3, <4>6, <4>7, <4>9 DEF SnapshotSound, Snapshotting, Polling
      <4> QED
        BY <4>8, <4>9
    <3>11. CASE SnapshotPageUnread
      BY <3>1, <3>2, <3>11 DEF SnapshotPageUnread
    <3>12. ASSUME NEW p \in Seq(Lines), Apply(p), at \in {"following"} \cup Polling, at' = "following"
           PROVE  SnapshotSound'
      <4>1. applied' = applied \o p
        BY <3>12 DEF Apply
      <4>2. \A i \in 1..Len(applied) : i \in 1..Len(applied \o p) /\ (applied \o p)[i] = applied[i]
        BY <1>1
      <4>3. In(applied) \subseteq In(applied')
        BY <4>1, <4>2 DEF In
      <4> QED
        BY <2>1, <3>1, <3>3, <3>12, <4>3 DEF SnapshotSound, Snapshotting, Polling
    <3>13. CASE Poll
      <4>1. PICK p \in Seq(Lines) : p = Page(tail, cursor)
        BY <1>1, PageIsPage
      <4>2. CASE Apply(p) /\ at = "following" /\ at' = "following"
        BY <3>12, <4>2
      <4>3. CASE at = "following" /\ at' = "poll allocations" /\ UNCHANGED <<cursor, applied>>
        BY <2>1, <3>1, <3>3, <4>3 DEF SnapshotSound, Snapshotting, Polling
      <4> QED
        BY <3>13, <4>1, <4>2, <4>3 DEF Poll
    <3>14. CASE PollFile
      <4>1. PICK p \in Seq(Lines) : p = Page(file, cursor)
        BY <1>1, PageIsPage
      <4> QED
        BY <3>12, <3>14, <4>1 DEF PollFile, Polling
    <3> QED
      BY <1>5, <2>3, <3>4, <3>5, <3>6, <3>7, <3>8, <3>9, <3>10, <3>11, <3>13, <3>14 DEF ReaderStep
  <2> QED
    BY <2>2, <2>3
<1>6. CASE StoreStep \/ ServiceCrash \/ UNCHANGED allVars
  <2>1. UNCHANGED <<applied, cursor, begun, cut>>
    BY <1>6 DEF StoreStep, StoreCall, ServiceCrash, allVars, readerVars, requestVars
  <2>2. /\ at \in {"loop", "page allocations", "page writes"} =>
              \A x \in begun \cap In(file) : x.seq <= through
        /\ at \in Snapshotting =>
              \A x \in begun \cap In(file) : x.seq <= cursor => x \in In(applied)
        /\ at \in {"following"} \cup Polling => begun \cap In(file) \subseteq In(applied)
    BY <1>4, <2>1
  <2>3. begun \cap In(file') \subseteq begun \cap In(file)
    <3>1. \A x \in In(file') : x \in In(file) \/ \E c \in Calls : x = Line(c) /\ pc[c] = "writing"
      BY <1>1, StepFacts
    <3>2. \A c \in Calls : Line(c) \in begun => pc[c] \in Spent
      BY <1>1 DEF LinesTrue, Line
    <3> QED
      BY <3>1, <3>2 DEF Spent
  <2>4. CASE UNCHANGED <<at, through>>
    BY <2>1, <2>2, <2>3, <2>4 DEF SnapshotSound
  <2>5. CASE ServiceCrash
    <3>1. /\ at' = IF at \in Snapshotting THEN "start"
                   ELSE IF at \in Polling THEN "following" ELSE at
      BY <2>5 DEF ServiceCrash
    <3>2. at' \in {"start", "following"} /\ (at' = "following" => at \in {"following"} \cup Polling)
      BY <1>1, <3>1 DEF ReaderTypeOK, Snapshotting, Polling
    <3> QED
      BY <2>1, <2>2, <2>3, <3>2 DEF SnapshotSound, Snapshotting, Polling
  <2> QED
    BY <1>6, <2>4, <2>5 DEF StoreStep, StoreCall, allVars, readerVars, requestVars
<1> QED
  BY <1>5, <1>6 DEF ReaderNext

-------------------------------------------------------------------------------
LEMMA ReaderInvInit == ReaderInit => ReaderInv
<1> SUFFICES ASSUME ReaderInit PROVE ReaderInv
  OBVIOUS
<1>1. TypeInv /\ ReaderTypeOK
  BY ReaderTypeInit
<1>2. IInv
  BY <1>1, OrderInit DEF ReaderInit, IInv
<1>3. /\ file = <<>> /\ applied = <<>> /\ tail = <<>> /\ cursor = 0 /\ begun = {}
      /\ at = "start" /\ pc = [c \in Calls |-> "unborn"] /\ cache = None /\ top = 0
      /\ ~raced /\ removing = "no" /\ ~misread
  BY DEF ReaderInit, Init
<1>4. In(file) = {} /\ In(applied) = {} /\ In(tail) = {} /\ Upward(applied) /\ Upward(tail)
  BY <1>3, EmptyUpward
<1>5. Kept /\ LinesTrue /\ TopBounds
  BY <1>3, <1>4 DEF Kept, LinesTrue, TopBounds
<1>6. InOrder /\ Fresh /\ TailReaches /\ Passed /\ SnapshotSound
  BY <1>3, <1>4 DEF InOrder, Fresh, TailReaches, Passed, SnapshotSound, Snapshotting, Polling
<1> QED
  BY <1>1, <1>2, <1>5, <1>6 DEF ReaderInv

LEMMA ReaderInvStep ==
    ASSUME ReaderInv, [ReaderNext]_allVars PROVE ReaderInv'
<1>1. IInv' /\ ReaderTypeOK' /\ Kept'
  BY StepOfStore, StoreInvStep, ReaderTypeStep, KeptStep DEF ReaderInv, IInv
<1>2. LinesTrue' /\ TopBounds'
  BY LinesStep, TopStep
<1>3. misread' \/ InOrder'
  BY OrderedStep
<1>4. rewound' \/ (Fresh' /\ TailReaches' /\ Passed')
  BY FreshStep, ReachStep, PassedStep
<1>5. misread' \/ cut' \/ SnapshotSound'
  BY SoundStep
<1> QED
  BY <1>1, <1>2, <1>3, <1>4, <1>5 DEF ReaderInv

\* The strengthened invariant holds in every state of a client, its service and the store.
THEOREM ReaderInvariance == ReaderSpec => []ReaderInv
<1>1. ReaderInv /\ [ReaderNext]_allVars => ReaderInv'
  BY ReaderInvStep
<1> QED
  BY <1>1, ReaderInvInit, PTL DEF ReaderSpec

\* However a client's snapshots, its polls and the store's calls overlap, fail, leave torn
\* lines or are cut off by a restart, the client's cursor passes no line it has not applied,
\* as long as no number is given twice, and it applies each line once and in order, as long
\* as the file could be read when numbering began (service.ts:124-137, 245-252).
THEOREM CursorNeverPasses == ReaderSpec => []CursorSound
<1>1. ReaderInv => CursorSound
  BY DEF ReaderInv, InOrder, Passed, TopBounds, CursorSound, LinesInFile, Applied, In, Upward
<1> QED
  BY <1>1, ReaderInvariance, PTL

\* A snapshot that has ended holds every line that was in the file when it began and still
\* is, whatever page size it is read with, whichever of the cache and the file told it where
\* to end, and whatever a failed write left behind (service.ts:124-137).
THEOREM SnapshotsComplete == ReaderSpec => []SnapshotComplete
<1>1. ReaderInv => SnapshotComplete
  BY DEF ReaderInv, SnapshotSound, SnapshotComplete, LinesInFile, Applied, In
<1> QED
  BY <1>1, ReaderInvariance, PTL
===============================================================================
