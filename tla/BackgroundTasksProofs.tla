------------------------ MODULE BackgroundTasksProofs ------------------------
(***************************************************************************)
(* Proofs about BackgroundTasks, for any number of tasks, sessions,        *)
(* restarts and failing saves.                                             *)
(***************************************************************************)
EXTENDS BackgroundTasks, FiniteSetTheorems, TLAPS

\* What is true of a task in memory, whatever is on disk: before it is spawned there is
\* nothing of it, an application that is down knows nothing, and a shell that can be found
\* is active.
MemoryOf(t) ==
  /\ state[t] \in {"none", "asking"} =>
       leader[t] = "none" /\ ~child[t] /\ ~pid[t] /\ records[t] = None
  /\ ~up => state[t] \in {"none", "gone"} /\ ~child[t] /\ ~pid[t]
  /\ child[t] /\ ~pid[t] /\ leader[t] # "none" => state[t] = "starting"
  /\ (child[t] \/ pid[t]) /\ leader[t] = "alive" => state[t] \in ActiveStates

\* What its record says that is true of the shell, and of the task when it is known.
RecordOf(t) ==
  records[t] # None =>
    /\ records[t].state \in EndedStates /\ records[t].pid => leader[t] # "alive"
    /\ t \in Table /\ records[t].pid => pid[t]
    /\ t \in Table /\ records[t].state \in EndedStates =>
         state[t] = records[t].state /\ pid[t] = records[t].pid
    /\ up /\ t \in index /\ records[t].pid /\ leader[t] = "alive" => state[t] \in ActiveStates

TasksOK == \A t \in Tasks : MemoryOf(t) /\ RecordOf(t)
Finite == IsFiniteSet(Table) /\ IsFiniteSet(index)

IInv == TypeOK /\ DiskIsTrue /\ TasksOK /\ Finite

\* A step that changes no record of an end, except by removing it.
EndsStay ==
  \A t \in Tasks : records[t] # None /\ records[t].state \in EndedStates
    => records'[t] = None \/ records'[t] = records[t]

-------------------------------------------------------------------------------
(***************************************************************************)
(* Saving.                                                                 *)
(***************************************************************************)

LEMMA Parts == IInv => TypeOK /\ DiskIsTrue /\ TasksOK /\ Finite
  BY DEF IInv

LEMMA RecordType ==
  ASSUME NEW s \in States, NEW b \in BOOLEAN
  PROVE  [state |-> s, pid |-> b] \in Record /\ [state |-> s, pid |-> b] # None
<1>1. [state |-> s, pid |-> b] \in Record
  BY DEF Record
<1> QED
  BY <1>1, BackgroundAssumption DEF BackgroundAssumption

\* A record file of a save that wrote the tasks of W.
LEMMA Writing ==
  ASSUME TypeOK, NEW W, W \subseteq Table', NEW t \in Tasks,
         state'[t] \in States => pid'[t] \in BOOLEAN
  PROVE  /\ t \in W => /\ Written(W)[t] = [state |-> state'[t], pid |-> pid'[t]]
                       /\ Written(W)[t] \in Record /\ Written(W)[t] # None
         /\ t \notin W => Written(W)[t] = records[t]
<1>1. ASSUME t \in W PROVE Written(W)[t] = [state |-> state'[t], pid |-> pid'[t]]
  BY <1>1 DEF Written
<1>2. ASSUME t \in W PROVE [state |-> state'[t], pid |-> pid'[t]] \in Record
  BY <1>2 DEF Table, Record
<1>3. t \notin W => Written(W)[t] = records[t]
  BY DEF Written
<1> QED
  BY <1>1, <1>2, <1>3, BackgroundAssumption DEF BackgroundAssumption

\* What a save does to the disk, whether or not it fails: a record is removed, or left, or
\* says what is so; and what stays dirty is what may not say it.
LEMMA Persisting ==
  ASSUME TypeOK, DiskIsTrue, up, NEW D, D \subseteq Table', PersistNow(D),
         pid' \in [Tasks -> BOOLEAN],
         \A t \in Table' \ D : t \in Table \ dirty /\ state'[t] = state[t] /\ pid'[t] = pid[t]
  PROVE  /\ records' \in [Tasks -> Record \cup {None}]
         /\ dirty' \subseteq Table' /\ persistedIds' \subseteq Tasks
         /\ faults' \in 0..MaxFaults
         /\ index' = index \/ index' = Table'
         /\ \A t \in Tasks : \/ records'[t] = None \/ records'[t] = records[t]
                            \/ (t \in D /\ records'[t] = [state |-> state'[t], pid |-> pid'[t]])
         /\ DiskIsTrue'
<1> DEFINE told(t) == [state |-> state'[t], pid |-> pid'[t]]
<1>0. /\ records \in [Tasks -> Record \cup {None}] /\ faults \in 0..MaxFaults
      /\ MaxFaults \in Nat /\ persistedIds \subseteq Tasks /\ Table' \subseteq Tasks
  BY BackgroundAssumption DEF TypeOK, BackgroundAssumption, Table
<1>1. \A W : W \subseteq D => \A t \in Tasks :
         /\ t \in W => Written(W)[t] = told(t) /\ Written(W)[t] \in Record /\ Written(W)[t] # None
         /\ t \notin W => Written(W)[t] = records[t]
  BY Writing
<1>2. \A t \in Table' \ D : records[t] = told(t) /\ records[t] # None
  <2>1. \A t \in Table' \ D : records[t] = [state |-> state[t], pid |-> pid[t]]
    BY DEF DiskIsTrue
  <2>2. \A t \in Table' \ D : state'[t] \in States /\ pid'[t] \in BOOLEAN
    BY <1>0 DEF Table
  <2>3. \A t \in Table' \ D : records[t] = told(t)
    BY <2>1
  <2> QED
    BY <2>2, <2>3, RecordType
<1> HIDE DEF told
<1>3. CASE Saved(D)
  <2>1. /\ \A t \in Tasks : t \in persistedIds \ Table' => records'[t] = None
        /\ \A t \in Tasks : t \notin persistedIds \ Table' => records'[t] = Written(D)[t]
        /\ records' \in [Tasks -> Record \cup {None}]
    BY <1>0, <1>1, <1>3 DEF Saved
  <2>2. index' = Table' /\ persistedIds' = Table' /\ dirty' = {} /\ faults' = faults
    BY <1>3 DEF Saved
  <2>3. \A t \in Table' : records'[t] = told(t) /\ records'[t] # None
    BY <1>0, <1>1, <1>2, <2>1
  <2>4. DiskIsTrue'
    BY <2>2, <2>3 DEF DiskIsTrue, told
  <2> QED
    BY <1>0, <1>1, <2>1, <2>2, <2>4 DEF told
<1>4. ASSUME NEW W \in SUBSET D, records' = Written(W), index' = index \/ (W = D /\ index' = Table'),
             dirty' = D, faults < MaxFaults, faults' = faults + 1, UNCHANGED persistedIds
      PROVE  /\ records' \in [Tasks -> Record \cup {None}]
             /\ dirty' \subseteq Table' /\ persistedIds' \subseteq Tasks
             /\ faults' \in 0..MaxFaults
             /\ index' = index \/ index' = Table'
             /\ \A t \in Tasks : \/ records'[t] = None \/ records'[t] = records[t]
                                \/ (t \in D /\ records'[t] = told(t))
             /\ DiskIsTrue'
  <2>1. \A t \in Tasks :
           /\ t \in W => records'[t] = told(t) /\ records'[t] \in Record /\ records'[t] # None
           /\ t \notin W => records'[t] = records[t]
    BY <1>1, <1>4
  <2>2. records' \in [Tasks -> Record \cup {None}]
    <3>1. records' = [t \in Tasks |-> records'[t]]
      BY <1>4 DEF Written
    <3> QED
      BY <1>0, <2>1, <3>1
  <2>3. \A t \in index' : records'[t] # None
    <3>1. CASE index' = index
      BY <2>1, <3>1 DEF DiskIsTrue, TypeOK
    <3>2. CASE W = D /\ index' = Table'
      BY <1>0, <1>2, <2>1, <3>2
    <3> QED
      BY <1>4, <3>1, <3>2
  <2>4. \A t \in Table' \ D : records'[t] = told(t)
    BY <1>0, <1>2, <1>4, <2>1
  <2>5. DiskIsTrue'
    BY <1>4, <2>3, <2>4 DEF DiskIsTrue, told
  <2>6. faults' \in 0..MaxFaults
    BY <1>0, <1>4
  <2> QED
    BY <1>0, <1>4, <2>1, <2>2, <2>5, <2>6
<1>5. CASE SaveFails(D)
  <2>1. PICK W \in SUBSET D :
           records' = Written(W) /\ (index' = index \/ (W = D /\ index' = Table'))
    BY <1>5 DEF SaveFails
  <2>2. dirty' = D /\ faults < MaxFaults /\ faults' = faults + 1 /\ UNCHANGED persistedIds
    BY <1>5 DEF SaveFails
  <2> QED
    BY <1>4, <2>1, <2>2 DEF told
<1> QED
  BY <1>3, <1>5 DEF PersistNow

-------------------------------------------------------------------------------
(***************************************************************************)
(* The steps of a task.                                                    *)
(***************************************************************************)

Groups == {"none", "alive", "dead"}

\* Shells and their children end, and timers fire; nothing else happens.
LEMMA WorldMoves ==
  ASSUME IInv, UNCHANGED <<up, state, pid, child, disk, restarts>>,
         timer' \in [Tasks -> BOOLEAN], rest' \in [Tasks -> BOOLEAN],
         leader' \in [Tasks -> Groups],
         \A t \in Tasks : leader'[t] = leader[t] \/ (leader[t] = "alive" /\ leader'[t] = "dead")
  PROVE  IInv' /\ EndsStay
<1>1. TypeOK /\ DiskIsTrue /\ TasksOK /\ Finite
  BY Parts
<1>2. UNCHANGED <<up, state, pid, child, dirty, persistedIds, records, index, faults, restarts>>
  BY DEF disk
<1>3. Table' = Table
  BY <1>2 DEF Table
<1>4. TypeOK'
  BY <1>1, <1>2, <1>3 DEF TypeOK, Groups
<1>5. DiskIsTrue' /\ Finite'
  BY <1>1, <1>2, <1>3 DEF DiskIsTrue, Finite
<1>6. TasksOK'
  <2> SUFFICES ASSUME NEW t \in Tasks PROVE MemoryOf(t)' /\ RecordOf(t)'
    BY DEF TasksOK
  <2>1. MemoryOf(t) /\ RecordOf(t)
    BY <1>1 DEF TasksOK
  <2>2. leader'[t] = leader[t] \/ (leader[t] = "alive" /\ leader'[t] = "dead")
    OBVIOUS
  <2>3. MemoryOf(t)'
    BY <1>2, <2>1, <2>2 DEF MemoryOf
  <2>4. RecordOf(t)'
    BY <1>2, <1>3, <2>1, <2>2 DEF RecordOf
  <2> QED
    BY <2>3, <2>4
<1>7. EndsStay
  BY <1>2 DEF EndsStay
<1> QED
  BY <1>4, <1>5, <1>6, <1>7 DEF IInv

\* A save of other tasks leaves a task and its record as they were; where it writes
\* the record, that says what is so.
LEMMA Unmoved ==
  ASSUME TypeOK, TasksOK, up, UNCHANGED up, NEW u \in Tasks, NEW D, D \cap {u} \subseteq Table,
         state'[u] = state[u], pid'[u] = pid[u], child'[u] = child[u], leader'[u] = leader[u],
         index' = index \/ index' = Table',
         \/ records'[u] = None \/ records'[u] = records[u]
         \/ (u \in D /\ records'[u] = [state |-> state'[u], pid |-> pid'[u]])
  PROVE  /\ MemoryOf(u)' /\ RecordOf(u)'
         /\ records[u] # None /\ records[u].state \in EndedStates =>
              records'[u] = None \/ records'[u] = records[u]
<1>1. MemoryOf(u) /\ RecordOf(u) /\ (u \in Table' <=> u \in Table) /\ (u \in D => u \in Table)
  BY DEF TasksOK, Table
<1>2. MemoryOf(u)'
  <2>1. state[u] \in {"none", "asking"} => records'[u] = None
    BY <1>1 DEF MemoryOf, Table, States, ActiveStates, EndedStates
  <2> QED
    BY <1>1, <2>1 DEF MemoryOf
<1>3. CASE records'[u] = None
  BY <1>2, <1>3 DEF RecordOf
<1>4. CASE records'[u] = records[u]
  <2>1. u \in index' => u \in index \/ u \in Table
    BY <1>1
  <2>2. u \in Table => state[u] \in States
    BY DEF Table
  <2> QED
    BY <1>1, <1>2, <1>4, <2>1, <2>2 DEF RecordOf, MemoryOf, States
<1>5. CASE u \in D /\ records'[u] = [state |-> state'[u], pid |-> pid'[u]]
  <2>1. records'[u].state = state[u] /\ records'[u].pid = pid[u]
    BY <1>5
  <2>2. state[u] \in EndedStates => state[u] \notin ActiveStates
    BY DEF EndedStates, ActiveStates
  <2>3. RecordOf(u)'
    BY <1>1, <2>1, <2>2 DEF RecordOf, MemoryOf
  <2>4. ASSUME records[u] # None, records[u].state \in EndedStates PROVE records'[u] = records[u]
    <3>1. records[u].state = state'[u] /\ records[u].pid = pid'[u]
      BY <1>1, <1>5, <2>4 DEF RecordOf
    <3>2. records[u] \in Record
      BY <2>4 DEF TypeOK
    <3> QED
      BY <1>5, <3>1, <3>2 DEF Record
  <2> QED
    BY <1>2, <2>3, <2>4
<1> QED
  BY <1>3, <1>4, <1>5

\* A task that is starting or active comes to a state of its own, and is saved.
LEMMA TaskMoves ==
  ASSUME IInv, up, up', NEW t \in Tasks, state[t] \in ActiveStates \cup {"asking"},
         NEW s \in States, state' = [state EXCEPT ![t] = s],
         NEW p \in BOOLEAN, pid[t] => p, pid' = [pid EXCEPT ![t] = p],
         NEW c \in BOOLEAN, child' = [child EXCEPT ![t] = c],
         timer' \in [Tasks -> BOOLEAN], rest' \in [Tasks -> BOOLEAN], UNCHANGED restarts,
         leader' \in [Tasks -> Groups], \A u \in Tasks : u # t => leader'[u] = leader[u],
         (c \/ p) /\ leader'[t] = "alive" => s \in ActiveStates,
         c /\ ~p /\ leader'[t] # "none" => s = "starting",
         State(t)
  PROVE  IInv' /\ EndsStay
<1> DEFINE D == dirty \cup {t}
<1>1. TypeOK /\ DiskIsTrue /\ TasksOK /\ Finite
  BY Parts
<1>2. /\ state'[t] = s /\ pid'[t] = p /\ child'[t] = c
      /\ \A u \in Tasks : u # t => /\ state'[u] = state[u] /\ pid'[u] = pid[u]
                                /\ child'[u] = child[u] /\ leader'[u] = leader[u]
      /\ pid' \in [Tasks -> BOOLEAN] /\ child' \in [Tasks -> BOOLEAN]
      /\ state' \in [Tasks -> States \cup {"none", "asking", "gone"}]
  BY <1>1 DEF TypeOK
<1>3. Table' = Table \cup {t}
  BY <1>2 DEF Table
<1>4. D \subseteq Table' /\ PersistNow(D)
  BY <1>1, <1>3 DEF TypeOK, State
<1>5. \A u \in Table' \ D : u \in Table \ dirty /\ state'[u] = state[u] /\ pid'[u] = pid[u]
  BY <1>2, <1>3 DEF Table
<1>6. /\ records' \in [Tasks -> Record \cup {None}]
      /\ dirty' \subseteq Table' /\ persistedIds' \subseteq Tasks
      /\ faults' \in 0..MaxFaults
      /\ index' = index \/ index' = Table'
      /\ \A u \in Tasks : \/ records'[u] = None \/ records'[u] = records[u]
                         \/ (u \in D /\ records'[u] = [state |-> state'[u], pid |-> pid'[u]])
      /\ DiskIsTrue'
  BY <1>1, <1>2, <1>4, <1>5, Persisting
<1>7. TypeOK'
  BY <1>1, <1>2, <1>6 DEF TypeOK, Table, Groups
<1>8. Finite'
  <2>1. IsFiniteSet(Table')
    BY <1>1, <1>3, FS_AddElement DEF Finite
  <2> QED
    BY <1>1, <1>6, <2>1 DEF Finite
<1>9. ~(records[t] # None /\ records[t].state \in EndedStates)
  <2>1. state[t] \in ActiveStates => t \in Table
    BY DEF Table, States
  <2> QED
    BY <1>1, <2>1 DEF TasksOK, MemoryOf, RecordOf, ActiveStates, EndedStates
<1> HIDE DEF D
<1>10. ASSUME NEW u \in Tasks PROVE MemoryOf(u)' /\ RecordOf(u)'
  <2>1. MemoryOf(u) /\ RecordOf(u)
    BY <1>1 DEF TasksOK
  <2>2. CASE u = t
    <3>1. MemoryOf(u)'
      BY <1>2, <2>2 DEF MemoryOf, States, ActiveStates, EndedStates
    <3>2. CASE records'[t] = records[t]
      <4>1. records[t] # None /\ records[t].pid => pid[t]
        BY <2>1, <2>2 DEF MemoryOf, RecordOf, Table, States
      <4> QED
        BY <1>2, <1>9, <2>2, <3>1, <3>2, <4>1 DEF RecordOf
    <3>3. CASE records'[t] = [state |-> s, pid |-> p]
      <4>1. records'[t].state = s /\ records'[t].pid = p
        BY <3>3
      <4>2. s \in EndedStates => s \notin ActiveStates
        BY DEF EndedStates, ActiveStates
      <4> QED
        BY <1>2, <2>2, <3>1, <4>1, <4>2 DEF RecordOf
    <3>4. CASE records'[t] = None
      BY <2>2, <3>1, <3>4 DEF RecordOf
    <3> QED
      BY <1>2, <1>6, <2>2, <3>2, <3>3, <3>4
  <2>3. CASE u # t
    <3>1. /\ state'[u] = state[u] /\ pid'[u] = pid[u] /\ child'[u] = child[u] /\ leader'[u] = leader[u]
          /\ (u \in Table' <=> u \in Table)
      BY <1>2, <1>3, <2>3
    <3>2. u \in D => u \in Table
      BY <1>1, <2>3 DEF TypeOK, D
    <3> QED
      BY <1>1, <1>6, <3>1, <3>2, Unmoved
  <2> QED
    BY <2>2, <2>3
<1>11. EndsStay
  <2> SUFFICES ASSUME NEW u \in Tasks, records[u] # None, records[u].state \in EndedStates
               PROVE  records'[u] = None \/ records'[u] = records[u]
    BY DEF EndsStay
  <2>1. u # t
    BY <1>9
  <2>2. u \in D => u \in Table
    BY <1>1, <2>1 DEF TypeOK, D
  <2>3. /\ state'[u] = state[u] /\ pid'[u] = pid[u] /\ child'[u] = child[u] /\ leader'[u] = leader[u]
    BY <1>2, <2>1
  <2> QED
    BY <1>1, <1>6, <2>2, <2>3, Unmoved
<1> QED
  BY <1>6, <1>7, <1>8, <1>10, <1>11 DEF IInv, TasksOK

\* A call of start() asks, and is refused: nothing of the task is anywhere.
LEMMA Asks ==
  ASSUME IInv, NEW t \in Tasks, state[t] \in {"none", "asking"}, up, NEW s \in {"asking", "gone"},
         state' = [state EXCEPT ![t] = s],
         UNCHANGED <<up, pid, child, timer, disk, group, restarts>>
  PROVE  IInv' /\ EndsStay
<1>1. TypeOK /\ DiskIsTrue /\ TasksOK /\ Finite
  BY Parts
<1>2. UNCHANGED <<up, pid, child, timer, dirty, persistedIds, records, index, faults, leader, rest,
                  restarts>>
  BY DEF disk, group
<1>3. /\ state'[t] = s /\ \A u \in Tasks : u # t => state'[u] = state[u]
      /\ state' \in [Tasks -> States \cup {"none", "asking", "gone"}]
  BY <1>1 DEF TypeOK
<1>4. Table' = Table
  BY <1>3 DEF Table, States, ActiveStates, EndedStates
<1>5. TypeOK'
  BY <1>1, <1>2, <1>3, <1>4 DEF TypeOK
<1>6. DiskIsTrue' /\ Finite'
  <2>1. \A u \in Table : u # t
    BY DEF Table, States, ActiveStates, EndedStates
  <2>2. \A u \in Table : state'[u] = state[u]
    BY <1>3, <2>1 DEF Table
  <2> QED
    BY <1>1, <1>2, <1>4, <2>2 DEF DiskIsTrue, Finite
<1>7. TasksOK'
  <2> SUFFICES ASSUME NEW u \in Tasks PROVE MemoryOf(u)' /\ RecordOf(u)'
    BY DEF TasksOK
  <2>1. MemoryOf(u) /\ RecordOf(u)
    BY <1>1 DEF TasksOK
  <2>2. CASE u = t
    BY <1>2, <1>3, <2>1, <2>2 DEF MemoryOf, RecordOf
  <2>3. CASE u # t
    <3>1. state'[u] = state[u]
      BY <1>3, <2>3
    <3>2. MemoryOf(u)'
      BY <1>2, <2>1, <3>1 DEF MemoryOf
    <3>3. RecordOf(u)'
      BY <1>2, <1>4, <2>1, <3>1 DEF RecordOf
    <3> QED
      BY <3>2, <3>3
  <2> QED
    BY <2>2, <2>3
<1> QED
  BY <1>2, <1>5, <1>6, <1>7 DEF IInv, EndsStay

LEMMA StartSteps ==
  ASSUME IInv, NEW t \in Tasks, StartAsks(t) \/ StartRefused(t)
  PROVE  IInv' /\ EndsStay
<1>1. CASE StartAsks(t)
  BY <1>1, Asks DEF StartAsks
<1>2. CASE StartRefused(t)
  BY <1>2, Asks DEF StartRefused
<1> QED
  BY <1>1, <1>2

LEMMA StartSpawnsStep == ASSUME IInv, NEW t \in Tasks, StartSpawns(t) PROVE IInv' /\ EndsStay
<1>1. TypeOK /\ TasksOK
  BY Parts
<1>2. /\ up /\ up' /\ state[t] = "asking" /\ state' = [state EXCEPT ![t] = "starting"]
      /\ child' = [child EXCEPT ![t] = TRUE] /\ State(t)
      /\ leader' \in {leader, [leader EXCEPT ![t] = "alive"]}
      /\ UNCHANGED <<pid, timer, rest, restarts>>
  BY DEF StartSpawns
<1>3. /\ ~pid[t] /\ pid' = [pid EXCEPT ![t] = FALSE]
  BY <1>1, <1>2 DEF TasksOK, MemoryOf, TypeOK
<1>4. /\ leader' \in [Tasks -> Groups] /\ \A u \in Tasks : u # t => leader'[u] = leader[u]
      /\ timer' \in [Tasks -> BOOLEAN] /\ rest' \in [Tasks -> BOOLEAN]
  BY <1>1, <1>2 DEF TypeOK, Groups
<1>5. "starting" \in States /\ "starting" \in ActiveStates
  BY DEF States, ActiveStates
<1> QED
  BY <1>2, <1>3, <1>4, <1>5, TaskMoves

LEMMA SpawnEventStep == ASSUME IInv, NEW t \in Tasks, SpawnEvent(t) PROVE IInv' /\ EndsStay
<1>1. TypeOK /\ TasksOK
  BY Parts
<1>2. /\ up /\ up' /\ child[t] /\ leader[t] # "none" /\ ~pid[t]
      /\ state' = [state EXCEPT ![t] = "running"]
      /\ pid' = [pid EXCEPT ![t] = TRUE] /\ State(t)
      /\ UNCHANGED <<child, timer, leader, rest, restarts>>
  BY DEF SpawnEvent, group
<1>3. /\ state[t] = "starting" /\ child' = [child EXCEPT ![t] = TRUE]
  BY <1>1, <1>2 DEF TasksOK, MemoryOf, TypeOK
<1>4. /\ leader' \in [Tasks -> Groups] /\ \A u \in Tasks : u # t => leader'[u] = leader[u]
      /\ timer' \in [Tasks -> BOOLEAN] /\ rest' \in [Tasks -> BOOLEAN]
  BY <1>1, <1>2 DEF TypeOK, Groups
<1>5. "running" \in States /\ "running" \in ActiveStates /\ "starting" \in ActiveStates
  BY DEF States, ActiveStates
<1> QED
  BY <1>2, <1>3, <1>4, <1>5, TaskMoves

\* The other events of a task keep its pid and its child handle.
LEMMA StateMoves ==
  ASSUME IInv, up, NEW t \in Tasks, state[t] \in ActiveStates,
         NEW s \in States, state' = [state EXCEPT ![t] = s],
         UNCHANGED <<up, pid, child, restarts>>,
         timer' \in [Tasks -> BOOLEAN], rest' \in [Tasks -> BOOLEAN],
         leader' \in [Tasks -> Groups], \A u \in Tasks : u # t => leader'[u] = leader[u],
         (child[t] \/ pid[t]) /\ leader'[t] = "alive" => s \in ActiveStates,
         child[t] /\ ~pid[t] /\ leader'[t] # "none" => s = "starting",
         State(t)
  PROVE  IInv' /\ EndsStay
<1>1. TypeOK
  BY Parts
<1>2. PICK p \in BOOLEAN : p = pid[t] /\ pid' = [pid EXCEPT ![t] = p]
  BY <1>1 DEF TypeOK
<1>3. PICK c \in BOOLEAN : c = child[t] /\ child' = [child EXCEPT ![t] = c]
  BY <1>1 DEF TypeOK
<1> QED
  BY <1>2, <1>3, TaskMoves

LEMMA SpawnErrorStep == ASSUME IInv, NEW t \in Tasks, SpawnError(t) PROVE IInv' /\ EndsStay
<1>1. /\ TypeOK /\ up /\ leader[t] = "none" /\ state[t] \in ActiveStates
      /\ state' = [state EXCEPT ![t] = "failed"] /\ State(t)
      /\ UNCHANGED <<up, pid, child, timer, leader, rest, restarts>>
  BY Parts DEF SpawnError, group
<1>2. "failed" \in States /\ leader' \in [Tasks -> Groups] /\ leader'[t] = "none"
      /\ timer' \in [Tasks -> BOOLEAN] /\ rest' \in [Tasks -> BOOLEAN]
  BY <1>1 DEF TypeOK, Groups, States, EndedStates
<1> QED
  BY <1>1, <1>2, StateMoves

LEMMA ExitEventStep == ASSUME IInv, NEW t \in Tasks, ExitEvent(t) PROVE IInv' /\ EndsStay
<1>1. /\ TypeOK /\ up /\ leader[t] = "dead" /\ state[t] \in ActiveStates /\ pid[t]
      /\ timer' = [timer EXCEPT ![t] = FALSE] /\ State(t)
      /\ UNCHANGED <<up, pid, child, leader, rest, restarts>>
  BY Parts DEF ExitEvent, group
<1>2. PICK s \in States : state' = [state EXCEPT ![t] = s]
  <2>1. PICK ending \in {"exited", "failed"} :
           state' = [state EXCEPT ![t] = IF state[t] = "stopping" THEN "stopped" ELSE ending]
    BY DEF ExitEvent
  <2>2. (IF state[t] = "stopping" THEN "stopped" ELSE ending) \in States
    BY DEF States, EndedStates
  <2> QED
    BY <2>1, <2>2
<1>3. leader' \in [Tasks -> Groups] /\ leader'[t] = "dead" /\ timer' \in [Tasks -> BOOLEAN]
      /\ rest' \in [Tasks -> BOOLEAN]
  BY <1>1 DEF TypeOK, Groups
<1> QED
  BY <1>1, <1>2, <1>3, StateMoves

LEMMA StopStep == ASSUME IInv, NEW t \in Tasks, Stop(t) PROVE IInv' /\ EndsStay
<1>1. /\ TypeOK /\ up /\ state[t] \in ActiveStates /\ (child[t] => pid[t])
      /\ state' = [state EXCEPT ![t] = "stopping"]
      /\ timer' = [timer EXCEPT ![t] = TRUE] /\ State(t)
      /\ UNCHANGED <<up, pid, child, leader, rest, restarts>>
  BY Parts DEF Stop, group
<1>2. "stopping" \in States /\ "stopping" \in ActiveStates
  BY DEF States, ActiveStates
<1>3. leader' \in [Tasks -> Groups] /\ timer' \in [Tasks -> BOOLEAN] /\ rest' \in [Tasks -> BOOLEAN]
  BY <1>1 DEF TypeOK, Groups
<1> QED
  BY <1>1, <1>2, <1>3, StateMoves

\* SIGKILL.
LEMMA Killing ==
  ASSUME TypeOK, NEW K, SigKill(K)
  PROVE  /\ leader' \in [Tasks -> Groups] /\ rest' \in [Tasks -> BOOLEAN]
         /\ \A t \in Tasks : leader'[t] = leader[t] \/ (leader[t] = "alive" /\ leader'[t] = "dead")
         /\ \A t \in Tasks : t \notin K => leader'[t] = leader[t]
<1>1. leader' \in [Tasks -> Groups]
  BY DEF TypeOK, SigKill, Groups
<1>2. rest' \in [Tasks -> BOOLEAN]
  BY DEF SigKill
<1>3. /\ \A t \in Tasks : leader'[t] = leader[t] \/ (leader[t] = "alive" /\ leader'[t] = "dead")
      /\ \A t \in Tasks : t \notin K => leader'[t] = leader[t]
  BY DEF SigKill
<1> QED
  BY <1>1, <1>2, <1>3

LEMMA KillTimerStep == ASSUME IInv, NEW t \in Tasks, KillTimer(t) PROVE IInv' /\ EndsStay
<1>1. /\ TypeOK /\ timer' \in [Tasks -> BOOLEAN]
      /\ UNCHANGED <<up, state, pid, child, disk, restarts>>
  BY Parts DEF KillTimer, TypeOK
<1>2. \E K : SigKill(K)
  BY DEF KillTimer
<1> QED
  BY <1>1, <1>2, Killing, WorldMoves

LEMMA ProbeStep == ASSUME IInv, NEW t \in Tasks, Probe(t) PROVE IInv' /\ EndsStay
<1> DEFINE K == IF state[t] = "stopping" /\ pid[t] THEN {t} ELSE {}
<1>1. /\ TypeOK /\ up /\ ~child[t] /\ state[t] \in ActiveStates /\ SigKill(K)
      /\ state' = [state EXCEPT ![t] = Reconciled(t, state[t], pid[t])]
      /\ UNCHANGED <<up, pid, child, timer, restarts>>
      /\ IF state' # state THEN State(t) ELSE UNCHANGED disk
  BY Parts DEF Probe
<1>2. /\ leader' \in [Tasks -> Groups] /\ rest' \in [Tasks -> BOOLEAN]
      /\ \A u \in Tasks : leader'[u] = leader[u] \/ (leader[u] = "alive" /\ leader'[u] = "dead")
      /\ \A u \in Tasks : u # t => leader'[u] = leader[u]
      /\ timer' \in [Tasks -> BOOLEAN]
  <2>1. \A u \in Tasks : u # t => u \notin K
    OBVIOUS
  <2> HIDE DEF K
  <2> QED
    BY <1>1, <2>1, Killing DEF TypeOK
<1>3. CASE state' = state
  BY <1>1, <1>2, <1>3, WorldMoves
<1>4. CASE state' # state
  <2>1. PICK s \in States : s = Reconciled(t, state[t], pid[t])
    BY <1>1 DEF Reconciled, States, ActiveStates, EndedStates
  <2>2. pid[t] /\ leader[t] = "alive" => s \in ActiveStates
    BY <1>1, <2>1 DEF Reconciled, IsAlive, GroupAlive, ActiveStates
  <2> HIDE DEF K
  <2> QED
    BY <1>1, <1>2, <1>4, <2>1, <2>2, StateMoves
<1> QED
  BY <1>3, <1>4

LEMMA WorldSteps ==
  ASSUME IInv, NEW t \in Tasks, LeaderEnds(t) \/ Forks(t) \/ RestEnds(t)
  PROVE  IInv' /\ EndsStay
<1>1. /\ TypeOK /\ UNCHANGED <<up, state, pid, child, timer, disk, restarts>>
  BY Parts DEF LeaderEnds, Forks, RestEnds, memory
<1>2. timer' \in [Tasks -> BOOLEAN]
  BY <1>1 DEF TypeOK
<1>3. /\ leader' \in [Tasks -> Groups] /\ rest' \in [Tasks -> BOOLEAN]
      /\ \A u \in Tasks : leader'[u] = leader[u] \/ (leader[u] = "alive" /\ leader'[u] = "dead")
  BY <1>1 DEF LeaderEnds, Forks, RestEnds, TypeOK, Groups
<1> QED
  BY <1>1, <1>2, <1>3, WorldMoves

-------------------------------------------------------------------------------
(***************************************************************************)
(* Sessions, and the application that goes down and comes back.            *)
(***************************************************************************)

LEMMA DiscardStep == ASSUME IInv, NEW s, DiscardSession(s) PROVE IInv' /\ EndsStay
<1> DEFINE owned == {t \in Table : SessionOf[t] = s}
           D == dirty \ owned
<1>1. /\ TypeOK /\ DiskIsTrue /\ TasksOK /\ Finite
      /\ up /\ owned \cap Active = {}
      /\ state' = [t \in Tasks |-> IF t \in owned THEN "gone" ELSE state[t]]
      /\ timer' = [t \in Tasks |-> timer[t] /\ t \notin owned]
      /\ UNCHANGED <<up, pid, child, leader, rest, restarts>>
      /\ PersistNow(D)
  BY Parts DEF DiscardSession, group
<1>2. /\ \A t \in owned : t \in Table /\ state'[t] = "gone" /\ state[t] \in EndedStates
      /\ \A t \in Tasks : t \notin owned => state'[t] = state[t]
      /\ state' \in [Tasks -> States \cup {"none", "asking", "gone"}]
      /\ timer' \in [Tasks -> BOOLEAN] /\ dirty \subseteq Table
  BY <1>1 DEF TypeOK, Table, States, Active
<1> HIDE DEF owned
<1>3. Table' = Table \ owned
  BY <1>2 DEF Table, States, ActiveStates, EndedStates
<1>4. /\ D \subseteq Table' /\ pid' \in [Tasks -> BOOLEAN]
      /\ \A t \in Table' \ D : t \in Table \ dirty /\ state'[t] = state[t] /\ pid'[t] = pid[t]
  BY <1>1, <1>2, <1>3 DEF TypeOK, Table
<1>5. /\ records' \in [Tasks -> Record \cup {None}]
      /\ dirty' \subseteq Table' /\ persistedIds' \subseteq Tasks
      /\ faults' \in 0..MaxFaults
      /\ index' = index \/ index' = Table'
      /\ \A t \in Tasks : \/ records'[t] = None \/ records'[t] = records[t]
                         \/ (t \in D /\ records'[t] = [state |-> state'[t], pid |-> pid'[t]])
      /\ DiskIsTrue'
  BY <1>1, <1>4, Persisting
<1>6. TypeOK'
  BY <1>1, <1>2, <1>5 DEF TypeOK, Table
<1>7. Finite'
  <2>1. IsFiniteSet(Table')
    BY <1>1, <1>3, FS_Subset DEF Finite
  <2> QED
    BY <1>1, <1>5, <2>1 DEF Finite
<1>8. ASSUME NEW u \in Tasks
      PROVE  /\ MemoryOf(u)' /\ RecordOf(u)'
             /\ records[u] # None /\ records[u].state \in EndedStates =>
                  records'[u] = None \/ records'[u] = records[u]
  <2>1. CASE u \notin owned
    <3>1. /\ D \cap {u} \subseteq Table /\ state'[u] = state[u] /\ pid'[u] = pid[u]
          /\ child'[u] = child[u] /\ leader'[u] = leader[u]
      BY <1>1, <1>2, <2>1
    <3> HIDE DEF D
    <3> QED
      BY <1>1, <1>5, <3>1, Unmoved
  <2>2. CASE u \in owned
    <3>1. MemoryOf(u) /\ RecordOf(u)
      BY <1>1 DEF TasksOK
    <3>2. /\ u \in Table /\ u \notin Table' /\ state'[u] = "gone" /\ state[u] \in EndedStates
          /\ state[u] \notin ActiveStates /\ state[u] # "starting"
      BY <1>2, <1>3, <2>2 DEF ActiveStates, EndedStates
    <3>3. records'[u] = None \/ records'[u] = records[u]
      BY <1>5, <2>2
    <3>4. MemoryOf(u)'
      BY <1>1, <3>1, <3>2 DEF MemoryOf
    <3>5. RecordOf(u)'
      BY <1>1, <1>5, <3>1, <3>2, <3>3 DEF RecordOf, MemoryOf
    <3> QED
      BY <3>3, <3>4, <3>5
  <2> QED
    BY <2>1, <2>2
<1> QED
  BY <1>5, <1>6, <1>7, <1>8 DEF IInv, TasksOK, EndsStay

\* What goes down knows nothing, whatever it saved last.
LEMMA Forgetting ==
  ASSUME IInv, up, restarts < MaxRestarts, Forgets,
         records' \in [Tasks -> Record \cup {None}], index' \subseteq Tasks, IsFiniteSet(index'),
         faults' \in 0..MaxFaults, \A t \in index' : records'[t] # None,
         \A t \in Tasks : \/ records'[t] = None \/ records'[t] = records[t]
                        \/ (t \in Table /\ records'[t] = [state |-> state[t], pid |-> pid[t]])
  PROVE  IInv' /\ EndsStay
<1>1. /\ TypeOK /\ TasksOK /\ up' = FALSE /\ restarts' = restarts + 1
      /\ state' = [t \in Tasks |-> IF state[t] = "none" THEN "none" ELSE "gone"]
      /\ pid' = [t \in Tasks |-> FALSE] /\ child' = [t \in Tasks |-> FALSE]
      /\ timer' = [t \in Tasks |-> FALSE] /\ dirty' = {} /\ persistedIds' = {}
      /\ UNCHANGED <<leader, rest>>
  BY Parts DEF Forgets, group
<1>2. Table' = {}
  BY <1>1 DEF Table, States, ActiveStates, EndedStates
<1>3. TypeOK'
  <2>1. restarts' \in 0..MaxRestarts
    BY <1>1, BackgroundAssumption DEF TypeOK, BackgroundAssumption
  <2> QED
    BY <1>1, <2>1 DEF TypeOK
<1>4. DiskIsTrue' /\ Finite'
  BY <1>1, <1>2, FS_EmptySet DEF DiskIsTrue, Finite
<1>5. ASSUME NEW t \in Tasks
      PROVE  /\ MemoryOf(t)' /\ RecordOf(t)'
             /\ records[t] # None /\ records[t].state \in EndedStates =>
                  records'[t] = None \/ records'[t] = records[t]
  <2>1. /\ MemoryOf(t) /\ RecordOf(t) /\ ~up' /\ t \notin Table' /\ ~pid'[t] /\ ~child'[t]
        /\ leader'[t] = leader[t] /\ state'[t] \in {"none", "gone"}
        /\ (state'[t] = "none" <=> state[t] = "none")
    BY <1>1, <1>2 DEF TasksOK
  <2>2. MemoryOf(t)'
    <3>1. state[t] = "none" => records'[t] = None
      BY <2>1 DEF MemoryOf, Table, States, ActiveStates, EndedStates
    <3> QED
      BY <2>1, <3>1 DEF MemoryOf
  <2>3. CASE records'[t] = None
    BY <2>2, <2>3 DEF RecordOf
  <2>4. CASE records'[t] = records[t]
    BY <2>1, <2>2, <2>4 DEF RecordOf
  <2>5. CASE t \in Table /\ records'[t] = [state |-> state[t], pid |-> pid[t]]
    <3>1. records'[t].state = state[t] /\ records'[t].pid = pid[t]
      BY <2>5
    <3>2. state[t] \in EndedStates => state[t] \notin ActiveStates
      BY DEF EndedStates, ActiveStates
    <3>3. RecordOf(t)'
      BY <2>1, <3>1, <3>2 DEF RecordOf, MemoryOf
    <3>4. ASSUME records[t] # None, records[t].state \in EndedStates PROVE records'[t] = records[t]
      <4>1. records[t].state = state[t] /\ records[t].pid = pid[t] /\ records[t] \in Record
        BY <1>1, <2>1, <2>5, <3>4 DEF RecordOf, TypeOK
      <4> QED
        BY <2>5, <4>1 DEF Record
    <3> QED
      BY <2>2, <3>3, <3>4
  <2> QED
    BY <2>3, <2>4, <2>5
<1> QED
  BY <1>3, <1>4, <1>5 DEF IInv, TasksOK, EndsStay

LEMMA CrashStep == ASSUME IInv, Crash PROVE IInv' /\ EndsStay
<1>1. /\ TypeOK /\ DiskIsTrue /\ Finite /\ up /\ restarts < MaxRestarts /\ Forgets
      /\ UNCHANGED <<records, index, faults>>
  BY Parts DEF Crash
<1> QED
  BY <1>1, Forgetting DEF TypeOK, DiskIsTrue, Finite

LEMMA QuitStep == ASSUME IInv, Quit PROVE IInv' /\ EndsStay
<1>1. /\ TypeOK /\ DiskIsTrue /\ Finite /\ up /\ restarts < MaxRestarts /\ Forgets
      /\ faults' = faults \/ (faults < MaxFaults /\ faults' = faults + 1)
  <2>1. TypeOK /\ DiskIsTrue /\ Finite
    BY Parts
  <2> QED
    BY <2>1 DEF Quit
<1>2. dirty \subseteq Table /\ Table \subseteq Tasks /\ faults' \in 0..MaxFaults
  BY <1>1, BackgroundAssumption DEF TypeOK, Table, BackgroundAssumption
<1>3. PICK W \in SUBSET dirty :
        \/ /\ records' = [t \in Tasks |-> IF t \in persistedIds \ Table THEN None ELSE AsHeld(W)[t]]
           /\ W = dirty /\ index' = Table
        \/ /\ records' = AsHeld(W)
           /\ (index' = index \/ (W = dirty /\ index' = Table))
  <2>1. CASE records' = [t \in Tasks |-> IF t \in persistedIds \ Table THEN None
                                         ELSE AsHeld(dirty)[t]] /\ index' = Table
    BY <2>1
  <2>2. CASE \E V \in SUBSET dirty : records' = AsHeld(V) /\ index' = index
    BY <2>2
  <2>3. CASE records' = AsHeld(dirty) /\ index' = Table
    BY <2>3
  <2>4. \/ /\ records' = [t \in Tasks |-> IF t \in persistedIds \ Table THEN None ELSE AsHeld(dirty)[t]]
           /\ index' = Table
        \/ \E V \in SUBSET dirty : records' = AsHeld(V) /\ index' = index
        \/ records' = AsHeld(dirty) /\ index' = Table
    BY DEF Quit
  <2> QED
    BY <2>1, <2>2, <2>3, <2>4
<1>4. ASSUME NEW t \in Tasks
      PROVE  /\ \/ t \in W /\ records'[t] = [state |-> state[t], pid |-> pid[t]]
                \/ t \notin W /\ records'[t] = records[t]
                \/ t \notin W /\ t \notin Table /\ records'[t] = None /\ index' = Table
             /\ records'[t] \in Record \cup {None}
             /\ t \in W => records'[t] # None
  <2>1. AsHeld(W)[t] = IF t \in W THEN [state |-> state[t], pid |-> pid[t]] ELSE records[t]
    BY DEF AsHeld
  <2>2. t \in W => [state |-> state[t], pid |-> pid[t]] \in Record
    BY <1>1, <1>2, RecordType DEF TypeOK, Table
  <2>3. [state |-> state[t], pid |-> pid[t]] # None \/ t \notin W
    BY <2>2, BackgroundAssumption DEF BackgroundAssumption
  <2>4. records[t] \in Record \cup {None}
    BY <1>1 DEF TypeOK
  <2>5. CASE records' = AsHeld(W)
    BY <2>1, <2>2, <2>3, <2>4, <2>5
  <2>6. CASE records' = [u \in Tasks |-> IF u \in persistedIds \ Table THEN None ELSE AsHeld(W)[u]]
             /\ index' = Table
    <3>1. records'[t] = IF t \in persistedIds \ Table THEN None ELSE AsHeld(W)[t]
      BY <2>6
    <3> QED
      BY <1>2, <2>1, <2>2, <2>3, <2>4, <2>6, <3>1
  <2> QED
    BY <1>3, <2>5, <2>6
<1>5. records' \in [Tasks -> Record \cup {None}]
  <2>1. records' = [t \in Tasks |-> records'[t]]
    BY <1>3 DEF AsHeld
  <2> QED
    BY <1>4, <2>1
<1>6. \A t \in index' : t \in Tasks /\ records'[t] # None
  <2>1. index' = index \/ (W = dirty /\ index' = Table)
    BY <1>3
  <2>2. CASE index' = Table /\ W = dirty
    <3>1. ASSUME NEW t \in Table, t \notin dirty PROVE records'[t] # None
      <4>1. records[t] = [state |-> state[t], pid |-> pid[t]]
        BY <1>1, <3>1 DEF DiskIsTrue
      <4>2. records[t] # None
        BY <1>1, <1>2, <3>1, <4>1, RecordType DEF TypeOK, Table
      <4> QED
        BY <1>2, <1>4, <2>2, <3>1, <4>2
    <3> QED
      BY <1>2, <1>4, <2>2, <3>1
  <2>3. CASE index' = index /\ records' = AsHeld(W)
    <3>1. \A t \in index : t \in Tasks /\ records[t] # None
      BY <1>1 DEF TypeOK, DiskIsTrue
    <3>2. \A t \in Tasks : records'[t] = records[t] \/ t \in W
      BY <2>3 DEF AsHeld
    <3> QED
      BY <1>4, <2>3, <3>1, <3>2
  <2> QED
    BY <1>3, <2>2, <2>3
<1>7. index' \subseteq Tasks /\ IsFiniteSet(index')
  BY <1>1, <1>2, <1>3 DEF TypeOK, Finite
<1> QED
  BY <1>1, <1>2, <1>4, <1>5, <1>6, <1>7, Forgetting DEF Finite

\* What a record comes to when the application looks at its group.
LEMMA Reconciling ==
  ASSUME NEW t, NEW s \in States, NEW b \in BOOLEAN, NEW n, n = Reconciled(t, s, b)
  PROVE  /\ n \in States /\ (s \in EndedStates => n = s)
         /\ (s \in ActiveStates /\ b /\ leader[t] = "alive" => n \in ActiveStates)
<1>1. /\ s \in ActiveStates <=> s \notin EndedStates
      /\ \A x : x \in States <=> x \in ActiveStates \/ x \in EndedStates
      /\ "running" \in ActiveStates /\ "stopped" \in EndedStates /\ "exited" \in EndedStates
  BY DEF States, ActiveStates, EndedStates
<1>2. b /\ leader[t] = "alive" => IsAlive(t, b)
  BY DEF IsAlive, GroupAlive
<1> QED
  BY <1>1, <1>2 DEF Reconciled

LEMMA RestoreStep == ASSUME IInv, Restore PROVE IInv' /\ EndsStay
<1>1. /\ TypeOK /\ DiskIsTrue /\ TasksOK /\ Finite /\ Restorable = index
      /\ \A t \in index : t \in Tasks /\ records[t] # None /\ records[t] \in Record
  <2>1. TypeOK /\ DiskIsTrue /\ TasksOK /\ Finite
    BY Parts
  <2>2. \A t \in index : t \in Tasks /\ records[t] # None /\ records[t] \in Record
    BY <2>1 DEF TypeOK, DiskIsTrue
  <2> QED
    BY <2>1, <2>2 DEF Restorable
<1> DEFINE now == [t \in index |-> Reconciled(t, records[t].state, records[t].pid)]
           changed == {t \in index : now[t] # records[t].state}
<1>2. /\ ~up /\ up' = TRUE
      /\ state' = [t \in Tasks |-> IF t \in index THEN now[t] ELSE state[t]]
      /\ pid' = [t \in Tasks |-> t \in index /\ records[t].pid]
      /\ \E K : SigKill(K)
      /\ persistedIds' = index /\ index' = index /\ UNCHANGED <<child, timer, restarts>>
  BY <1>1 DEF Restore
<1>3. PICK W \in SUBSET changed :
         /\ records' = Written(W) /\ dirty' \subseteq changed /\ changed \ W \subseteq dirty'
         /\ faults' \in 0..MaxFaults
  <2>1. CASE records' = Written(changed) /\ dirty' = {} /\ UNCHANGED faults
    BY <1>1, <2>1 DEF TypeOK
  <2>2. CASE /\ changed # {} /\ faults < MaxFaults /\ faults' = faults + 1
             /\ \E W \in SUBSET changed : records' = Written(W)
             /\ dirty' = changed
    <3>1. PICK W \in SUBSET changed : records' = Written(W)
      BY <2>2
    <3>2. faults' \in 0..MaxFaults
      BY <1>1, <2>2, BackgroundAssumption DEF TypeOK, BackgroundAssumption
    <3> QED
      BY <2>2, <3>1, <3>2
  <2> QED
    BY <1>1, <2>1, <2>2 DEF Restore
<1>4. ASSUME NEW t \in index
      PROVE  /\ now[t] \in States /\ (records[t].state \in EndedStates => now[t] = records[t].state)
             /\ (records[t].state \in ActiveStates /\ records[t].pid /\ leader[t] = "alive"
                 => now[t] \in ActiveStates)
             /\ records[t].pid \in BOOLEAN /\ records[t].state \in States
  <2>1. PICK s \in States, b \in BOOLEAN : s = records[t].state /\ b = records[t].pid
    BY <1>1 DEF Record
  <2>2. PICK n : n = now[t]
    OBVIOUS
  <2>3. n = Reconciled(t, s, b)
    BY <2>1, <2>2
  <2>4. /\ n \in States /\ (s \in EndedStates => n = s)
        /\ (s \in ActiveStates /\ b /\ leader[t] = "alive" => n \in ActiveStates)
    BY <2>3, Reconciling
  <2> QED
    BY <2>1, <2>2, <2>4
<1>5. /\ \A t \in index : state'[t] = now[t] /\ pid'[t] = records[t].pid
      /\ \A t \in Tasks : t \notin index => state'[t] = state[t] /\ ~pid'[t]
  BY <1>1, <1>2, <1>4
<1>6. \A t \in Tasks : state[t] \in {"none", "gone"} /\ ~child[t]
  BY <1>1, <1>2 DEF TasksOK, MemoryOf
<1> HIDE DEF now
<1>7. Table' = index
  BY <1>1, <1>4, <1>5, <1>6 DEF Table, States, ActiveStates, EndedStates
<1>8. \A t \in Tasks :
         /\ t \in W => t \in index /\ records'[t] = [state |-> now[t], pid |-> records[t].pid]
                      /\ records'[t] \in Record /\ records'[t] # None
         /\ t \notin W => records'[t] = records[t]
  <2>1. W \subseteq Table' /\ \A t \in Tasks : state'[t] \in States => pid'[t] \in BOOLEAN
    BY <1>2, <1>7
  <2> SUFFICES ASSUME NEW t \in Tasks
               PROVE  /\ t \in W => t \in index /\ records'[t] = [state |-> now[t], pid |-> records[t].pid]
                                   /\ records'[t] \in Record /\ records'[t] # None
                      /\ t \notin W => records'[t] = records[t]
    OBVIOUS
  <2>2. /\ t \in W => /\ Written(W)[t] = [state |-> state'[t], pid |-> pid'[t]]
                      /\ Written(W)[t] \in Record /\ Written(W)[t] # None
        /\ t \notin W => Written(W)[t] = records[t]
    BY <1>1, <2>1, Writing
  <2>3. records'[t] = Written(W)[t]
    BY <1>3
  <2>4. t \in W => t \in index /\ state'[t] = now[t] /\ pid'[t] = records[t].pid
    BY <1>5
  <2> QED
    BY <2>2, <2>3, <2>4
<1>9. /\ leader' \in [Tasks -> Groups] /\ rest' \in [Tasks -> BOOLEAN]
      /\ \A t \in Tasks : leader'[t] = leader[t] \/ (leader[t] = "alive" /\ leader'[t] = "dead")
  BY <1>1, <1>2, Killing
<1>10. TypeOK'
  <2>1. records' \in [Tasks -> Record \cup {None}]
    <3>1. records' = [t \in Tasks |-> records'[t]]
      BY <1>3 DEF Written
    <3>2. \A t \in Tasks : records'[t] \in Record \cup {None}
      BY <1>1, <1>8 DEF TypeOK
    <3> QED
      BY <3>1, <3>2
  <2>2. state' \in [Tasks -> States \cup {"none", "asking", "gone"}]
    BY <1>2, <1>4, <1>6
  <2>3. dirty' \subseteq Table' /\ index' \subseteq Tasks
    BY <1>1, <1>2, <1>3, <1>7
  <2> QED
    BY <1>1, <1>2, <1>3, <1>9, <2>1, <2>2, <2>3 DEF TypeOK, Groups
<1>11. DiskIsTrue' /\ Finite'
  <2>1. \A t \in index' : records'[t] # None
    BY <1>1, <1>2, <1>8
  <2>2. \A t \in index \ dirty' : records'[t] = [state |-> state'[t], pid |-> pid'[t]]
    <3> SUFFICES ASSUME NEW t \in index, t \notin dirty'
                 PROVE  records'[t] = [state |-> state'[t], pid |-> pid'[t]]
      OBVIOUS
    <3>1. CASE t \in W
      BY <1>1, <1>5, <1>8, <3>1
    <3>2. CASE t \notin W
      <4>1. now[t] = records[t].state /\ records'[t] = records[t] /\ records[t] \in Record
        BY <1>1, <1>3, <1>8, <3>2
      <4>2. records[t] = [state |-> records[t].state, pid |-> records[t].pid]
        BY <4>1 DEF Record
      <4>3. state'[t] = records[t].state /\ pid'[t] = records[t].pid
        BY <1>5, <4>1
      <4> QED
        BY <4>1, <4>2, <4>3
    <3> QED
      BY <3>1, <3>2
  <2> QED
    BY <1>1, <1>2, <1>7, <2>1, <2>2 DEF DiskIsTrue, Finite
<1>12. ASSUME NEW t \in Tasks
       PROVE  /\ MemoryOf(t)' /\ RecordOf(t)'
              /\ records[t] # None /\ records[t].state \in EndedStates =>
                   records'[t] = None \/ records'[t] = records[t]
  <2>1. /\ MemoryOf(t) /\ RecordOf(t) /\ child'[t] = child[t]
        /\ leader'[t] = leader[t] \/ (leader[t] = "alive" /\ leader'[t] = "dead")
    BY <1>1, <1>2, <1>9 DEF TasksOK
  <2>2. CASE t \notin index
    <3>1. state'[t] = state[t] /\ ~pid'[t] /\ records'[t] = records[t] /\ t \notin Table'
          /\ t \notin index'
      BY <1>2, <1>5, <1>7, <1>8, <2>2
    <3>2. MemoryOf(t)'
      BY <1>2, <1>6, <2>1, <3>1 DEF MemoryOf
    <3>3. RecordOf(t)'
      BY <2>1, <3>1 DEF RecordOf
    <3> QED
      BY <3>1, <3>2, <3>3
  <2>3. CASE t \in index
    <3>1. /\ state'[t] = now[t] /\ pid'[t] = records[t].pid /\ ~child'[t] /\ up'
          /\ now[t] \in States /\ records[t] # None
      BY <1>1, <1>2, <1>4, <1>5, <1>6, <2>1, <2>3
    <3>2. records[t].pid /\ leader'[t] = "alive" => now[t] \in ActiveStates
      BY <1>4, <2>1, <2>3, <3>1 DEF RecordOf, States
    <3>3. now[t] \in EndedStates => now[t] \notin ActiveStates
      BY DEF EndedStates, ActiveStates
    <3>4. MemoryOf(t)'
      BY <3>1, <3>2 DEF MemoryOf, States, ActiveStates, EndedStates
    <3>5. CASE t \in W
      <4>1. records'[t].state = now[t] /\ records'[t].pid = records[t].pid
        <5>1. records'[t] = [state |-> now[t], pid |-> records[t].pid]
          BY <1>8, <3>5
        <5> QED
          BY <5>1
      <4>2. records[t].state \notin EndedStates
        BY <1>4, <2>3, <3>5
      <4> QED
        BY <3>1, <3>2, <3>3, <3>4, <4>1, <4>2 DEF RecordOf
    <3>6. CASE t \notin W
      BY <1>4, <1>8, <2>1, <2>3, <3>1, <3>2, <3>4, <3>6 DEF RecordOf
    <3> QED
      BY <3>5, <3>6
  <2> QED
    BY <2>2, <2>3
<1> QED
  BY <1>10, <1>11, <1>12 DEF IInv, TasksOK, EndsStay

-------------------------------------------------------------------------------
(***************************************************************************)
(* The invariant, and what it says.                                        *)
(***************************************************************************)

LEMMA FirstState == Init => IInv
<1> SUFFICES ASSUME Init PROVE IInv
  OBVIOUS
<1>1. Table = {}
  BY DEF Init, Table, States, ActiveStates, EndedStates
<1>2. TypeOK
  BY <1>1, BackgroundAssumption DEF Init, TypeOK, BackgroundAssumption
<1>3. DiskIsTrue /\ Finite
  BY <1>1, FS_EmptySet DEF Init, DiskIsTrue, Finite
<1>4. TasksOK
  BY DEF Init, TasksOK, MemoryOf, RecordOf
<1> QED
  BY <1>2, <1>3, <1>4 DEF IInv

LEMMA EveryStep == ASSUME IInv, [Next]_vars PROVE IInv' /\ EndsStay
<1>1. ASSUME NEW t \in Tasks,
             \/ StartAsks(t) \/ StartRefused(t) \/ StartSpawns(t)
             \/ SpawnEvent(t) \/ SpawnError(t) \/ ExitEvent(t)
             \/ Stop(t) \/ KillTimer(t) \/ Probe(t)
             \/ LeaderEnds(t) \/ Forks(t) \/ RestEnds(t)
      PROVE  IInv' /\ EndsStay
  BY <1>1, StartSteps, StartSpawnsStep, SpawnEventStep, SpawnErrorStep, ExitEventStep, StopStep,
     KillTimerStep, ProbeStep, WorldSteps
<1>2. ASSUME NEW t \in Tasks, DiscardSession(SessionOf[t]) PROVE IInv' /\ EndsStay
  BY <1>2, DiscardStep
<1>3. CASE Crash \/ Quit \/ Restore
  BY <1>3, CrashStep, QuitStep, RestoreStep
<1>4. CASE UNCHANGED vars
  <2>1. /\ TypeOK
        /\ UNCHANGED <<up, state, pid, child, timer, disk, leader, rest, restarts>>
    BY <1>4, Parts DEF vars, memory, disk, group
  <2>2. /\ timer' \in [Tasks -> BOOLEAN] /\ rest' \in [Tasks -> BOOLEAN]
        /\ leader' \in [Tasks -> Groups]
    BY <2>1 DEF TypeOK, Groups
  <2> QED
    BY <2>1, <2>2, WorldMoves
<1> QED
  BY <1>1, <1>2, <1>3, <1>4 DEF Next

LEMMA Invariance == Spec => []IInv
<1>1. IInv /\ [Next]_vars => IInv'
  BY EveryStep
<1> QED
  BY <1>1, FirstState, PTL DEF Spec

\* The manager's table, the records and the index have the shapes the code expects,
\* and only tasks of the table are dirty.
THEOREM TypeCorrect == Spec => []TypeOK
<1>1. IInv => TypeOK
  BY DEF IInv
<1> QED
  BY <1>1, Invariance, PTL

\* Nothing is orphaned: a live shell that the application started, or whose pid it once
\* saved, is an active task of its table (background-tasks.ts, #reconcile and #persistNow).
THEOREM NoOrphans == Spec => []LiveIsSupervised
<1>1. IInv => LiveIsSupervised
  <2> SUFFICES ASSUME IInv, up, NEW t \in Tasks, leader[t] = "alive",
                      child[t] \/ (t \in index /\ records[t].pid)
               PROVE  state[t] \in ActiveStates
    BY DEF LiveIsSupervised
  <2>1. MemoryOf(t) /\ RecordOf(t) /\ (t \in index => records[t] # None)
    BY Parts DEF TasksOK, DiskIsTrue
  <2> QED
    BY <2>1 DEF MemoryOf, RecordOf
<1> QED
  BY <1>1, Invariance, PTL

\* The index lists only tasks that have a record, and what is not dirty is on disk,
\* wherever a save failed (#persistNow).
THEOREM DiskAgrees == Spec => []DiskIsTrue
<1>1. IInv => DiskIsTrue
  BY DEF IInv
<1> QED
  BY <1>1, Invariance, PTL

\* An end that was saved is final: no event, stop, probe or restart writes another state
\* over it.
THEOREM EndsAreFinal == Spec => EndIsFinal
<1>1. IInv /\ [Next]_vars => [EndsStay]_vars
  BY EveryStep
<1>2. EndsStay <=> \A t \in Tasks : records[t] # None /\ records[t].state \in EndedStates
                      => records'[t] = None \/ records'[t] = records[t]
  BY DEF EndsStay
<1> QED
  BY <1>1, <1>2, Invariance, PTL DEF Spec, EndIsFinal

-------------------------------------------------------------------------------
(***************************************************************************)
(* The limits.                                                             *)
(***************************************************************************)

\* Only start(), after its await, takes a task from there into the table.
LEMMA OnlyASpawnStarts ==
  ASSUME IInv, [Next]_vars, NEW t \in Tasks, state[t] = "asking", state'[t] = "starting"
  PROVE  StartSpawns(t)
<1>1. TypeOK /\ TasksOK /\ t \notin Table /\ state[t] \notin ActiveStates
  BY Parts DEF Table, States, ActiveStates, EndedStates
<1>2. up /\ MemoryOf(t)
  BY <1>1 DEF TasksOK, MemoryOf
<1>3. state'[t] # state[t] /\ state'[t] # "gone" /\ state'[t] # "asking"
  OBVIOUS
<1>4. ASSUME NEW u \in Tasks, StartAsks(u) \/ StartRefused(u) \/ SpawnEvent(u) \/ SpawnError(u)
                              \/ ExitEvent(u) \/ Stop(u) \/ Probe(u)
      PROVE  FALSE
  <2>1. CASE StartAsks(u)
    BY <1>1, <1>3, <2>1 DEF StartAsks, TypeOK
  <2>2. CASE StartRefused(u)
    BY <1>1, <1>3, <2>2 DEF StartRefused, TypeOK
  <2>3. CASE SpawnEvent(u)
    BY <1>1, <1>3, <2>3 DEF SpawnEvent, TypeOK
  <2>4. CASE SpawnError(u)
    BY <1>1, <1>3, <2>4 DEF SpawnError, TypeOK
  <2>5. CASE ExitEvent(u)
    <3>1. PICK ended : state' = [state EXCEPT ![u] = ended] /\ state[u] \in ActiveStates
      BY <2>5 DEF ExitEvent
    <3> QED
      BY <1>1, <1>3, <3>1 DEF TypeOK
  <2>6. CASE Stop(u)
    BY <1>1, <1>3, <2>6 DEF Stop, TypeOK
  <2>7. CASE Probe(u)
    <3>1. PICK now : state' = [state EXCEPT ![u] = now] /\ state[u] \in ActiveStates
      BY <2>7 DEF Probe
    <3> QED
      BY <1>1, <1>3, <3>1 DEF TypeOK
  <2> QED
    BY <1>4, <2>1, <2>2, <2>3, <2>4, <2>5, <2>6, <2>7
<1>5. ASSUME NEW u \in Tasks, \/ KillTimer(u) \/ LeaderEnds(u) \/ Forks(u) \/ RestEnds(u)
      PROVE  FALSE
  BY <1>3, <1>5 DEF KillTimer, LeaderEnds, Forks, RestEnds, memory
<1>6. ASSUME NEW s, DiscardSession(s) PROVE FALSE
  BY <1>3, <1>6 DEF DiscardSession
<1>7. ASSUME Crash \/ Quit PROVE FALSE
  BY <1>3, <1>7 DEF Crash, Quit, Forgets
<1>8. ASSUME Restore PROVE FALSE
  BY <1>2, <1>8 DEF Restore
<1>9. ASSUME UNCHANGED vars PROVE FALSE
  BY <1>3, <1>9 DEF vars, memory
<1>10. PICK u \in Tasks : StartSpawns(u)
  BY <1>4, <1>5, <1>6, <1>7, <1>8, <1>9 DEF Next
<1> QED
  BY <1>1, <1>3, <1>10 DEF StartSpawns, TypeOK

LEMMA AddedWithin ==
  ASSUME NEW S, IsFiniteSet(S), NEW t, t \notin S, NEW n \in Nat, Cardinality(S) < n
  PROVE  Cardinality(S \cup {t}) <= n
<1>1. Cardinality(S) \in Nat
  BY FS_CardinalityType
<1>2. Cardinality(S \cup {t}) = Cardinality(S) + 1
  <2>1. Cardinality(S \cup {t}) = IF t \in S THEN Cardinality(S) ELSE Cardinality(S) + 1
    BY FS_AddElement
  <2> QED
    BY <2>1
<1> QED
  BY <1>1, <1>2

\* A task enters the table within both limits, whatever was started while start()
\* awaited the probe of its port (background-tasks.ts, start and its two checks).
THEOREM LimitsHold == Spec => StartsWithinLimits
<1> DEFINE Within(t) ==
             /\ Cardinality({u \in Tasks : state'[u] \in ActiveStates}) <= MaxGlobal
             /\ Cardinality({u \in Tasks : /\ state'[u] \in ActiveStates
                                           /\ SessionOf[u] = SessionOf[t]}) <= MaxPerSession
           WithinAll == \A t \in Tasks : state[t] = "asking" /\ state'[t] = "starting"
                          => Within(t)
<1>1. ASSUME IInv, [Next]_vars PROVE WithinAll
  <2> SUFFICES ASSUME NEW t \in Tasks, state[t] = "asking", state'[t] = "starting"
               PROVE  Within(t)
    OBVIOUS
  <2>1. /\ state' = [state EXCEPT ![t] = "starting"] /\ WithinLimits(t) /\ TypeOK /\ Finite
    BY <1>1, OnlyASpawnStarts, Parts DEF StartSpawns
  <2>2. {u \in Tasks : state'[u] \in ActiveStates} = Active \cup {t}
    BY <2>1 DEF Active, ActiveStates, TypeOK
  <2>3. {u \in Tasks : state'[u] \in ActiveStates /\ SessionOf[u] = SessionOf[t]}
          = OfSession(SessionOf[t]) \cup {t}
    BY <2>1 DEF OfSession, Active, ActiveStates, TypeOK
  <2>4. t \notin Active /\ t \notin OfSession(SessionOf[t])
    BY DEF Active, OfSession, ActiveStates
  <2>5. IsFiniteSet(Active) /\ IsFiniteSet(OfSession(SessionOf[t]))
    <3>1. Active \in SUBSET Table /\ OfSession(SessionOf[t]) \in SUBSET Table
      BY DEF Active, OfSession, Table, States
    <3> QED
      BY <2>1, <3>1, FS_Subset DEF Finite
  <2>6. MaxGlobal \in Nat /\ MaxPerSession \in Nat
    BY BackgroundAssumption DEF BackgroundAssumption
  <2>7. Cardinality(Active \cup {t}) <= MaxGlobal
    BY <2>1, <2>4, <2>5, <2>6, AddedWithin DEF WithinLimits
  <2>8. Cardinality(OfSession(SessionOf[t]) \cup {t}) <= MaxPerSession
    BY <2>1, <2>4, <2>5, <2>6, AddedWithin DEF WithinLimits
  <2> QED
    BY <2>2, <2>3, <2>7, <2>8
<1>2. WithinAll <=>
        \A t \in Tasks : state[t] = "asking" /\ state'[t] = "starting"
          => /\ Cardinality({u \in Tasks : state'[u] \in ActiveStates}) <= MaxGlobal
             /\ Cardinality({u \in Tasks : /\ state'[u] \in ActiveStates
                                           /\ SessionOf[u] = SessionOf[t]}) <= MaxPerSession
  OBVIOUS
<1> HIDE DEF WithinAll
<1>3. IInv /\ [Next]_vars => [WithinAll]_vars
  BY <1>1
<1> QED
  BY <1>2, <1>3, Invariance, PTL DEF Spec, StartsWithinLimits

===============================================================================
