-------------------------- MODULE CheckpointsProofs --------------------------
(***************************************************************************)
(* Proofs about Checkpoints: its types, that a restore is exact or touches *)
(* nothing, and that a checkpoint called complete has its objects.         *)
(***************************************************************************)
EXTENDS Checkpoints, TLAPS

\* A file has nothing beneath it.
Nested(files) == \A p, q \in Paths : <<q, p>> \in Under /\ files[p] # None => files[q] = None

TreesOK ==
  /\ Nested(workspace)
  /\ Nested(taken.files)
  /\ \A m \in Messages : saved[m] # None => Nested(saved[m].files)

\* The run under way: its message is one, and the one it replaces has a complete checkpoint.
RunOK ==
  /\ ~Idle => message \in Messages
  /\ stage \in {"revise", "verify", "restore"} => target # None
  /\ target # None => Complete(target) /\ message # target

\* A restore that nobody disturbed: what is not left is as the checkpoint has it, and
\* beneath a path that is still to be removed there is nothing.
Goal == saved[target].files
Progress ==
  /\ \A p \in Paths : p \notin left => workspace[p] = Goal[p]
  /\ \A p \in ToRemove, q \in Paths : <<q, p>> \in Under => workspace[q] = None

Undisturbed ==
  /\ stage \in {"verify", "refused"} => workspace = before
  /\ stage \in {"verify", "restore"} => Progress
  /\ stage \in {"capture", "write", "running"} /\ target # None => workspace = Goal
  /\ stage = "write" /\ target # None => taken = saved[target]
  /\ stage = "running" /\ target # None => saved[message] = saved[target]

RestoreOK ==
  /\ stage = "restore" => data = ContentsOf(Goal)
  /\ ~disturbed => Undisturbed

\* A cut object is being written or was given up; a run's capture has begun all its
\* objects or has them to write; a complete checkpoint's objects exist; and what the
\* capture under way began, no checkpoint has yet.
ObjectsOK ==
  /\ \A c \in Contents : objects[c] = "cut" =>
       c \in interrupted \/ \E w \in writes : w.content = c /\ w.open
  /\ stage = "write" => \A c \in ContentsOf(taken.files) :
       objects[c] # "none" \/ \E w \in writes : w.content = c /\ ~w.open /\ w.mine
  /\ \A m \in Messages : Complete(m) => \A c \in ContentsOf(saved[m].files) :
       /\ objects[c] # "none"
       /\ \A w \in writes : w.open /\ w.mine => w.content # c

IInv == TypeOK /\ TreesOK /\ RunOK /\ RestoreOK /\ ObjectsOK

------------------------------------------------------------------------------
(***************************************************************************)
(* The workspace.                                                          *)
(***************************************************************************)

LEMMA Parts == IInv => TypeOK /\ TreesOK /\ RunOK /\ RestoreOK /\ ObjectsOK
  BY DEF IInv

\* What Put leaves at a path.
LEMMA PutAt ==
  ASSUME NEW p \in Paths, NEW v, workspace' = Put(p, v)
  PROVE  \A q \in Paths :
           /\ q = p => workspace'[q] = v
           /\ q # p /\ <<q, p>> \in Under => workspace'[q] = None
           /\ q # p /\ v # None /\ <<p, q>> \in Under => workspace'[q] = None
           /\ q # p /\ <<q, p>> \notin Under /\ (v = None \/ <<p, q>> \notin Under)
                => workspace'[q] = workspace[q]
<1> SUFFICES ASSUME NEW q \in Paths
             PROVE  /\ q = p => workspace'[q] = v
                    /\ q # p /\ <<q, p>> \in Under => workspace'[q] = None
                    /\ q # p /\ v # None /\ <<p, q>> \in Under => workspace'[q] = None
                    /\ q # p /\ <<q, p>> \notin Under /\ (v = None \/ <<p, q>> \notin Under)
                         => workspace'[q] = workspace[q]
  OBVIOUS
<1>1. workspace'[q] = CASE q = p -> v
                   [] <<q, p>> \in Under -> None
                   [] v # None /\ <<p, q>> \in Under -> None
                   [] OTHER -> workspace[q]
  BY DEF Put
<1>2. CASE q = p
  BY <1>1, <1>2, PathsAssumption DEF PathsAssumption
<1>3. CASE q # p /\ <<q, p>> \in Under
  BY <1>1, <1>3
<1>4. CASE q # p /\ v # None /\ <<p, q>> \in Under
  BY <1>1, <1>4
<1>5. CASE q # p /\ <<q, p>> \notin Under /\ (v = None \/ <<p, q>> \notin Under)
  BY <1>1, <1>5
<1> QED
  BY <1>2, <1>3, <1>4, <1>5

\* A tree stays a tree.
LEMMA PutKeeps ==
  ASSUME TypeOK, Nested(workspace), NEW p \in Paths, NEW v \in Nodes, workspace' = Put(p, v)
  PROVE  workspace' \in [Paths -> Nodes] /\ Nested(workspace)'
<1>1. \A q \in Paths : workspace'[q] = v \/ workspace'[q] = None \/ workspace'[q] = workspace[q]
  BY PutAt
<1>2. workspace' \in [Paths -> Nodes]
  <2>1. workspace' = [q \in Paths |-> workspace'[q]]
    BY DEF Put
  <2>2. \A q \in Paths : workspace'[q] \in Nodes
    BY <1>1 DEF TypeOK, Nodes
  <2> QED
    BY <2>1, <2>2
<1>3. ASSUME NEW a \in Paths, NEW b \in Paths, <<b, a>> \in Under, workspace'[a] # None
      PROVE  workspace'[b] = None
  <2>1. a # b
    BY <1>3, PathsAssumption DEF PathsAssumption
  <2>2. CASE a = p
    BY <1>3, <2>1, <2>2, PutAt
  <2>3. CASE b = p
    <3>1. v = None \/ workspace'[a] = None
      BY <1>3, <2>1, <2>3, PutAt
    <3>2. workspace'[b] = v
      BY <2>3, PutAt
    <3> QED
      BY <1>3, <3>1, <3>2
  <2>4. CASE a # p /\ b # p
    <3>1. workspace'[a] = workspace[a]
      BY <1>3, <2>4, PutAt
    <3>2. workspace[b] = None
      BY <1>3, <3>1 DEF Nested
    <3> QED
      BY <2>4, <3>2, PutAt
  <2> QED
    BY <2>2, <2>3, <2>4
<1> QED
  BY <1>2, <1>3 DEF Nested

\* What a checkpoint holds.
LEMMA GoalType ==
  ASSUME TypeOK, RunOK, target # None
  PROVE  /\ target \in Messages /\ saved[target] \in Checkpoint /\ saved[target].complete
         /\ Goal \in [Paths -> Nodes \ {Odd}] /\ saved[target] # None
<1>1. target \in Messages /\ saved[target] # None /\ saved[target].complete
  BY DEF TypeOK, RunOK, Complete
<1>2. saved[target] \in Checkpoint
  BY <1>1 DEF TypeOK
<1> QED
  BY <1>1, <1>2 DEF Checkpoint, Goal

------------------------------------------------------------------------------
(***************************************************************************)
(* Object writes.                                                          *)
(***************************************************************************)

LEMMA WriteParts ==
  ASSUME NEW w \in Write, NEW b \in BOOLEAN
  PROVE  /\ w.content \in Contents /\ w.open \in BOOLEAN /\ w.mine \in BOOLEAN
         /\ [w EXCEPT !.mine = b] \in Write /\ [w EXCEPT !.mine = b].content = w.content
         /\ [w EXCEPT !.mine = b].open = w.open /\ [w EXCEPT !.mine = b].mine = b
         /\ [w EXCEPT !.open = b] \in Write /\ [w EXCEPT !.open = b].content = w.content
         /\ [w EXCEPT !.open = b].open = b /\ [w EXCEPT !.open = b].mine = w.mine
  BY DEF Write

\* A step that has nothing to do with objects and begins no capture.
LEMMA ObjectsUnmoved ==
  ASSUME ObjectsOK, UNCHANGED <<objects, writes, saved, taken, interrupted>>,
         stage' = "write" => stage = "write"
  PROVE  ObjectsOK'
  BY DEF ObjectsOK, Complete

\* The capture is over, and the writes it leaves go on without it.
LEMMA WritesLetGo ==
  ASSUME TypeOK, ObjectsOK, NEW W \in SUBSET writes,
         writes' = {[o EXCEPT !.mine = FALSE] : o \in W},
         \A w \in writes \ W : w.open => w.content \in interrupted',
         interrupted \subseteq interrupted',
         stage' # "write", UNCHANGED <<objects, saved>>
  PROVE  writes' \subseteq Write /\ ObjectsOK'
<1>1. \A o \in W : /\ [o EXCEPT !.mine = FALSE] \in Write
                   /\ [o EXCEPT !.mine = FALSE].content = o.content
                   /\ [o EXCEPT !.mine = FALSE].open = o.open
                   /\ [o EXCEPT !.mine = FALSE].mine = FALSE
  BY WriteParts DEF TypeOK
<1>2. writes' \subseteq Write /\ \A w \in writes' : ~w.mine
  BY <1>1
<1>3. ASSUME NEW c \in Contents, objects[c] = "cut"
      PROVE  c \in interrupted' \/ \E w \in writes' : w.content = c /\ w.open
  <2>1. CASE c \in interrupted
    BY <2>1
  <2>2. CASE \E w \in writes : w.content = c /\ w.open
    <3>1. PICK w \in writes : w.content = c /\ w.open
      BY <2>2
    <3>2. CASE w \in W
      BY <1>1, <3>1, <3>2
    <3>3. CASE w \notin W
      BY <3>1, <3>3
    <3> QED
      BY <3>2, <3>3
  <2> QED
    BY <1>3, <2>1, <2>2 DEF ObjectsOK
<1>4. ASSUME NEW m \in Messages, Complete(m)', NEW c \in ContentsOf(saved'[m].files)
      PROVE  objects'[c] # "none" /\ \A w \in writes' : w.open /\ w.mine => w.content # c
  <2>1. Complete(m) /\ c \in ContentsOf(saved[m].files)
    BY <1>4 DEF Complete
  <2> QED
    BY <1>2, <2>1 DEF ObjectsOK
<1> QED
  BY <1>2, <1>3, <1>4 DEF ObjectsOK

------------------------------------------------------------------------------
(***************************************************************************)
(* Runs.                                                                   *)
(***************************************************************************)

LEMMA PromptStep == ASSUME IInv, NEW m \in Messages, Prompt(m) PROVE IInv'
<1>1. /\ TypeOK /\ TreesOK /\ RunOK /\ ObjectsOK
      /\ message' = m /\ target' = None /\ stage' = "capture"
      /\ UNCHANGED <<workspace, objects, writes, saved, taken, left, data, before,
                     disturbed, interrupted, edits, faults>>
  BY Parts DEF Prompt
<1>2. TypeOK'
  BY <1>1 DEF TypeOK
<1>3. TreesOK' /\ RunOK'
  BY <1>1 DEF TreesOK, RunOK, Nested, Idle
<1>4. RestoreOK'
  BY <1>1 DEF RestoreOK, Undisturbed
<1>5. ObjectsOK'
  BY <1>1, ObjectsUnmoved
<1> QED
  BY <1>2, <1>3, <1>4, <1>5 DEF IInv

LEMMA ReviseStep == ASSUME IInv, NEW m \in Messages, NEW t \in Messages, Revise(m, t) PROVE IInv'
<1>1. /\ TypeOK /\ TreesOK /\ RunOK /\ ObjectsOK
      /\ m # t /\ saved[t] # None /\ saved[t].complete
      /\ message' = m /\ target' = t /\ stage' = "revise"
      /\ UNCHANGED <<workspace, objects, writes, saved, taken, left, data, before,
                     disturbed, interrupted, edits, faults>>
  BY Parts DEF Revise
<1>2. TypeOK'
  BY <1>1 DEF TypeOK
<1>3. TreesOK' /\ RunOK'
  BY <1>1, NodesAssumption DEF TreesOK, RunOK, Nested, Complete, NodesAssumption
<1>4. RestoreOK'
  BY <1>1 DEF RestoreOK, Undisturbed
<1>5. ObjectsOK'
  BY <1>1, ObjectsUnmoved
<1> QED
  BY <1>2, <1>3, <1>4, <1>5 DEF IInv

LEMMA RunEndsStep == ASSUME IInv, RunEnds PROVE IInv'
<1>1. /\ TypeOK /\ TreesOK /\ RunOK /\ ObjectsOK /\ stage' = "idle"
      /\ UNCHANGED <<workspace, objects, writes, saved, message, target, taken, left, data,
                     before, disturbed, interrupted, edits, faults>>
  BY Parts DEF RunEnds
<1>2. TypeOK'
  BY <1>1 DEF TypeOK
<1>3. TreesOK' /\ RunOK'
  BY <1>1 DEF TreesOK, RunOK, Nested, Idle, Complete
<1>4. RestoreOK'
  BY <1>1 DEF RestoreOK, Undisturbed
<1>5. ObjectsOK'
  BY <1>1, ObjectsUnmoved
<1> QED
  BY <1>2, <1>3, <1>4, <1>5 DEF IInv

LEMMA EditStep == ASSUME IInv, NEW p \in Paths, NEW v \in Nodes, Edit(p, v) PROVE IInv'
<1>1. /\ TypeOK /\ TreesOK /\ RunOK /\ RestoreOK /\ ObjectsOK /\ edits < MaxEdits
      /\ edits' = edits + 1 /\ workspace' = Put(p, v) /\ disturbed' = TRUE
      /\ UNCHANGED <<objects, writes, saved, stage, message, target, taken, left, data,
                     before, interrupted, faults>>
  BY Parts DEF Edit
<1>2. workspace' \in [Paths -> Nodes] /\ Nested(workspace)'
  BY <1>1, PutKeeps DEF TreesOK
<1>3. TypeOK'
  BY <1>1, <1>2, BoundsAssumption DEF TypeOK, BoundsAssumption
<1>4. TreesOK'
  BY <1>1, <1>2 DEF TreesOK, Nested
<1>5. RunOK'
  BY <1>1 DEF RunOK, Idle, Complete
<1>6. RestoreOK'
  BY <1>1 DEF RestoreOK, Goal
<1>7. ObjectsOK'
  BY <1>1, ObjectsUnmoved
<1> QED
  BY <1>3, <1>4, <1>5, <1>6, <1>7 DEF IInv

------------------------------------------------------------------------------
(***************************************************************************)
(* The restore.                                                            *)
(***************************************************************************)

LEMMA RestoreScanStep == ASSUME IInv, RestoreScan PROVE IInv'
<1>1. /\ TypeOK /\ TreesOK /\ RunOK /\ ObjectsOK /\ stage = "revise"
      /\ before' = workspace /\ disturbed' = FALSE
      /\ left' = {p \in Paths : workspace[p] # Goal[p]}
      /\ stage' \in {"verify", "refused"}
      /\ UNCHANGED <<workspace, objects, writes, saved, message, target, taken, data,
                     interrupted, edits, faults>>
  BY Parts DEF RestoreScan, Goal
<1>2. TypeOK'
  BY <1>1 DEF TypeOK
<1>3. TreesOK' /\ RunOK'
  BY <1>1 DEF TreesOK, RunOK, Nested, Idle, Complete
<1>4. Goal' = Goal /\ ToRemove' = {p \in left' : Goal[p] = None}
  BY <1>1 DEF Goal, ToRemove
<1>5. Progress'
  <2>1. \A p \in Paths : p \notin left' => workspace'[p] = Goal'[p]
    BY <1>1, <1>4
  <2>2. \A p \in ToRemove', q \in Paths : <<q, p>> \in Under => workspace'[q] = None
    BY <1>1, <1>4 DEF TreesOK, Nested
  <2> QED
    BY <2>1, <2>2 DEF Progress
<1>6. RestoreOK'
  BY <1>1, <1>5 DEF RestoreOK, Undisturbed
<1>7. ObjectsOK'
  BY <1>1, ObjectsUnmoved
<1> QED
  BY <1>2, <1>3, <1>6, <1>7 DEF IInv

LEMMA VerifyStep == ASSUME IInv, Verify PROVE IInv'
<1>1. /\ TypeOK /\ TreesOK /\ RunOK /\ RestoreOK /\ ObjectsOK /\ stage = "verify"
      /\ data' \subseteq ContentsOf(Goal)
      /\ stage' \in {"restore", "refused"} /\ (stage' = "restore" => data' = ContentsOf(Goal))
      /\ UNCHANGED <<workspace, objects, writes, saved, message, target, taken, left,
                     before, disturbed, interrupted, edits, faults>>
  BY Parts DEF Verify, Goal
<1>2. TypeOK'
  BY <1>1 DEF TypeOK, ContentsOf
<1>3. TreesOK' /\ RunOK'
  BY <1>1 DEF TreesOK, RunOK, Nested, Idle, Complete
<1>4. Goal' = Goal /\ ToRemove' = ToRemove /\ (Progress => Progress')
  BY <1>1 DEF Goal, ToRemove, Progress
<1>5. RestoreOK'
  BY <1>1, <1>4 DEF RestoreOK, Undisturbed, ContentsOf
<1>6. ObjectsOK'
  BY <1>1, ObjectsUnmoved
<1> QED
  BY <1>2, <1>3, <1>5, <1>6 DEF IInv

\* Deepest first: what lies beneath the path, and is not left, is not in the checkpoint.
LEMMA RemoveStep == ASSUME IInv, NEW p \in Paths, RemovePath(p) PROVE IInv'
<1>1. /\ TypeOK /\ TreesOK /\ RunOK /\ RestoreOK /\ ObjectsOK /\ stage = "restore"
      /\ p \in ToRemove /\ workspace' = Put(p, None) /\ left' = left \ {p}
      /\ UNCHANGED <<objects, writes, saved, stage, message, target, taken, data, before,
                     disturbed, interrupted, edits, faults>>
  BY Parts DEF RemovePath
<1>2. workspace' \in [Paths -> Nodes] /\ Nested(workspace)'
  BY <1>1, PutKeeps DEF TreesOK, Nodes
<1>3. TypeOK'
  BY <1>1, <1>2 DEF TypeOK
<1>4. TreesOK' /\ RunOK'
  BY <1>1, <1>2 DEF TreesOK, RunOK, Nested, Idle, Complete
<1>5. Goal' = Goal /\ ToRemove' = ToRemove \ {p} /\ Goal[p] = None
  BY <1>1 DEF Goal, ToRemove
<1>6. ASSUME Progress PROVE Progress'
  <2>1. ASSUME NEW q \in Paths, q \notin left' PROVE workspace'[q] = Goal'[q]
    <3>1. CASE q = p
      BY <1>1, <1>5, <3>1, PutAt
    <3>2. CASE q # p
      <4>1. workspace[q] = Goal[q] /\ (<<q, p>> \in Under => workspace[q] = None)
        BY <1>1, <1>6, <2>1, <3>2 DEF Progress
      <4> QED
        BY <1>1, <1>5, <3>2, <4>1, PutAt
    <3> QED
      BY <3>1, <3>2
  <2>2. ASSUME NEW r \in ToRemove', NEW q \in Paths, <<q, r>> \in Under PROVE workspace'[q] = None
    <3>1. workspace[q] = None
      BY <1>5, <1>6, <2>2 DEF Progress
    <3> QED
      BY <1>1, <3>1, PutAt
  <2> QED
    BY <2>1, <2>2 DEF Progress
<1>7. RestoreOK'
  BY <1>1, <1>5, <1>6 DEF RestoreOK, Undisturbed, ContentsOf
<1>8. ObjectsOK'
  BY <1>1, ObjectsUnmoved
<1> QED
  BY <1>3, <1>4, <1>7, <1>8 DEF IInv

\* Shallowest first: what must give way to the path is not in the checkpoint.
LEMMA PlaceStep == ASSUME IInv, NEW p \in Paths, PlacePath(p) PROVE IInv'
<1>1. /\ TypeOK /\ TreesOK /\ RunOK /\ RestoreOK /\ ObjectsOK
      /\ stage = "restore" /\ ToRemove = {} /\ p \in left
      /\ left' = left \ {p} /\ data = ContentsOf(Goal)
      /\ UNCHANGED <<objects, writes, saved, message, target, taken, data, before,
                     disturbed, interrupted, edits, faults>>
  BY Parts DEF PlacePath, MayPlace, RestoreOK
<1>2. /\ target # None /\ Goal \in [Paths -> Nodes \ {Odd}] /\ Nested(Goal)
      /\ Goal[p] # None /\ Goal[p] \in Nodes
  <2>1. target # None
    BY <1>1 DEF RunOK
  <2>2. target \in Messages /\ saved[target] # None /\ Goal \in [Paths -> Nodes \ {Odd}]
    BY <1>1, <2>1, GoalType
  <2>3. Nested(Goal)
    BY <1>1, <2>2 DEF TreesOK, Goal
  <2>4. Goal[p] # None
    BY <1>1 DEF ToRemove, Goal
  <2> QED
    BY <2>1, <2>2, <2>3, <2>4
<1>3. Goal[p] = Link \/ Goal[p] \in data
  <2>1. Goal[p] = Link \/ Goal[p] \in Contents
    BY <1>2 DEF Nodes
  <2> QED
    BY <1>1, <2>1 DEF ContentsOf
<1>4. workspace' = Put(p, Goal[p]) /\ stage' = stage
  BY <1>3 DEF PlacePath, Goal
<1>5. workspace' \in [Paths -> Nodes] /\ Nested(workspace)'
  BY <1>1, <1>2, <1>4, PutKeeps DEF TreesOK
<1>6. TypeOK'
  BY <1>1, <1>4, <1>5 DEF TypeOK
<1>7. TreesOK' /\ RunOK'
  BY <1>1, <1>4, <1>5 DEF TreesOK, RunOK, Nested, Idle, Complete
<1>8. Goal' = Goal /\ ToRemove' = {}
  BY <1>1 DEF Goal, ToRemove
<1>9. ASSUME Progress PROVE Progress'
  <2>1. ASSUME NEW q \in Paths, q \notin left' PROVE workspace'[q] = Goal[q]
    <3>1. CASE q = p
      BY <1>4, <3>1, PutAt
    <3>2. CASE q # p
      <4>1. workspace[q] = Goal[q]
        BY <1>1, <1>9, <2>1, <3>2 DEF Progress
      <4>2. <<q, p>> \in Under \/ <<p, q>> \in Under => Goal[q] = None
        BY <1>2 DEF Nested
      <4> QED
        BY <1>2, <1>4, <3>2, <4>1, <4>2, PutAt
    <3> QED
      BY <3>1, <3>2
  <2> QED
    BY <1>8, <2>1 DEF Progress
<1>10. RestoreOK'
  BY <1>1, <1>4, <1>8, <1>9 DEF RestoreOK, Undisturbed, ContentsOf
<1>11. ObjectsOK'
  BY <1>1, <1>4, ObjectsUnmoved
<1> QED
  BY <1>6, <1>7, <1>10, <1>11 DEF IInv

\* A run that ends in an error.
LEMMA FailedStep ==
  ASSUME TypeOK, RunOK, ObjectsOK, Failed, UNCHANGED <<objects, saved, message, target, interrupted>>
  PROVE  /\ stage' = "idle" /\ writes' \subseteq Write
         /\ RunOK' /\ RestoreOK' /\ ObjectsOK'
<1>1. /\ stage' = "idle" /\ writes' = {[o EXCEPT !.mine = FALSE] : o \in writes}
      /\ writes \in SUBSET writes
  BY DEF Failed
<1>2. writes' \subseteq Write /\ ObjectsOK'
  BY <1>1, WritesLetGo
<1>3. RunOK'
  BY <1>1 DEF RunOK, Idle, Complete
<1>4. RestoreOK'
  BY <1>1 DEF RestoreOK, Undisturbed
<1> QED
  BY <1>1, <1>2, <1>3, <1>4

LEMMA PlaceFailsStep ==
  ASSUME IInv, NEW p \in Paths, NEW v \in Contents \cup {None}, PlaceFails(p, v)
  PROVE  IInv'
<1>1. /\ TypeOK /\ TreesOK /\ RunOK /\ RestoreOK /\ ObjectsOK
      /\ faults < MaxFaults /\ faults' = faults + 1 /\ workspace' = Put(p, v) /\ Failed
      /\ UNCHANGED <<objects, saved, message, target, taken, left, data, before, disturbed,
                     interrupted, edits>>
  BY Parts DEF PlaceFails
<1>2. workspace' \in [Paths -> Nodes] /\ Nested(workspace)'
  BY <1>1, PutKeeps DEF TreesOK, Nodes
<1>3. stage' = "idle" /\ writes' \subseteq Write /\ RunOK' /\ RestoreOK' /\ ObjectsOK'
  BY <1>1, FailedStep
<1>4. TypeOK'
  BY <1>1, <1>2, <1>3, BoundsAssumption DEF TypeOK, BoundsAssumption
<1>5. TreesOK'
  BY <1>1, <1>2 DEF TreesOK, Nested
<1> QED
  BY <1>3, <1>4, <1>5 DEF IInv

\* Nothing is left, so the workspace is as the checkpoint has it.
LEMMA RestoredStep == ASSUME IInv, Restored PROVE IInv'
<1>1. /\ TypeOK /\ TreesOK /\ RunOK /\ RestoreOK /\ ObjectsOK
      /\ stage = "restore" /\ left = {} /\ stage' = "capture" /\ target # None
      /\ UNCHANGED <<workspace, objects, writes, saved, message, target, taken, left, data,
                     before, disturbed, interrupted, edits, faults>>
  BY Parts DEF Restored, RunOK
<1>2. TypeOK'
  BY <1>1 DEF TypeOK
<1>3. TreesOK' /\ RunOK'
  BY <1>1 DEF TreesOK, RunOK, Nested, Idle, Complete
<1>4. ASSUME ~disturbed PROVE workspace = Goal
  <2>1. Goal \in [Paths -> Nodes \ {Odd}] /\ workspace \in [Paths -> Nodes]
    BY <1>1, GoalType DEF TypeOK
  <2>2. \A p \in Paths : workspace[p] = Goal[p]
    BY <1>1, <1>4 DEF RestoreOK, Undisturbed, Progress
  <2> QED
    BY <2>1, <2>2
<1>5. Goal' = Goal
  BY <1>1 DEF Goal
<1>6. RestoreOK'
  BY <1>1, <1>4, <1>5 DEF RestoreOK, Undisturbed
<1>7. ObjectsOK'
  BY <1>1, ObjectsUnmoved
<1> QED
  BY <1>2, <1>3, <1>6, <1>7 DEF IInv

------------------------------------------------------------------------------
(***************************************************************************)
(* The capture.                                                            *)
(***************************************************************************)

\* What a scan takes is a checkpoint, and the whole workspace when it skipped nothing.
LEMMA CheckpointType ==
  ASSUME NEW files \in [Paths -> Nodes \ {Odd}], NEW b \in BOOLEAN, NEW t,
         t = [complete |-> b, files |-> files]
  PROVE  t \in Checkpoint /\ t.files = files
  BY DEF Checkpoint

LEMMA ScanTakes ==
  ASSUME TypeOK, TreesOK,
         NEW t, t = IF ScanComplete THEN [complete |-> TRUE, files |-> workspace] ELSE Partial
  PROVE  t \in Checkpoint /\ Nested(t.files)
<1>1. CASE ScanComplete
  <2>1. workspace \in [Paths -> Nodes \ {Odd}]
    BY <1>1 DEF TypeOK, ScanComplete
  <2>2. t = [complete |-> TRUE, files |-> workspace]
    BY <1>1
  <2>3. t \in Checkpoint /\ t.files = workspace
    BY <2>1, <2>2, CheckpointType
  <2> QED
    BY <2>3 DEF TreesOK
<1>2. CASE ~ScanComplete
  <2>1. PICK none : none = [p \in Paths |-> None]
    OBVIOUS
  <2>2. t = [complete |-> FALSE, files |-> none]
    BY <1>2, <2>1 DEF Partial
  <2>3. none \in [Paths -> Nodes \ {Odd}]
    BY <2>1, NodesAssumption DEF NodesAssumption, Nodes
  <2>4. t \in Checkpoint /\ t.files = none
    BY <2>2, <2>3, CheckpointType
  <2> QED
    BY <2>1, <2>4 DEF Nested
<1> QED
  BY <1>1, <1>2

LEMMA CaptureScanStep == ASSUME IInv, CaptureScan PROVE IInv'
<1>1. /\ TypeOK /\ TreesOK /\ RunOK /\ RestoreOK /\ ObjectsOK /\ stage = "capture"
      /\ taken' = IF ScanComplete THEN [complete |-> TRUE, files |-> workspace] ELSE Partial
      /\ writes' = writes \cup [content : ContentsOf(taken'.files), open : {FALSE}, mine : {TRUE}]
      /\ stage' = "write"
      /\ UNCHANGED <<workspace, objects, saved, message, target, left, data, before,
                     disturbed, interrupted, edits, faults>>
  BY Parts DEF CaptureScan
<1>2. PICK t : t = IF ScanComplete THEN [complete |-> TRUE, files |-> workspace] ELSE Partial
  OBVIOUS
<1>3. taken' = t /\ t \in Checkpoint /\ Nested(t.files)
  BY <1>1, <1>2, ScanTakes
<1>4. \A c \in ContentsOf(t.files) : c \in Contents
  BY DEF ContentsOf
<1>5. TypeOK'
  <2>1. writes' \subseteq Write
    BY <1>1, <1>3, <1>4 DEF TypeOK, Write
  <2> QED
    BY <1>1, <1>3, <2>1 DEF TypeOK
<1>6. TreesOK' /\ RunOK'
  BY <1>1, <1>3 DEF TreesOK, RunOK, Nested, Idle, Complete
<1>7. RestoreOK'
  <2>1. Goal' = Goal
    BY <1>1 DEF Goal
  <2>2. ASSUME ~disturbed, target # None PROVE workspace = Goal /\ t = saved[target]
    <3>1. workspace = Goal
      BY <1>1, <2>2 DEF RestoreOK, Undisturbed
    <3>2. Goal \in [Paths -> Nodes \ {Odd}] /\ saved[target] \in Checkpoint /\ saved[target].complete
      BY <1>1, <2>2, GoalType
    <3>3. ScanComplete
      BY <3>1, <3>2 DEF ScanComplete
    <3>4. saved[target] = [complete |-> saved[target].complete, files |-> saved[target].files]
          /\ saved[target].complete = TRUE
      BY <3>2 DEF Checkpoint
    <3>5. saved[target] = [complete |-> TRUE, files |-> workspace]
      BY <3>1, <3>4 DEF Goal
    <3> QED
      BY <1>2, <3>1, <3>3, <3>5
  <2> QED
    BY <1>1, <1>3, <2>1, <2>2 DEF RestoreOK, Undisturbed
<1>8. ObjectsOK'
  <2>1. \A w \in writes' : w \in writes \/ (w.open = FALSE /\ w.mine = TRUE)
    BY <1>1
  <2>2. ASSUME NEW c \in ContentsOf(t.files)
        PROVE  \E w \in writes' : w.content = c /\ ~w.open /\ w.mine
    <3>1. [content |-> c, open |-> FALSE, mine |-> TRUE] \in writes'
      BY <1>1, <1>3, <2>2
    <3> QED
      BY <3>1
  <2>3. \A c \in Contents : objects'[c] = "cut" =>
          c \in interrupted' \/ \E w \in writes' : w.content = c /\ w.open
    BY <1>1 DEF ObjectsOK
  <2>4. \A m \in Messages : Complete(m)' => \A c \in ContentsOf(saved'[m].files) :
          /\ objects'[c] # "none"
          /\ \A w \in writes' : w.open /\ w.mine => w.content # c
    BY <1>1, <2>1 DEF ObjectsOK, Complete
  <2>5. \A c \in ContentsOf(taken'.files) : \E w \in writes' : w.content = c /\ ~w.open /\ w.mine
    BY <1>3, <2>2
  <2> QED
    BY <2>3, <2>4, <2>5 DEF ObjectsOK
<1> QED
  BY <1>5, <1>6, <1>7, <1>8 DEF IInv

\* Opened for exclusive creation: what the capture begins, no checkpoint had.
LEMMA OpenStep == ASSUME IInv, NEW w \in writes, OpenObject(w) PROVE IInv'
<1>1. /\ TypeOK /\ TreesOK /\ RunOK /\ RestoreOK /\ ObjectsOK /\ ~w.open /\ w \in Write
      /\ objects' = [objects EXCEPT ![w.content] = IF @ = "none" THEN "cut" ELSE @]
      /\ writes' = (writes \ {w}) \cup
                   IF objects[w.content] = "none" THEN {[w EXCEPT !.open = TRUE]} ELSE {}
      /\ UNCHANGED <<workspace, saved, stage, message, target, taken, left, data, before,
                     disturbed, interrupted, edits, faults>>
  BY Parts DEF OpenObject, TypeOK
<1>2. PICK o \in Write : /\ o = [w EXCEPT !.open = TRUE] /\ o.content = w.content
                         /\ o.open = TRUE /\ o.mine = w.mine
  BY <1>1, WriteParts
<1>3. /\ \A x \in writes' : (x \in writes /\ x # w) \/ (x = o /\ objects[w.content] = "none")
      /\ \A x \in writes : x # w => x \in writes'
      /\ objects[w.content] = "none" => o \in writes'
      /\ w.content \in Contents
  BY <1>1, <1>2 DEF Write
<1>4. /\ objects' \in [Contents -> {"none", "cut", "whole"}]
      /\ objects'[w.content] # "none"
      /\ \A c \in Contents : \/ objects'[c] = objects[c]
                             \/ c = w.content /\ objects[c] = "none" /\ objects'[c] = "cut"
  BY <1>1, <1>3 DEF TypeOK
<1>5. TypeOK'
  <2>1. writes' \subseteq Write
    BY <1>1, <1>2, <1>3 DEF TypeOK
  <2> QED
    BY <1>1, <1>4, <2>1 DEF TypeOK
<1>6. TreesOK' /\ RunOK'
  BY <1>1 DEF TreesOK, RunOK, Nested, Idle, Complete
<1>7. RestoreOK'
  BY <1>1 DEF RestoreOK, Undisturbed, Progress, ToRemove, Goal, ContentsOf
<1>8. ASSUME NEW c \in Contents, objects'[c] = "cut"
      PROVE  c \in interrupted' \/ \E x \in writes' : x.content = c /\ x.open
  <2>1. CASE objects[c] = "none"
    BY <1>2, <1>3, <1>4, <1>8, <2>1
  <2>2. CASE objects[c] # "none"
    <3>1. objects[c] = "cut"
      BY <1>4, <1>8, <2>2
    <3>2. c \in interrupted \/ \E x \in writes : x.content = c /\ x.open
      BY <1>1, <3>1 DEF ObjectsOK
    <3> QED
      BY <1>1, <1>3, <3>2
  <2> QED
    BY <2>1, <2>2
<1>9. ASSUME stage' = "write", NEW c \in ContentsOf(taken'.files)
      PROVE  objects'[c] # "none" \/ \E x \in writes' : x.content = c /\ ~x.open /\ x.mine
  <2>1. /\ stage = "write" /\ c \in Contents
        /\ objects[c] # "none" \/ \E x \in writes : x.content = c /\ ~x.open /\ x.mine
    BY <1>1, <1>9 DEF ObjectsOK, ContentsOf
  <2>2. CASE c = w.content
    BY <1>4, <2>2
  <2>3. CASE c # w.content
    BY <1>3, <1>4, <2>1, <2>3
  <2> QED
    BY <2>2, <2>3
<1>10. ASSUME NEW m \in Messages, Complete(m)', NEW c \in ContentsOf(saved'[m].files)
       PROVE  objects'[c] # "none" /\ \A x \in writes' : x.open /\ x.mine => x.content # c
  <2>1. /\ c \in Contents /\ objects[c] # "none"
        /\ \A x \in writes : x.open /\ x.mine => x.content # c
    BY <1>1, <1>10 DEF ObjectsOK, ContentsOf, Complete
  <2>2. objects'[c] # "none"
    BY <1>4, <2>1
  <2> QED
    BY <1>2, <1>3, <2>1, <2>2
<1>11. ObjectsOK'
  BY <1>8, <1>9, <1>10 DEF ObjectsOK
<1> QED
  BY <1>5, <1>6, <1>7, <1>11 DEF IInv

LEMMA FinishStep == ASSUME IInv, NEW w \in writes, FinishObject(w) PROVE IInv'
<1>1. /\ TypeOK /\ TreesOK /\ RunOK /\ RestoreOK /\ ObjectsOK /\ w.open /\ w.content \in Contents
      /\ objects' = [objects EXCEPT ![w.content] = "whole"] /\ writes' = writes \ {w}
      /\ UNCHANGED <<workspace, saved, stage, message, target, taken, left, data, before,
                     disturbed, interrupted, edits, faults>>
  BY Parts DEF FinishObject, TypeOK, Write
<1>2. TypeOK'
  BY <1>1 DEF TypeOK
<1>3. TreesOK' /\ RunOK'
  BY <1>1 DEF TreesOK, RunOK, Nested, Idle, Complete
<1>4. RestoreOK'
  BY <1>1 DEF RestoreOK, Undisturbed, Progress, ToRemove, Goal, ContentsOf
<1>5. \A c \in Contents : objects'[c] = IF c = w.content THEN "whole" ELSE objects[c]
  BY <1>1 DEF TypeOK
<1>6. ASSUME NEW c \in Contents, objects'[c] = "cut"
      PROVE  c \in interrupted' \/ \E x \in writes' : x.content = c /\ x.open
  <2>1. c # w.content /\ objects[c] = "cut"
    BY <1>5, <1>6
  <2>2. c \in interrupted \/ \E x \in writes : x.content = c /\ x.open
    BY <1>1, <2>1 DEF ObjectsOK
  <2> QED
    BY <1>1, <2>1, <2>2
<1>7. ASSUME stage' = "write", NEW c \in ContentsOf(taken'.files)
      PROVE  objects'[c] # "none" \/ \E x \in writes' : x.content = c /\ ~x.open /\ x.mine
  <2>1. /\ c \in Contents
        /\ objects[c] # "none" \/ \E x \in writes : x.content = c /\ ~x.open /\ x.mine
    BY <1>1, <1>7 DEF ObjectsOK, ContentsOf
  <2> QED
    BY <1>1, <1>5, <2>1
<1>8. ASSUME NEW m \in Messages, Complete(m)', NEW c \in ContentsOf(saved'[m].files)
      PROVE  objects'[c] # "none" /\ \A x \in writes' : x.open /\ x.mine => x.content # c
  <2>1. /\ c \in Contents /\ objects[c] # "none"
        /\ \A x \in writes : x.open /\ x.mine => x.content # c
    BY <1>1, <1>8 DEF ObjectsOK, ContentsOf, Complete
  <2> QED
    BY <1>1, <1>5, <2>1
<1>9. ObjectsOK'
  BY <1>6, <1>7, <1>8 DEF ObjectsOK
<1> QED
  BY <1>2, <1>3, <1>4, <1>9 DEF IInv

\* A write of the run's own ends the run, one that was left behind ends alone.
LEMMA ObjectFailsStep == ASSUME IInv, NEW w \in writes, ObjectFails(w) PROVE IInv'
<1>1. /\ TypeOK /\ TreesOK /\ RunOK /\ RestoreOK /\ ObjectsOK /\ w.content \in Contents
      /\ faults < MaxFaults /\ faults' = faults + 1
      /\ interrupted' = IF w.open THEN interrupted \cup {w.content} ELSE interrupted
      /\ writes' = IF w.mine THEN {[o EXCEPT !.mine = FALSE] : o \in writes \ {w}}
                             ELSE writes \ {w}
      /\ stage' = IF w.mine THEN "idle" ELSE stage
      /\ UNCHANGED <<workspace, objects, saved, message, target, taken, left, data, before,
                     disturbed, edits>>
  BY Parts DEF ObjectFails, TypeOK, Write
<1>2. interrupted' \subseteq Contents /\ faults' \in 0..MaxFaults
  BY <1>1, BoundsAssumption DEF TypeOK, BoundsAssumption
<1>3. TreesOK'
  BY <1>1 DEF TreesOK, Nested
<1>4. CASE w.mine
  <2>1. /\ stage' = "idle" /\ writes \ {w} \in SUBSET writes
        /\ writes' = {[o EXCEPT !.mine = FALSE] : o \in writes \ {w}}
        /\ interrupted \subseteq interrupted'
        /\ \A x \in writes \ (writes \ {w}) : x.open => x.content \in interrupted'
    BY <1>1, <1>4
  <2>2. writes' \subseteq Write /\ ObjectsOK'
    BY <1>1, <2>1, WritesLetGo
  <2>3. TypeOK'
    BY <1>1, <1>2, <2>1, <2>2 DEF TypeOK
  <2>4. RunOK' /\ RestoreOK'
    BY <1>1, <2>1 DEF RunOK, Idle, Complete, RestoreOK, Undisturbed
  <2> QED
    BY <1>3, <2>2, <2>3, <2>4 DEF IInv
<1>5. CASE ~w.mine
  <2>1. stage' = stage /\ writes' = writes \ {w}
    BY <1>1, <1>5
  <2>2. TypeOK'
    BY <1>1, <1>2, <2>1 DEF TypeOK
  <2>3. RunOK'
    BY <1>1, <2>1 DEF RunOK, Idle, Complete
  <2>4. RestoreOK'
    BY <1>1, <2>1 DEF RestoreOK, Undisturbed, Progress, ToRemove, Goal, ContentsOf
  <2>5. ASSUME NEW c \in Contents, objects'[c] = "cut"
        PROVE  c \in interrupted' \/ \E x \in writes' : x.content = c /\ x.open
    <3>1. c \in interrupted \/ \E x \in writes : x.content = c /\ x.open
      BY <1>1, <2>5 DEF ObjectsOK
    <3> QED
      BY <1>1, <2>1, <3>1
  <2>6. ASSUME stage' = "write", NEW c \in ContentsOf(taken'.files)
        PROVE  objects'[c] # "none" \/ \E x \in writes' : x.content = c /\ ~x.open /\ x.mine
    <3>1. objects[c] # "none" \/ \E x \in writes : x.content = c /\ ~x.open /\ x.mine
      BY <1>1, <2>1, <2>6 DEF ObjectsOK, ContentsOf
    <3> QED
      BY <1>1, <1>5, <2>1, <3>1
  <2>7. \A m \in Messages : Complete(m)' => \A c \in ContentsOf(saved'[m].files) :
          /\ objects'[c] # "none"
          /\ \A x \in writes' : x.open /\ x.mine => x.content # c
    BY <1>1, <2>1 DEF ObjectsOK, ContentsOf, Complete
  <2>8. ObjectsOK'
    BY <2>5, <2>6, <2>7 DEF ObjectsOK
  <2> QED
    BY <1>3, <2>2, <2>3, <2>4, <2>8 DEF IInv
<1> QED
  BY <1>4, <1>5

\* None of the capture's writes is left, so all its objects exist.
LEMMA SaveStep == ASSUME IInv, CaptureSave PROVE IInv'
<1>1. /\ TypeOK /\ TreesOK /\ RunOK /\ RestoreOK /\ ObjectsOK /\ stage = "write"
      /\ \A w \in writes : ~w.mine
      /\ saved' = [saved EXCEPT ![message] = taken] /\ stage' = "running"
      /\ UNCHANGED <<workspace, objects, writes, message, target, taken, left, data, before,
                     disturbed, interrupted, edits, faults>>
  BY Parts DEF CaptureSave
<1>2. /\ message \in Messages /\ taken \in Checkpoint
      /\ saved' \in [Messages -> Checkpoint \cup {None}]
      /\ \A m \in Messages : saved'[m] = IF m = message THEN taken ELSE saved[m]
  BY <1>1 DEF TypeOK, RunOK, Idle
<1>3. TypeOK'
  BY <1>1, <1>2 DEF TypeOK
<1>4. TreesOK'
  BY <1>1, <1>2 DEF TreesOK, Nested
<1>5. target # None => target \in Messages /\ saved'[target] = saved[target]
  BY <1>1, <1>2 DEF TypeOK, RunOK
<1>6. RunOK'
  BY <1>1, <1>2, <1>5 DEF RunOK, Complete
<1>7. RestoreOK'
  BY <1>1, <1>2, <1>5 DEF RestoreOK, Undisturbed, Goal
<1>8. ASSUME NEW m \in Messages, Complete(m)', NEW c \in ContentsOf(saved'[m].files)
      PROVE  objects'[c] # "none" /\ \A w \in writes' : w.open /\ w.mine => w.content # c
  <2>1. CASE m = message
    <3>1. c \in ContentsOf(taken.files)
      BY <1>2, <1>8, <2>1
    <3>2. objects[c] # "none"
      BY <1>1, <3>1 DEF ObjectsOK
    <3> QED
      BY <1>1, <3>2
  <2>2. CASE m # message
    <3>1. Complete(m) /\ c \in ContentsOf(saved[m].files)
      BY <1>2, <1>8, <2>2 DEF Complete
    <3>2. objects[c] # "none"
      BY <1>1, <3>1 DEF ObjectsOK
    <3> QED
      BY <1>1, <3>2
  <2> QED
    BY <2>1, <2>2
<1>9. ObjectsOK'
  BY <1>1, <1>8 DEF ObjectsOK
<1> QED
  BY <1>3, <1>4, <1>6, <1>7, <1>9 DEF IInv

LEMMA SaveFailsStep == ASSUME IInv, SaveFails PROVE IInv'
<1>1. /\ TypeOK /\ TreesOK /\ RunOK /\ RestoreOK /\ ObjectsOK
      /\ faults < MaxFaults /\ faults' = faults + 1 /\ Failed
      /\ UNCHANGED <<workspace, objects, saved, message, target, taken, left, data, before,
                     disturbed, interrupted, edits>>
  BY Parts DEF SaveFails
<1>2. stage' = "idle" /\ writes' \subseteq Write /\ RunOK' /\ RestoreOK' /\ ObjectsOK'
  BY <1>1, FailedStep
<1>3. TypeOK'
  BY <1>1, <1>2, BoundsAssumption DEF TypeOK, BoundsAssumption
<1>4. TreesOK'
  BY <1>1 DEF TreesOK, Nested
<1> QED
  BY <1>2, <1>3, <1>4 DEF IInv

LEMMA CrashStep == ASSUME IInv, Crash PROVE IInv'
<1>1. /\ TypeOK /\ TreesOK /\ RunOK /\ ObjectsOK
      /\ faults < MaxFaults /\ faults' = faults + 1 /\ stage' = "idle" /\ writes' = {}
      /\ interrupted' = interrupted \cup {w.content : w \in {o \in writes : o.open}}
      /\ UNCHANGED <<workspace, objects, saved, message, target, taken, left, data, before,
                     disturbed, edits>>
  BY Parts DEF Crash
<1>2. /\ interrupted' \subseteq Contents /\ interrupted \subseteq interrupted'
      /\ \A w \in writes : w.open => w.content \in interrupted'
  BY <1>1 DEF TypeOK, Write
<1>3. ObjectsOK'
  <2>1. {} \in SUBSET writes /\ writes' = {[o EXCEPT !.mine = FALSE] : o \in {}}
    BY <1>1
  <2>2. \A w \in writes \ {} : w.open => w.content \in interrupted'
    BY <1>2
  <2> QED
    BY <1>1, <1>2, <2>1, <2>2, WritesLetGo
<1>4. TypeOK'
  BY <1>1, <1>2, BoundsAssumption DEF TypeOK, BoundsAssumption
<1>5. TreesOK' /\ RunOK' /\ RestoreOK'
  BY <1>1 DEF TreesOK, Nested, RunOK, Idle, Complete, RestoreOK, Undisturbed
<1> QED
  BY <1>3, <1>4, <1>5 DEF IInv

------------------------------------------------------------------------------
(***************************************************************************)
(* The invariant, and what it says.                                        *)
(***************************************************************************)

LEMMA FirstState == Init => IInv
<1> SUFFICES ASSUME Init PROVE IInv
  OBVIOUS
<1>1. Partial \in Checkpoint /\ Nested(Partial.files)
  <2>1. PICK none : none = [p \in Paths |-> None]
    OBVIOUS
  <2>2. none \in [Paths -> Nodes \ {Odd}]
    BY <2>1, NodesAssumption DEF NodesAssumption, Nodes
  <2>3. PICK t : t = [complete |-> FALSE, files |-> none]
    OBVIOUS
  <2>4. t = Partial /\ t \in Checkpoint /\ t.files = none
    BY <2>1, <2>2, <2>3, CheckpointType DEF Partial
  <2> QED
    BY <2>1, <2>4 DEF Nested
<1>2. TypeOK
  <2>1. workspace \in [Paths -> Nodes] /\ before \in [Paths -> Nodes]
    BY DEF Init, Nodes
  <2>2. saved \in [Messages -> Checkpoint \cup {None}]
    BY DEF Init
  <2>3. objects \in [Contents -> {"none", "cut", "whole"}] /\ taken \in Checkpoint
    BY <1>1 DEF Init
  <2>4. edits \in 0..MaxEdits /\ faults \in 0..MaxFaults
    BY BoundsAssumption DEF Init, BoundsAssumption
  <2>5. /\ writes = {} /\ stage = "idle" /\ message = None /\ target = None /\ left = {}
        /\ data = {} /\ disturbed = FALSE /\ interrupted = {}
    BY DEF Init
  <2> QED
    BY <2>1, <2>2, <2>3, <2>4, <2>5 DEF TypeOK
<1>3. TreesOK
  BY <1>1 DEF Init, TreesOK, Nested
<1>4. RunOK /\ RestoreOK
  <2>1. stage = "idle" /\ target = None
    BY DEF Init
  <2> QED
    BY <2>1 DEF RunOK, RestoreOK, Undisturbed, Idle
<1>5. ObjectsOK
  BY DEF Init, ObjectsOK, Complete
<1> QED
  BY <1>2, <1>3, <1>4, <1>5 DEF IInv

LEMMA EveryStep == ASSUME IInv, [Next]_vars PROVE IInv'
<1>1. CASE RunStep
  BY <1>1, PromptStep, ReviseStep, RunEndsStep DEF RunStep
<1>2. CASE RestoreStep
  BY <1>2, RestoreScanStep, VerifyStep, RestoredStep, RemoveStep, PlaceStep, PlaceFailsStep
     DEF RestoreStep
<1>3. CASE CaptureStep
  BY <1>3, CaptureScanStep, SaveStep, SaveFailsStep, OpenStep, FinishStep, ObjectFailsStep
     DEF CaptureStep
<1>4. CASE Crash
  BY <1>4, CrashStep
<1>5. ASSUME NEW p \in Paths, NEW v \in Nodes, Edit(p, v) PROVE IInv'
  BY <1>5, EditStep
<1>6. CASE UNCHANGED vars
  <2>1. /\ TypeOK /\ TreesOK /\ RunOK /\ RestoreOK /\ ObjectsOK
        /\ UNCHANGED <<workspace, objects, writes, saved, stage, message, target, taken, left,
                       data, before, disturbed, interrupted, edits, faults>>
    BY <1>6, Parts DEF vars
  <2>2. TypeOK' /\ TreesOK' /\ RunOK'
    BY <2>1 DEF TypeOK, TreesOK, Nested, RunOK, Idle, Complete
  <2>3. RestoreOK'
    BY <2>1 DEF RestoreOK, Undisturbed, Progress, ToRemove, Goal, ContentsOf
  <2>4. ObjectsOK'
    BY <2>1, ObjectsUnmoved
  <2> QED
    BY <2>2, <2>3, <2>4 DEF IInv
<1> QED
  BY <1>1, <1>2, <1>3, <1>4, <1>5, <1>6 DEF Next

LEMMA Invariance == Spec => []IInv
<1>1. IInv /\ [Next]_vars => IInv'
  BY EveryStep
<1> QED
  BY <1>1, FirstState, PTL DEF Spec

\* The workspace, the objects, the checkpoints and the run have the shapes the code expects.
THEOREM TypeCorrect == Spec => []TypeOK
<1>1. IInv => TypeOK
  BY DEF IInv
<1> QED
  BY <1>1, Invariance, PTL

\* A restore that nobody disturbed puts every path back or touches none, and the message
\* that replaces the edited one has the same checkpoint (conversation-checkpoints.ts, restore).
THEOREM RestoresExactly == Spec => []RestoreIsExact
<1>1. IInv => RestoreIsExact
  <2> SUFFICES ASSUME IInv, ~disturbed
               PROVE  /\ stage \in {"capture", "write", "running"} /\ target # None
                           => workspace = saved[target].files
                      /\ stage = "running" /\ target # None => saved[message] = saved[target]
                      /\ stage = "refused" => workspace = before
    BY DEF RestoreIsExact
  <2>1. Undisturbed
    BY Parts DEF RestoreOK
  <2> QED
    BY <2>1 DEF Undisturbed, Goal
<1> QED
  BY <1>1, Invariance, PTL

\* A complete checkpoint has its objects, however captures share them, fail and overlap,
\* except what a failure cut off or a rejected capture still writes (capture).
THEOREM CompleteIsWhole == Spec => []AdvertisedIsWhole
<1>1. IInv => AdvertisedIsWhole
  <2> SUFFICES ASSUME IInv, NEW m \in Messages, Complete(m), NEW c \in ContentsOf(saved[m].files),
                      objects[c] # "whole", c \notin interrupted
               PROVE  \E w \in writes : w.content = c /\ w.open /\ ~w.mine
    BY DEF AdvertisedIsWhole
  <2>1. /\ c \in Contents /\ objects[c] # "none" /\ objects[c] \in {"none", "cut", "whole"}
        /\ \A w \in writes : w.open /\ w.mine => w.content # c
    BY Parts DEF ObjectsOK, TypeOK, ContentsOf
  <2>2. \E w \in writes : w.content = c /\ w.open
    BY <2>1, Parts DEF ObjectsOK
  <2> QED
    BY <2>1, <2>2
<1> QED
  BY <1>1, Invariance, PTL

==============================================================================
