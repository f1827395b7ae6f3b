----------------------------- MODULE Checkpoints -----------------------------
(* Conversation checkpoints (src/main/conversation-checkpoints.ts) and the    *)
(* runs that use them (startAgentRun in src/main/index.ts, revisePrompt in    *)
(* src/renderer/src/app.tsx): before a message is given to the agent the      *)
(* files of the workspace are captured, and editing the message later puts    *)
(* them back before the conversation goes on from there.                      *)
(*                                                                            *)
(* One conversation.  A workspace is a path -> content function; directories  *)
(* exist as long as they hold a file, and Under says which paths lie beneath  *)
(* which other.  A scan of the workspace is one step.                         *)
EXTENDS Naturals, FiniteSets

CONSTANTS
    Messages,       \* user messages of the conversation, each with an id of its own
    Paths,          \* the paths a workspace may hold a file at
    Under,          \* <<p, q>>: p lies in the directory q would be
    Contents,       \* what a file may hold: one digest each
    Link,           \* a symbolic link
    Odd,            \* a file no scan can take: too large, unreadable, a socket
    None,           \* nothing there
    MaxEdits,       \* bound on changes made by anyone but a restore
    MaxFaults       \* bound on failing writes and process exits

ASSUME PathsAssumption == Under \subseteq Paths \X Paths /\ \A p \in Paths : <<p, p>> \notin Under
ASSUME BoundsAssumption == MaxEdits \in Nat /\ MaxFaults \in Nat
ASSUME NodesAssumption ==
    /\ Link \notin Contents /\ Odd \notin Contents /\ None \notin Contents
    /\ Link # Odd /\ Link # None /\ Odd # None
    /\ None \notin Messages

VARIABLES
    workspace,      \* path -> what is there
    objects,        \* digest -> the object file: "none", "cut" (begun), "whole"
    writes,         \* object writes under way; a rejected capture leaves some behind
    saved,          \* message -> its checkpoint file, or None
    stage,          \* where the conversation's run is
    message,        \* the message being run
    target,         \* the message it replaces, or None
    taken,          \* the checkpoint being captured
    left,           \* paths the restore has still to remove or to place
    data,           \* contents the restore has read and verified
    before,         \* (history) the workspace the restore scanned
    disturbed,      \* (history) someone changed the workspace since that scan
    interrupted,    \* (history) contents whose object a failure cut off
    edits, faults

vars == <<workspace, objects, writes, saved, stage, message, target, taken, left,
          data, before, disturbed, interrupted, edits, faults>>

Nodes == Contents \cup {Link, Odd, None}
Write == [content : Contents, open : BOOLEAN, mine : BOOLEAN]
Checkpoint == [complete : BOOLEAN, files : [Paths -> Nodes \ {Odd}]]

\* A scan that had to skip something keeps no files.
Partial == [complete |-> FALSE, files |-> [p \in Paths |-> None]]

ScanComplete == \A p \in Paths : workspace[p] # Odd
ContentsOf(files) == {files[p] : p \in Paths} \cap Contents

\* The workspace once p holds v: what lay beneath p is gone, and whatever stood
\* where p's directories must be gives way to them.
Put(p, v) == [q \in Paths |->
    CASE q = p -> v
      [] <<q, p>> \in Under -> None
      [] v # None /\ <<p, q>> \in Under -> None
      [] OTHER -> workspace[q]]

Init ==
    /\ workspace = [p \in Paths |-> None]
    /\ objects = [c \in Contents |-> "none"]
    /\ writes = {}
    /\ saved = [m \in Messages |-> None]
    /\ stage = "idle"
    /\ message = None /\ target = None
    /\ taken = Partial
    /\ left = {} /\ data = {}
    /\ before = [p \in Paths |-> None]
    /\ disturbed = FALSE
    /\ interrupted = {}
    /\ edits = 0 /\ faults = 0

TypeOK ==
    /\ workspace \in [Paths -> Nodes]
    /\ objects \in [Contents -> {"none", "cut", "whole"}]
    /\ writes \subseteq Write
    /\ saved \in [Messages -> Checkpoint \cup {None}]
    /\ stage \in {"idle", "revise", "verify", "restore", "refused", "capture", "write", "running"}
    /\ message \in Messages \cup {None} /\ target \in Messages \cup {None}
    /\ taken \in Checkpoint
    /\ left \subseteq Paths /\ data \subseteq Contents
    /\ before \in [Paths -> Nodes]
    /\ disturbed \in BOOLEAN
    /\ interrupted \subseteq Contents
    /\ edits \in 0..MaxEdits /\ faults \in 0..MaxFaults

------------------------------------------------------------------------------
(* Runs.  A retry carries no message id and captures nothing. *)

Idle == stage \in {"idle", "refused"}

\* The run has ended in an error, or been cut off: what the failed capture was
\* still writing goes on without it.
Failed ==
    /\ stage' = "idle"
    /\ writes' = {[w EXCEPT !.mine = FALSE] : w \in writes}

Prompt(m) ==
    /\ Idle /\ m # message /\ saved[m] = None
    /\ message' = m
    /\ target' = None
    /\ stage' = "capture"
    /\ UNCHANGED <<workspace, objects, writes, saved, taken, left, data, before,
                   disturbed, interrupted, edits, faults>>

\* revisePrompt goes on only if the preview found a complete checkpoint and could
\* scan the workspace; agent:revise has waited for the run before it.
Revise(m, t) ==
    /\ Idle /\ m # message /\ m # t /\ saved[m] = None
    /\ saved[t] # None => saved[t].complete
    /\ saved[t] # None
    /\ ScanComplete
    /\ message' = m
    /\ target' = t
    /\ stage' = "revise"
    /\ UNCHANGED <<workspace, objects, writes, saved, taken, left, data, before,
                   disturbed, interrupted, edits, faults>>

RunEnds ==
    /\ stage = "running"
    /\ stage' = "idle"
    /\ UNCHANGED <<workspace, objects, writes, saved, message, target, taken, left,
                   data, before, disturbed, interrupted, edits, faults>>

\* The agent, a background process, another conversation or the user.
Edit(p, v) ==
    /\ edits < MaxEdits /\ v # workspace[p]
    /\ edits' = edits + 1
    /\ workspace' = Put(p, v)
    /\ disturbed' = TRUE
    /\ UNCHANGED <<objects, writes, saved, stage, message, target, taken, left, data,
                   before, interrupted, faults>>

------------------------------------------------------------------------------
(* restore *)

\* Only what differs from the checkpoint is touched.
RestoreScan ==
    /\ stage = "revise"
    /\ before' = workspace
    /\ disturbed' = FALSE
    /\ left' = {p \in Paths : workspace[p] # saved[target].files[p]}
    /\ stage' = IF ScanComplete THEN "verify" ELSE "refused"
    /\ UNCHANGED <<workspace, objects, writes, saved, message, target, taken, data,
                   interrupted, edits, faults>>

\* Every object is read before the first path is changed.
(* (Mutant) Objects that cannot be read are left out. *)
VerifySome ==
    /\ stage = "verify"
    /\ data' = {c \in ContentsOf(saved[target].files) : objects[c] = "whole"}
    /\ stage' = "restore"
    /\ UNCHANGED <<workspace, objects, writes, saved, message, target, taken, left,
                   before, disturbed, interrupted, edits, faults>>

Verify ==
    LET needed == ContentsOf(saved[target].files) IN
    /\ stage = "verify"
    /\ data' = {c \in needed : objects[c] = "whole"}
    /\ stage' = IF data' = needed THEN "restore" ELSE "refused"
    /\ UNCHANGED <<workspace, objects, writes, saved, message, target, taken, left,
                   before, disturbed, interrupted, edits, faults>>

ToRemove == {p \in left : saved[target].files[p] = None}

\* Deepest first.
RemovePath(p) ==
    /\ stage = "restore" /\ p \in ToRemove
    /\ \A q \in ToRemove : <<q, p>> \notin Under
    /\ workspace' = Put(p, None)
    /\ left' = left \ {p}
    /\ UNCHANGED <<objects, writes, saved, stage, message, target, taken, data, before,
                   disturbed, interrupted, edits, faults>>

\* Shallowest first, once all removals are done; what is there goes first.
MayPlace(p) ==
    /\ stage = "restore" /\ ToRemove = {} /\ p \in left
    /\ \A q \in left : <<p, q>> \notin Under

PlacePath(p) ==
    LET node == saved[target].files[p]
        read == node = Link \/ node \in data IN
    /\ MayPlace(p)
    /\ workspace' = Put(p, IF read THEN node ELSE None)
    /\ left' = left \ {p}
    /\ stage' = IF read THEN stage ELSE "refused"
    /\ UNCHANGED <<objects, writes, saved, message, target, taken, data, before,
                   disturbed, interrupted, edits, faults>>

\* A write fails or the process exits under a restore: the path is gone, or holds
\* something shorter.  Nothing remembers that the workspace is half restored.
PlaceFails(p, v) ==
    /\ faults < MaxFaults
    /\ MayPlace(p)
    /\ faults' = faults + 1
    /\ workspace' = Put(p, v)
    /\ Failed
    /\ UNCHANGED <<objects, saved, message, target, taken, left, data, before,
                   disturbed, interrupted, edits>>

Restored ==
    /\ stage = "restore" /\ left = {}
    /\ stage' = "capture"
    /\ UNCHANGED <<workspace, objects, writes, saved, message, target, taken, left,
                   data, before, disturbed, interrupted, edits, faults>>

------------------------------------------------------------------------------
(* capture *)

CaptureScan ==
    /\ stage = "capture"
    /\ taken' = IF ScanComplete THEN [complete |-> TRUE, files |-> workspace] ELSE Partial
    /\ writes' = writes \cup [content : ContentsOf(taken'.files), open : {FALSE}, mine : {TRUE}]
    /\ stage' = "write"
    /\ UNCHANGED <<workspace, objects, saved, message, target, left, data, before,
                   disturbed, interrupted, edits, faults>>

(* (Mutant) The object is opened without the exclusive flag. *)
OpenTruncates(w) ==
    /\ w \in writes /\ ~w.open
    /\ objects' = [objects EXCEPT ![w.content] = "cut"]
    /\ writes' = (writes \ {w}) \cup {[w EXCEPT !.open = TRUE]}
    /\ UNCHANGED <<workspace, saved, stage, message, target, taken, left, data, before,
                   disturbed, interrupted, edits, faults>>

\* Opened for exclusive creation: an object that exists is taken to be there.
OpenObject(w) ==
    /\ w \in writes /\ ~w.open
    /\ objects' = [objects EXCEPT ![w.content] = IF @ = "none" THEN "cut" ELSE @]
    /\ writes' = (writes \ {w}) \cup
                 IF objects[w.content] = "none" THEN {[w EXCEPT !.open = TRUE]} ELSE {}
    /\ UNCHANGED <<workspace, saved, stage, message, target, taken, left, data, before,
                   disturbed, interrupted, edits, faults>>

FinishObject(w) ==
    /\ w \in writes /\ w.open
    /\ objects' = [objects EXCEPT ![w.content] = "whole"]
    /\ writes' = writes \ {w}
    /\ UNCHANGED <<workspace, saved, stage, message, target, taken, left, data, before,
                   disturbed, interrupted, edits, faults>>

\* One write rejects the capture it belongs to; the others go on.
ObjectFails(w) ==
    /\ faults < MaxFaults /\ w \in writes
    /\ faults' = faults + 1
    /\ interrupted' = IF w.open THEN interrupted \cup {w.content} ELSE interrupted
    /\ writes' = IF w.mine THEN {[o EXCEPT !.mine = FALSE] : o \in writes \ {w}}
                           ELSE writes \ {w}
    /\ stage' = IF w.mine THEN "idle" ELSE stage
    /\ UNCHANGED <<workspace, objects, saved, message, target, taken, left, data, before,
                   disturbed, edits>>

\* Written beside the checkpoint's place and renamed into it.
CaptureSave ==
    /\ stage = "write"
    /\ \A w \in writes : ~w.mine
    /\ saved' = [saved EXCEPT ![message] = taken]
    /\ stage' = "running"
    /\ UNCHANGED <<workspace, objects, writes, message, target, taken, left, data, before,
                   disturbed, interrupted, edits, faults>>

SaveFails ==
    /\ faults < MaxFaults
    /\ stage = "write" /\ \A w \in writes : ~w.mine
    /\ faults' = faults + 1
    /\ Failed
    /\ UNCHANGED <<workspace, objects, saved, message, target, taken, left, data, before,
                   disturbed, interrupted, edits>>

Crash ==
    /\ faults < MaxFaults
    /\ faults' = faults + 1
    /\ stage' = "idle"
    /\ writes' = {}
    /\ interrupted' = interrupted \cup {w.content : w \in {o \in writes : o.open}}
    /\ UNCHANGED <<workspace, objects, saved, message, target, taken, left, data, before,
                   disturbed, edits>>

------------------------------------------------------------------------------
RunStep == RunEnds \/ \E m \in Messages : Prompt(m) \/ \E t \in Messages : Revise(m, t)

RestoreStep ==
    \/ RestoreScan \/ Verify \/ Restored
    \/ \E p \in Paths : \/ RemovePath(p) \/ PlacePath(p)
                        \/ \E v \in Contents \cup {None} : PlaceFails(p, v)

CaptureStep ==
    \/ CaptureScan \/ CaptureSave \/ SaveFails
    \/ \E w \in writes : OpenObject(w) \/ FinishObject(w) \/ ObjectFails(w)

Next ==
    \/ RunStep \/ RestoreStep \/ CaptureStep \/ Crash
    \/ \E p \in Paths, v \in Nodes : Edit(p, v)

Spec == Init /\ [][Next]_vars

------------------------------------------------------------------------------
(* Properties *)

Complete(m) == saved[m] # None /\ saved[m].complete

\* A restore that finished put every path back as the checkpoint has it, unless
\* someone changed the workspace while it ran, and the message that replaces the
\* edited one is captured as the very same files; a restore that refused, for
\* whatever it found missing, has not touched a path ("Verify every
\* content-addressed object before changing a workspace path").
RestoreIsExact ==
    ~disturbed =>
      /\ stage \in {"capture", "write", "running"} /\ target # None
           => workspace = saved[target].files
      /\ stage = "running" /\ target # None => saved[message] = saved[target]
      /\ stage = "refused" => workspace = before

\* A checkpoint the preview calls complete has all its objects, and no later
\* capture, failed or not, spoils one it shares: except one that a failure cut off
\* when it was first written, or that a rejected capture is still writing.
AdvertisedIsWhole ==
    \A m \in Messages : Complete(m) =>
        \A c \in ContentsOf(saved[m].files) :
            \/ objects[c] = "whole"
            \/ c \in interrupted
            \/ \E w \in writes : w.content = c /\ w.open /\ ~w.mine
==============================================================================
