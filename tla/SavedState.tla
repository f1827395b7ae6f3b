------------------------------ MODULE SavedState ------------------------------
(***************************************************************************)
(* The saved state of the desktop (main/state-store.ts): one file of all   *)
(* conversations, a cache of it, and a queue through which everything that *)
(* changes it passes.  Two kinds of client use the queue.  A window sends  *)
(* what changed since it last described itself (renderer app.tsx,          *)
(* saveState); the main process edits the stored state in place, to queue  *)
(* a result of a background task for its assistant and to deliver it       *)
(* (main/assistant-tasks.ts).                                              *)
(*                                                                         *)
(* A state is what the properties tell apart: the version of the settings  *)
(* and of each conversation of the window (0: absent), the results that    *)
(* wait with the background task, and those that are turns of the          *)
(* assistant.                                                              *)
(***************************************************************************)
EXTENDS Naturals, Sequences, FiniteSets

CONSTANTS Tasks,        \* conversations that only the window edits
          Results,      \* results of background tasks, by key
          None,
          MaxVersion,   \* bound: edits of one item by the window
          MaxOps,       \* bound: requests of the clients
          MaxFaults     \* bound: failing writes, restarts, foreign writes

Settings == "settings"
Assistant == "assistant"
Items == Tasks \cup {Settings}
State == [ver: [Items -> Nat], pend: SUBSET Results, told: SUBSET Results]
Blank == [ver |-> [i \in Items |-> IF i = Settings THEN 1 ELSE 0],
          pend |-> {}, told |-> {}]

VARIABLES
  file,       \* the primary file, content and stamp, or None
  cache,      \* the remembered copy and the stamp it belongs to, or None
  bytes,      \* the remembered copy as it was last serialised, or None
  revision,   \* publications so far
  load,       \* the one reading in progress, which all readers share
  queue,      \* operations that wait for the one before them
  open,       \* whether the last of them is a batch that still takes deltas
  op,         \* the operation in progress
  win,        \* the window's own copy
  sent,       \* what the window knows to be described, or None
  object,     \* which object that is: it is replaced by a save in full only
  syncing,    \* saves with settings, which pass the lock of the providers first
  reader,     \* a reader outside the queue
  delivering, \* the guard of the delivery timer
  acked,      \* history: what the answers so far have promised
  replaced,   \* history: another process has replaced the file
  overtaken,  \* history: a save reached the store before an older delta, which had
              \* compared the window with another object
  used        \* requests and faults so far
stateVars == <<file, cache, bytes, revision, load, queue, open, op, win, sent, object,
          syncing, reader, delivering, acked, replaced, overtaken, used>>
onDisk == <<file, cache, bytes, revision>>
window == <<win, sent, object, syncing>>
history == <<acked, replaced, overtaken>>

Idle == [at |-> "idle"]
Nothing == [pend |-> {}, told |-> {}]

ASSUME SavedStateAssumption ==
  None \notin State /\ None \notin Nat /\ None \notin [content: State, stamp: Nat]

StateTypeOK ==
  /\ file \in [content: State, stamp: Nat] \cup {None}
  /\ cache \in [content: State, stamp: Nat] \cup {None}
  /\ bytes \in State \cup {None}
  /\ load.at \in {"idle", "begin", "stat", "stamped", "parse"}
  /\ op.at \in {"idle", "load", "write", "rename", "published", "answer"}
  /\ win \in State /\ sent \in State \cup {None}
  /\ open \in BOOLEAN /\ (open => queue # <<>> /\ queue[Len(queue)].kind = "deltas")

(* A first start without a file, or a window whose first save has succeeded. *)
StateInit ==
  /\ \/ file = None /\ sent = None
     \/ file = [content |-> Blank, stamp |-> 0] /\ sent = Blank
  /\ cache = file /\ bytes = None /\ revision = 0
  /\ load = Idle /\ op = Idle /\ queue = <<>> /\ open = FALSE
  /\ win = Blank /\ object = 0 /\ syncing = <<>>
  /\ reader = Idle /\ delivering = FALSE
  /\ acked = Nothing /\ replaced = FALSE /\ overtaken = FALSE
  /\ used = [ops |-> 0, faults |-> 0]

Fault == used.faults < MaxFaults /\ used' = [used EXCEPT !.faults = @ + 1]
Ask == used.ops < MaxOps /\ used' = [used EXCEPT !.ops = @ + 1]

-----------------------------------------------------------------------------
(* What an operation makes of the state it finds. *)

MergeForgetsTold(stored, described) ==                              \* (Mutant)
  [described EXCEPT !.pend = stored.pend]
MergeTrustsWindow(stored, described) ==                             \* (Mutant)
  [described EXCEPT !.told = @ \cup stored.told]
(* The service owns what waits with a background task, and a result that the
   window has not heard of stays a turn of the assistant. *)
Merge(stored, described) ==
  [described EXCEPT !.told = @ \cup stored.told, !.pend = stored.pend]

(* A delta names the order of all tasks and carries those that changed. *)
ApplyDelta(stored, delta) ==
  Merge(stored,
        [ver  |-> [i \in Items |-> IF i \in delta.changed \/ delta.whole.ver[i] = 0
                                   THEN delta.whole.ver[i] ELSE stored.ver[i]],
         pend |-> delta.whole.pend,
         told |-> IF Assistant \in delta.changed THEN delta.whole.told ELSE stored.told])

(* The states a batch passes through. *)
Chain(stored, deltas) ==
  LET state[n \in 0..Len(deltas)] ==
        IF n = 0 THEN stored ELSE ApplyDelta(state[n - 1], deltas[n])
  IN  state

Drifted(stored, deltas) ==
  \E n \in DOMAIN deltas : \E t \in Tasks \ deltas[n].changed :
    deltas[n].whole.ver[t] > 0 /\ Chain(stored, deltas)[n - 1].ver[t] = 0

InPlace(o) == o.kind \in {"report", "deliver"}

(* queueAssistantResult knows a result by its key; deliverAssistantResults
   moves all that wait. *)
Edit(state, o) ==
  IF o.kind = "deliver" THEN [state EXCEPT !.told = @ \cup state.pend, !.pend = {}]
  ELSE IF o.result \in state.told THEN state
  ELSE [state EXCEPT !.pend = @ \cup {o.result}]

Outcome(state, o) ==
  CASE o.kind = "deltas" -> Chain(state, o.deltas)[Len(o.deltas)]
    [] o.kind = "full" -> IF state = None THEN o.whole ELSE Merge(state, o.whole)
    [] OTHER -> Edit(state, o)

Reply(state, o) ==
  CASE o.kind = "full" -> "ok"
    [] o.kind = "deltas" -> IF state = None THEN "full"
                            ELSE IF Drifted(state, o.deltas) THEN "full" ELSE "ok"
    [] OTHER -> IF state = None THEN "error" ELSE "ok"

-----------------------------------------------------------------------------
(* Asking. *)

(* Everything but a delta closes the batch and waits for what is before it. *)
Enqueue(o) == queue' = Append(queue, o) /\ open' = FALSE

(* A delta joins the batch that has not started, if one is open. *)
Submit(delta) ==
  IF open THEN /\ queue' = [queue EXCEPT ![Len(queue)].deltas = Append(@, delta)]
               /\ UNCHANGED open
  ELSE queue' = Append(queue, [kind |-> "deltas", deltas |-> <<delta>>]) /\ open' = TRUE

Changed(described) ==
  {i \in Items : win.ver[i] # described.ver[i]}
    \cup (IF win.told # described.told \/ win.pend # described.pend THEN {Assistant} ELSE {})

FullSave == [kind |-> "full", whole |-> win]

(* A save of the window that is next in the store leaves an older delta behind it
   in the lock, and the two do not speak of the same object. *)
Overtakes(waiting, base) ==
  \E n \in DOMAIN waiting : waiting[n].kind = "delta" /\ waiting[n].delta.of # base

(* saveState: what changed since the last answer, or everything when the window
   has described nothing yet.  A save with settings waits for the lock of the
   provider settings before it reaches the store (state:save). *)
WindowSaves ==
  /\ Ask
  /\ IF sent = None
     THEN syncing' = Append(syncing, FullSave) /\ UNCHANGED <<queue, open, overtaken>>
     ELSE LET delta == [changed |-> Changed(sent), whole |-> win, of |-> object]
          IN  /\ delta.changed # {}
              /\ IF Settings \in delta.changed
                 THEN /\ syncing' = Append(syncing, [kind |-> "delta", delta |-> delta])
                      /\ UNCHANGED <<queue, open, overtaken>>
                 ELSE /\ Submit(delta)
                      /\ overtaken' = (overtaken \/ Overtakes(syncing, object))
                      /\ UNCHANGED syncing
  /\ UNCHANGED <<onDisk, load, op, win, sent, object, reader, delivering, acked, replaced>>

(* The lock is polled: whoever looks first after its release gets it. *)
SyncDone ==
  /\ \E n \in DOMAIN syncing :
       /\ syncing' = SubSeq(syncing, 1, n - 1) \o SubSeq(syncing, n + 1, Len(syncing))
       /\ IF syncing[n].kind = "full" THEN Enqueue(syncing[n]) ELSE Submit(syncing[n].delta)
       /\ overtaken' = (overtaken
            \/ Overtakes(SubSeq(syncing, 1, n - 1),
                         IF syncing[n].kind = "full" THEN None ELSE syncing[n].delta.of))
  /\ UNCHANGED <<onDisk, load, op, win, sent, object, reader, delivering, acked, replaced, used>>

WindowEdits(i) ==
  /\ win.ver[i] < MaxVersion
  /\ win' = [win EXCEPT !.ver[i] = @ + 1]
  /\ UNCHANGED <<onDisk, load, queue, open, op, sent, object, syncing, reader, delivering,
                 history, used>>

(* A background task has something for its assistant, perhaps again. *)
Report(r) ==
  /\ Ask
  /\ Enqueue([kind |-> "report", result |-> r])
  /\ UNCHANGED <<onDisk, load, op, window, reader, delivering, history>>

(* The timer of the deliveries looks at a snapshot first: the remembered copy,
   or the file when nothing is remembered. *)
DeliveryTick ==
  /\ ~delivering
  /\ LET seen == IF cache # None THEN cache ELSE file
     IN  seen # None /\ seen.content.pend # {}
  /\ delivering' = TRUE
  /\ Enqueue([kind |-> "deliver"])
  /\ UNCHANGED <<onDisk, load, op, window, reader, history, used>>

-----------------------------------------------------------------------------
(* Reading.  One reading is shared by everybody who asks while it lasts. *)

JoinLoad == load' = IF load = Idle THEN [at |-> "begin"] ELSE load
Publishing == op.at \in {"rename", "published"}

StartOpWaits ==                                                     \* (Mutant)
  /\ op = Idle /\ queue # <<>>
  /\ op' = [at |-> "load", ask |-> Head(queue)]
  /\ queue' = Tail(queue)
  /\ open' = (open /\ Len(queue) > 1)
  /\ UNCHANGED <<onDisk, load, window, reader, delivering, history, used>>
StartOp ==
  /\ op = Idle /\ queue # <<>>
  /\ op' = [at |-> "load", ask |-> Head(queue)]
  /\ queue' = Tail(queue)
  /\ open' = (open /\ Len(queue) > 1)
  /\ JoinLoad
  /\ UNCHANGED <<onDisk, window, reader, delivering, history, used>>

(* read() waits for what has been asked for, snapshot() does not.  `owed` and
   `ahead` are history: what the answer must hold, and what it may still wait for. *)
Read ==
  /\ reader = Idle
  /\ Ask
  /\ reader' = [at |-> "wait", ahead |-> Len(queue) + (IF op = Idle THEN 0 ELSE 1),
                owed |-> acked]
  /\ UNCHANGED <<onDisk, load, queue, open, op, window, delivering, history>>

Snapshot ==
  /\ reader = Idle
  /\ Ask
  /\ reader' = [at |-> "load", ahead |-> 0, owed |-> acked]
  /\ JoinLoad
  /\ UNCHANGED <<onDisk, queue, open, op, window, delivering, history>>

ReadHurries ==                                                      \* (Mutant)
  /\ reader.at = "wait"
  /\ reader' = [reader EXCEPT !.at = "load"]
  /\ JoinLoad
  /\ UNCHANGED <<onDisk, queue, open, op, window, delivering, history, used>>
ReadGoes ==
  /\ reader.at = "wait" /\ reader.ahead = 0
  /\ reader' = [reader EXCEPT !.at = "load"]
  /\ JoinLoad
  /\ UNCHANGED <<onDisk, queue, open, op, window, delivering, history, used>>

Return ==
  /\ reader.at = "answered" /\ reader.ahead = 0
  /\ reader' = Idle
  /\ UNCHANGED <<onDisk, load, queue, open, op, window, delivering, history, used>>

LoadBegins ==
  /\ load.at = "begin" /\ ~Publishing
  /\ load' = [at |-> "stat", revision |-> revision]
  /\ UNCHANGED <<onDisk, queue, open, op, window, reader, delivering, history, used>>

Stamp == IF file = None THEN None ELSE file.stamp

LoadStat ==
  /\ load.at = "stat"
  /\ load' = [at |-> "stamped", revision |-> load.revision, stamp |-> Stamp]
  /\ UNCHANGED <<onDisk, queue, open, op, window, reader, delivering, history, used>>

(* Whoever waits gets the same state, and an operation goes on from it at once;
   an edit in place changes the remembered copy. *)
Found(state, held) ==
  /\ load' = Idle
  /\ IF op.at = "load"
     THEN LET reply == Reply(state, op.ask)
              next == IF reply = "ok" THEN Outcome(state, op.ask) ELSE None
              edits == reply = "ok" /\ InPlace(op.ask)
          IN  /\ op' = [at |-> IF reply = "ok" THEN "write" ELSE "answer", ask |-> op.ask,
                        state |-> next, reply |-> reply]
              /\ cache' = IF edits /\ held # None THEN [held EXCEPT !.content = next] ELSE held
              /\ bytes' = IF edits \/ held # cache THEN None ELSE bytes
     ELSE /\ UNCHANGED op
          /\ cache' = held
          /\ bytes' = IF held # cache THEN None ELSE bytes
  /\ reader' = IF reader.at = "load"
               THEN [at |-> "answered", ahead |-> reader.ahead, owed |-> reader.owed,
                     result |-> state]
               ELSE reader
  /\ UNCHANGED <<file, revision, queue, open, window, delivering, history, used>>

(* The remembered copy is good if its stamp is that of the file, and if nothing
   was published while the stamp was taken. *)
LoadCheck ==
  /\ load.at = "stamped" /\ ~Publishing
  /\ IF load.revision # revision
     THEN /\ load' = [at |-> "begin"]
          /\ UNCHANGED <<onDisk, queue, open, op, window, reader, delivering, history, used>>
     ELSE IF load.stamp # None /\ cache # None /\ cache.stamp = load.stamp
     THEN Found(cache.content, cache)
     ELSE /\ load' = [at |-> "parse", stamp |-> load.stamp]
          /\ cache' = None /\ bytes' = None
          /\ UNCHANGED <<file, revision, queue, open, op, window, reader, delivering, history,
                         used>>

LoadParse ==
  /\ load.at = "parse"
  /\ IF load.stamp = None \/ file = None THEN Found(None, cache)
     ELSE Found(file.content, [content |-> file.content, stamp |-> load.stamp])

-----------------------------------------------------------------------------
(* Writing: a temporary file, then the publication (rename and stamp). *)

WrittenStale == IF bytes # None THEN bytes ELSE op.state            \* (Mutant)
(* Remembered bytes stand for an object that has not changed; every object of
   an operation is new, or was edited and its bytes forgotten. *)
Written == IF InPlace(op.ask) /\ bytes # None THEN bytes ELSE op.state

WriteTemp ==
  /\ op.at = "write"
  /\ op' = [op EXCEPT !.at = "rename", !.state = Written]
  /\ UNCHANGED <<onDisk, load, queue, open, window, reader, delivering, history, used>>

WriteFails ==
  /\ op.at \in {"write", "rename"}
  /\ Fault
  /\ op' = [op EXCEPT !.at = "answer", !.reply = "error"]
  /\ bytes' = None
  /\ UNCHANGED <<file, cache, revision, load, queue, open, window, reader, delivering,
                 history>>

Rename ==
  /\ op.at = "rename"
  /\ op' = [op EXCEPT !.at = "published"]
  /\ file' = [content |-> op.state, stamp |-> IF file = None THEN 1 ELSE file.stamp + 1]
  /\ UNCHANGED <<cache, bytes, revision, load, queue, open, window, reader, delivering,
                 history, used>>

Published ==
  /\ op.at = "published"
  /\ op' = [op EXCEPT !.at = "answer"]
  /\ cache' = IF file = None THEN None ELSE [content |-> op.state, stamp |-> file.stamp]
  /\ bytes' = op.state
  /\ revision' = revision + 1
  /\ UNCHANGED <<file, load, queue, open, window, reader, delivering, history, used>>

-----------------------------------------------------------------------------
(* The answer of an operation, with what the window makes of it. *)

Owes(a, o) ==
  CASE o.kind = "report" -> [a EXCEPT !.pend = @ \cup {o.result}]
    [] o.kind = "deliver" -> [a EXCEPT !.told = @ \cup op.state.told]
    [] OTHER -> a

DescribedAsNow(deltas) ==                                           \* (Mutant)
  LET mine == {n \in DOMAIN deltas : deltas[n].of = object}
  IN  [sent EXCEPT !.ver = [i \in Items |-> IF \E n \in mine : i \in deltas[n].changed
                                            THEN win.ver[i] ELSE sent.ver[i]]]
(* Each delta that is answered replaces, in the object it was compared with, what
   that said of the items it carried, and drops what it did not list. *)
Described(deltas) ==
  LET known[n \in 0..Len(deltas)] ==
        IF n = 0 THEN sent
        ELSE IF deltas[n].of # object THEN known[n - 1]
        ELSE [ver |-> [i \in Items |->
                         IF i \in deltas[n].changed \/ deltas[n].whole.ver[i] = 0
                         THEN deltas[n].whole.ver[i] ELSE known[n - 1].ver[i]],
              pend |-> IF Assistant \in deltas[n].changed THEN deltas[n].whole.pend
                       ELSE known[n - 1].pend,
              told |-> IF Assistant \in deltas[n].changed THEN deltas[n].whole.told
                       ELSE known[n - 1].told]
  IN  known[Len(deltas)]

(* A save in full makes a new object.  A store that has drifted is told everything,
   once for each delta it refused; the window hears of a delivery through the push
   of the assistant's task. *)
WindowHears(o, reply) ==
  CASE reply = "ok" /\ o.kind = "full" ->
         sent' = o.whole /\ object' = object + 1 /\ UNCHANGED <<win, syncing>>
    [] reply = "ok" /\ o.kind = "deltas" ->
         /\ sent' = IF sent = None THEN None ELSE Described(o.deltas)
         /\ UNCHANGED <<win, object, syncing>>
    [] reply = "full" ->
         /\ sent' = None
         /\ syncing' = syncing \o [n \in DOMAIN o.deltas |-> FullSave]
         /\ UNCHANGED <<win, object>>
    [] reply = "ok" /\ o.kind = "deliver" ->
         /\ win' = [win EXCEPT !.told = @ \cup op.state.told, !.pend = op.state.pend]
         /\ UNCHANGED <<sent, object, syncing>>
    [] OTHER -> UNCHANGED window

Answer ==
  /\ op.at = "answer"
  /\ op' = Idle
  /\ acked' = IF op.reply = "ok" THEN Owes(acked, op.ask) ELSE acked
  /\ WindowHears(op.ask, op.reply)
  /\ delivering' = (delivering /\ op.ask.kind # "deliver")
  /\ reader' = IF reader = Idle \/ reader.ahead = 0 THEN reader
               ELSE [reader EXCEPT !.ahead = @ - 1,
                                   !.owed = IF op.reply = "ok" THEN Owes(@, op.ask) ELSE @]
  /\ UNCHANGED <<onDisk, load, queue, open, replaced, overtaken, used>>

-----------------------------------------------------------------------------
(* The application ends at any point and starts again; another process may
   replace the file by an older one. *)

Relaunch ==
  /\ Fault
  /\ cache' = None /\ bytes' = None
  /\ load' = Idle /\ op' = Idle /\ queue' = <<>> /\ open' = FALSE
  /\ win' = IF file = None THEN Blank ELSE file.content
  /\ sent' = None /\ object' = 0 /\ syncing' = <<>> /\ reader' = Idle /\ delivering' = FALSE
  /\ UNCHANGED <<file, revision, history>>

ForeignWrite ==
  /\ Fault
  /\ file # None
  /\ file' = [content |-> Blank, stamp |-> file.stamp + 1]
  /\ replaced' = TRUE
  /\ UNCHANGED <<cache, bytes, revision, load, queue, open, op, window, reader,
                 delivering, acked, overtaken>>

Work == \/ SyncDone \/ StartOp \/ ReadGoes \/ Return
        \/ LoadBegins \/ LoadStat \/ LoadCheck \/ LoadParse
        \/ WriteTemp \/ Rename \/ Published \/ Answer

StateNext ==
  \/ Work
  \/ WindowSaves \/ (\E i \in Items : WindowEdits(i))
  \/ (\E r \in Results : Report(r)) \/ DeliveryTick
  \/ Read \/ Snapshot
  \/ WriteFails \/ Relaunch \/ ForeignWrite

StateSpec == StateInit /\ [][StateNext]_stateVars
(* Node runs what is ready, and the file system answers; nobody has to ask. *)
StateFairSpec == StateSpec /\ WF_stateVars(Work)

-----------------------------------------------------------------------------
(* Properties. *)

Holds(state, a) ==
  IF state = None THEN a = Nothing
  ELSE a.pend \subseteq state.pend \cup state.told /\ a.told \subseteq state.told
Content == IF file = None THEN None ELSE file.content

(* What the service was told is saved stays saved, whatever is in progress, fails
   or restarts afterwards: no save of a window takes back a result that was
   reported or delivered. *)
AnsweredIsOnDisk == replaced \/ Holds(Content, acked)

(* A window at rest knows what it has to send.  Saves overtake each other, fail,
   are batched, are refused, and answer a description that was replaced meanwhile;
   when all are answered, what the window would not send again, because it was
   described as it is now, is in the file as it is now.  The exception is a save
   that overtook an older delta of another description on its way through the lock. *)
DescribedIsTrue ==
  (queue = <<>> /\ syncing = <<>> /\ op = Idle /\ sent # None /\ ~replaced /\ ~overtaken) =>
    /\ Content # None /\ sent.told \subseteq Content.told
    /\ \A i \in Items : sent.ver[i] = win.ver[i] => Content.ver[i] = win.ver[i]

(* A reader gets at least what was answered before it asked, and read() also
   what was asked for before, although both may be given a reading that somebody
   else began. *)
ReadIsCurrent ==
  (reader.at = "answered" /\ ~replaced) => Holds(reader.result, reader.owed)

(* A result of a background task becomes a turn of the assistant once: from then
   on it neither disappears nor waits for delivery again. *)
ToldOnce ==
  [][replaced' \/ file = None
     \/ /\ file.content.told \subseteq file'.content.told
        /\ file'.content.pend \cap file.content.told = {}]_file

(* Whatever was asked for is answered, by success or by an error. *)
AllAnswered == (queue # <<>> \/ op # Idle \/ reader # Idle) ~>
               (queue = <<>> /\ op = Idle /\ reader = Idle)
=============================================================================
