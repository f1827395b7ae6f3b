------------------------------ MODULE RemoteView ------------------------------
(***************************************************************************)
(* One window that watches conversations of a paired machine: the pushes   *)
(* of that machine (remote-service.ts), their cursors, stale marks and     *)
(* batches in the main process (remote-client.ts), and the view of the     *)
(* conversation on screen (remote-session.ts, remote-conversation.ts),     *)
(* which opens on what it last read, applies pushes, catches up by pages,  *)
(* and reads the task whole when it cannot.                                *)
(*                                                                         *)
(* The link itself is RemoteLink's: here it is two channels, one that      *)
(* keeps the order of the pushes it does not lose, and one for requests    *)
(* and answers, which keep no order with them or with each other.          *)
(* What a conversation shows is the sequence of the events in its text and *)
(* the status of its run.                                                  *)
(***************************************************************************)
EXTENDS Naturals, Sequences, FiniteSets

CONSTANTS Tasks,
          Script,         \* the events each task will have: "start", "delta", "finish"
          FirstEvents,    \* how many of them exist in the beginning
          None,
          PageSize,       \* events in one page of task.events (256 KB in the code)
          CatchUpRounds,  \* REMOTE_CATCH_UP_ROUNDS
          MaxOpens,       \* bound: conversations opened
          MaxRequests,    \* bound: requests in flight
          MaxLosses       \* bound: lost frames, lost connections, failed requests

ASSUME RemoteViewAssumption ==
  /\ None \notin Tasks
  /\ FirstEvents \in [Tasks -> Nat]
  /\ \A t \in Tasks : /\ Script[t] \in Seq({"start", "delta", "finish"})
                      /\ FirstEvents[t] <= Len(Script[t])
  /\ {PageSize, CatchUpRounds} \subseteq Nat \ {0}
  /\ {MaxOpens, MaxRequests, MaxLosses} \subseteq Nat

VARIABLES
  log,        \* per task, the number of events of its log on the peer
  peerWatch,  \* the peer's watch list for this link (None: sends everything)
  connected,  \* the connection is open
  pushes,     \* pushes on their way
  ownWatch,   \* the watch list of the link in this machine's main process
  cursors,    \* per task, the last event that arrived (0: none)
  stale,      \* tasks with a hole
  batch,      \* events not yet handed to the window
  view,       \* what was last given to setView
  viewRef,    \* the view as rendered
  buffered,   \* events that came before the view was ready
  cache,      \* viewCache
  token,      \* openToken
  requests,   \* requests in flight
  listed,     \* per task, the status in the peer's list as last read
  losses
viewVars == <<log, peerWatch, connected, pushes, ownWatch, cursors, stale, batch, view,
              viewRef, buffered, cache, token, requests, listed, losses>>
peer == <<log, peerWatch>>
link == <<connected, pushes>>
main == <<ownWatch, cursors, stale, batch>>
window == <<view, viewRef, buffered, cache, token>>

-----------------------------------------------------------------------------
(* Views. *)

Event(t, n) == [task |-> t, seq |-> n]
Kind(e) == Script[e.task][e.seq]

\* The status after the first n events: that of the last one that says something.
StatusAt(t, n) ==
  LET said == {i \in 1..n : Script[t][i] # "delta"}
  IN IF \E i \in said : Script[t][i] = "start" /\ \A j \in said : j <= i
     THEN "running" ELSE "idle"

EmptyView(t) == [task |-> t, ready |-> FALSE, latest |-> 0, text |-> <<>>, status |-> "idle", needsResync |-> FALSE]

\* The events from, from + 1, ... to of a task.
Events(t, from, to) == [i \in 1..(to + 1 - from) |-> Event(t, from + i - 1)]

\* A snapshot taken when the log had n events.  Of the two copies of the text
\* the longer one is kept; status and the rest are the snapshot's.
ApplySnapshot(v, t, n) ==
  [v EXCEPT !.ready = TRUE, !.task = t, !.latest = IF n > v.latest THEN n ELSE v.latest,
            !.text = IF v.ready /\ Len(v.text) > n THEN v.text ELSE Events(t, 1, n),
            !.status = StatusAt(t, n), !.needsResync = FALSE]

Reduced(v, e) ==
  [v EXCEPT !.latest = e.seq, !.needsResync = FALSE, !.text = Append(v.text, e),
            !.status = CASE Kind(e) = "start" -> "running"
                         [] Kind(e) = "finish" -> "idle"
                         [] OTHER -> v.status]

\* (Mutant.)  An event after a hole is applied.
ApplyEventOverHole(v, e) == IF ~v.ready \/ e.seq <= v.latest THEN v ELSE Reduced(v, e)
ApplyEvent(v, e) ==
  CASE ~v.ready \/ e.seq <= v.latest     -> v
    [] v.ready /\ e.seq > v.latest + 1 -> [v EXCEPT !.needsResync = TRUE]
    [] OTHER                            -> Reduced(v, e)
ApplyEvents(v, es) ==
  LET applied[i \in 0..Len(es)] == IF i = 0 THEN v ELSE ApplyEvent(applied[i - 1], es[i])
  IN applied[Len(es)]

\* The events of one task.
OfTask(es, t) ==
  LET kept[i \in 0..Len(es)] ==
        IF i = 0 THEN <<>> ELSE IF es[i].task = t THEN Append(kept[i - 1], es[i]) ELSE kept[i - 1]
  IN kept[Len(es)]

-----------------------------------------------------------------------------
(* Requests.  `from' is the sequence a catch-up began at, `cursor' how far   *)
(* it has come, `base' the view a refresh was asked for, `answer' the length *)
(* of the log when the peer answered.                                        *)

NewRequest(kind, t) == [kind |-> kind, task |-> t, token |-> 0, from |-> 0, cursor |-> 0, round |-> 0,
                        base |-> EmptyView(t), answer |-> None]
Room == Cardinality(requests) < MaxRequests
CatchUp(v) == [NewRequest("page", v.task) EXCEPT !.from = v.latest, !.cursor = v.latest, !.round = 1]

\* resync(target) begins with the rendered view.
Resync == requests' = IF viewRef.task = None THEN requests ELSE requests \cup {CatchUp(viewRef)}

-----------------------------------------------------------------------------
(* The peer. *)

ViewInit ==
  /\ log = FirstEvents /\ peerWatch = None
  /\ connected = TRUE /\ pushes = <<>>
  /\ ownWatch = None /\ cursors = [t \in Tasks |-> 0] /\ stale = {} /\ batch = <<>>
  /\ view = EmptyView(None) /\ viewRef = view /\ buffered = <<>>
  /\ cache = [t \in Tasks |-> EmptyView(None)] /\ token = 0
  /\ requests = {}
  /\ listed = [t \in Tasks |-> StatusAt(t, FirstEvents[t])]
  /\ losses = 0

Sent(e) == Kind(e) # "delta" \/ peerWatch = None \/ e.task \in peerWatch

Emit(t) ==
  /\ log[t] < Len(Script[t])
  /\ log' = [log EXCEPT ![t] = @ + 1]
  /\ pushes' = IF connected /\ Sent(Event(t, log[t] + 1)) THEN Append(pushes, Event(t, log[t] + 1)) ELSE pushes
  /\ UNCHANGED <<peerWatch, connected, main, window, requests, listed, losses>>

Answer(r) ==
  /\ connected /\ r.answer = None
  /\ requests' = (requests \ {r}) \cup {[r EXCEPT !.answer = log[r.task]]}
  /\ UNCHANGED <<peer, link, main, window, listed, losses>>

\* loadTasks: the answer to tasks.list.
ListArrives(t) ==
  /\ connected /\ listed[t] # StatusAt(t, log[t])
  /\ listed' = [listed EXCEPT ![t] = StatusAt(t, log[t])]
  /\ UNCHANGED <<peer, link, main, window, requests, losses>>

-----------------------------------------------------------------------------
(* The link and the main process of the controller. *)

Loss == losses < MaxLosses /\ losses' = losses + 1

LosePush ==
  /\ pushes # <<>> /\ Loss /\ pushes' = Tail(pushes)
  /\ UNCHANGED <<peer, connected, main, window, requests, listed>>

Disconnect ==
  /\ connected /\ Loss
  /\ connected' = FALSE /\ pushes' = <<>>
  /\ UNCHANGED <<peer, main, window, requests, listed>>

\* #connect: the stale marks go, the watch list is declared again, and requests
\* are written again (they stay in `requests').
Reconnected ==
  /\ ~connected /\ connected' = TRUE
  /\ stale' = {}
  /\ peerWatch' = IF ownWatch = None THEN peerWatch ELSE ownWatch
  /\ UNCHANGED <<log, pushes, ownWatch, cursors, batch, window, listed, losses>>

\* After the back-off: the window hears `resumed' and catches up.
Redial == Reconnected /\ Resync

\* wake() dials at once, with `attempt' at zero: nobody hears `resumed'.
Wake == Reconnected /\ UNCHANGED requests

Joined(t) == ownWatch = None \/ t \in ownWatch

PushArrives ==
  /\ pushes # <<>> /\ connected /\ pushes' = Tail(pushes)
  /\ UNCHANGED <<peer, connected, ownWatch, window, requests, listed, losses>>
  /\ LET e == Head(pushes)
         cursor == cursors[e.task]
     IN IF e.seq <= cursor THEN UNCHANGED <<cursors, stale, batch>>
        ELSE /\ stale' = IF cursor > 0 /\ e.seq > cursor + 1 /\ Joined(e.task) THEN stale \cup {e.task} ELSE stale
             /\ cursors' = [cursors EXCEPT ![e.task] = e.seq]
             /\ batch' = Append(batch, e)

\* #flushNow, and applyBatch in the window.
Flush ==
  /\ batch # <<>> /\ batch' = <<>> /\ stale' = {}
  /\ UNCHANGED <<peer, link, ownWatch, cursors, viewRef, cache, token, listed, losses>>
  /\ LET events == OfTask(batch, viewRef.task)
         next == ApplyEvents(viewRef, events)
     IN CASE viewRef.task # None /\ viewRef.task \in stale ->
               Resync /\ UNCHANGED <<view, buffered>>
          [] viewRef.task = None \/ (viewRef.task \notin stale /\ events = <<>>) ->
               UNCHANGED <<view, buffered, requests>>
          [] viewRef.task # None /\ viewRef.task \notin stale /\ events # <<>> /\ ~viewRef.ready ->
               buffered' = buffered \o events /\ UNCHANGED <<view, requests>>
          [] OTHER ->
               /\ view' = next /\ UNCHANGED buffered
               /\ IF next.needsResync THEN Resync ELSE UNCHANGED requests

-----------------------------------------------------------------------------
(* The window. *)

\* What setView was given reaches the screen, viewRef and the cache.
Rendered(v) ==
  /\ viewRef' = v
  /\ cache' = IF v.task # None /\ v.ready THEN [cache EXCEPT ![v.task] = v] ELSE cache

Render ==
  /\ viewRef # view /\ Rendered(view)
  /\ UNCHANGED <<peer, link, main, view, buffered, token, requests, listed, losses>>

\* declareWatch: watchTasks in the main process.  The peer is told at once, or
\* not at all (the frame is written once).
Declare(tasks, heard) ==
  /\ ownWatch' = tasks
  /\ cursors' = [t \in Tasks |-> IF t \in tasks THEN 0 ELSE cursors[t]]
  /\ stale' = stale \ tasks
  /\ peerWatch' = IF heard THEN tasks ELSE peerWatch

\* A click: React renders it before anything else runs.
OpenTask(t) ==
  /\ token < MaxOpens /\ Room /\ token' = token + 1
  /\ \/ connected /\ Declare({t}, TRUE) /\ UNCHANGED losses
     \/ ~connected /\ Declare({t}, FALSE) /\ UNCHANGED losses
     \/ connected /\ Loss /\ Declare({t}, FALSE)
  /\ view' = IF cache[t].task = t THEN cache[t] ELSE EmptyView(t)
  /\ Rendered(view') /\ buffered' = <<>>
  /\ requests' = requests \cup {[NewRequest("open", t) EXCEPT !.token = token + 1]}
  /\ UNCHANGED <<log, connected, pushes, batch, listed>>

Closed ==
  /\ Declare({}, connected) /\ view' = EmptyView(None)
  /\ UNCHANGED <<log, connected, pushes, batch, buffered, viewRef, cache, token, listed>>

Settled(r) == requests' = requests \ {r}

\* (Mutant.)  The answer for a conversation that was left is shown.
OpenedLate(r) ==
  /\ r.kind = "open" /\ r.answer # None /\ Settled(r)
  /\ view' = ApplyEvents(ApplySnapshot(EmptyView(viewRef.task), r.task, r.answer), buffered)
  /\ buffered' = <<>>
  /\ UNCHANGED <<peer, link, main, viewRef, cache, token, listed, losses>>
Opened(r) ==
  /\ r.kind = "open" /\ r.answer # None /\ Settled(r)
  /\ UNCHANGED <<peer, link, main, viewRef, cache, token, listed, losses>>
  /\ IF r.token # token THEN UNCHANGED <<view, buffered>>
     ELSE /\ view' = ApplyEvents(ApplySnapshot(EmptyView(r.task), r.task, r.answer), buffered)
          /\ buffered' = <<>>

\* One page of resync.  The last one is applied to the view as it is then.
PageEnd(r) == IF r.cursor + PageSize < r.answer THEN r.cursor + PageSize ELSE r.answer
Paged(r) ==
  /\ r.kind = "page" /\ r.answer # None
  /\ UNCHANGED <<peer, link, main, buffered, viewRef, cache, token, listed, losses>>
  /\ LET more == PageEnd(r) < r.answer
         next == [r EXCEPT !.cursor = PageEnd(r), !.round = @ + 1, !.answer = None]
     IN CASE more /\ r.round < CatchUpRounds ->
               requests' = (requests \ {r}) \cup {next} /\ UNCHANGED view
          [] more /\ r.round = CatchUpRounds /\ viewRef.task = r.task ->
               requests' = (requests \ {r}) \cup {NewRequest("snapshot", r.task)} /\ UNCHANGED view
          [] ~more /\ viewRef.task = r.task ->
               /\ view' = [ApplyEvents(viewRef, Events(r.task, r.from + 1, r.answer)) EXCEPT !.needsResync = FALSE]
               /\ Settled(r)
          [] OTHER -> Settled(r) /\ UNCHANGED view

CaughtUp(r) ==
  /\ r.kind = "snapshot" /\ r.answer # None /\ Settled(r)
  /\ UNCHANGED <<peer, link, main, viewRef, buffered, cache, token, listed, losses>>
  /\ view' = IF viewRef.task = r.task THEN ApplySnapshot(viewRef, r.task, r.answer) ELSE view

\* (Mutant.)  Only a run that reads as going is doubted.
RecoverRunning ==
  /\ Room /\ viewRef.task # None /\ viewRef.status = "running" /\ listed[viewRef.task] = "idle"
  /\ requests' = requests \cup {[NewRequest("refresh", viewRef.task) EXCEPT !.base = viewRef]}
  /\ UNCHANGED <<peer, link, main, window, listed, losses>>

\* The recovery timer: the view and the peer's list disagree on the run.
Recover ==
  /\ Room /\ viewRef.task # None /\ viewRef.status # listed[viewRef.task]
  /\ requests' = requests \cup {[NewRequest("refresh", viewRef.task) EXCEPT !.base = viewRef]}
  /\ UNCHANGED <<peer, link, main, window, listed, losses>>

\* refreshFromSnapshot applies the snapshot to the view it was asked for.
Refreshed(r) ==
  /\ r.kind = "refresh" /\ r.answer # None /\ Settled(r)
  /\ UNCHANGED <<peer, link, main, viewRef, cache, token, listed, losses>>
  /\ IF viewRef.task # r.task THEN UNCHANGED <<view, buffered>>
     ELSE /\ view' = ApplyEvents(ApplySnapshot(r.base, r.task, r.answer), buffered)
          /\ buffered' = <<>>

\* A request passes its deadline.
Fails(r) ==
  /\ Loss
  /\ CASE r.kind = "open" /\ r.token = token -> Settled(r) /\ Closed
       [] r.kind = "page" /\ viewRef.task = r.task ->
            /\ requests' = (requests \ {r}) \cup {NewRequest("snapshot", r.task)}
            /\ UNCHANGED <<peer, link, main, window, listed>>
       [] OTHER -> Settled(r) /\ UNCHANGED <<peer, link, main, window, listed>>

-----------------------------------------------------------------------------

Deliver(r) == Opened(r) \/ Paged(r) \/ CaughtUp(r) \/ Refreshed(r)

ViewNext ==
  \/ \E t \in Tasks : Emit(t) \/ ListArrives(t) \/ OpenTask(t)
  \/ LosePush \/ Disconnect \/ Redial \/ Wake
  \/ PushArrives \/ Flush \/ Render \/ Recover
  \/ \E r \in requests : Answer(r) \/ Deliver(r) \/ Fails(r)

ViewSpec == ViewInit /\ [][ViewNext]_viewVars

\* The link comes back, the peer answers, timers fire.  Nobody has to write to
\* a conversation, and nobody has to open one.
Arrives == \/ Redial \/ PushArrives \/ Flush \/ Render \/ \E t \in Tasks : ListArrives(t)
           \/ \E r \in requests : Opened(r) \/ Paged(r) \/ CaughtUp(r)
ViewFairSpec ==
  /\ ViewSpec /\ WF_viewVars(Arrives)
  /\ WF_viewVars(Recover \/ \E r \in requests : Answer(r)) /\ WF_viewVars(\E r \in requests : Refreshed(r))

-----------------------------------------------------------------------------

\* Types: counts stay within the scripts, and whatever names a task names one.
ViewTypeOK ==
  /\ \A f \in {log, cursors} : f \in [Tasks -> Nat] /\ \A t \in Tasks : f[t] <= Len(Script[t])
  /\ connected \in BOOLEAN /\ stale \subseteq Tasks
  /\ \A v \in {view, viewRef} : /\ v.task \in Tasks \cup {None}
                             /\ v.status \in {"idle", "running"}
  /\ \A r \in requests : /\ r.kind \in {"open", "page", "snapshot", "refresh"} /\ r.task \in Tasks
                        /\ r.round \in 0..CatchUpRounds /\ r.token \in 0..token

\* What the window shows of a conversation is a prefix of that conversation:
\* no event of another one, none twice, none after a hole, whatever snapshot,
\* page or push came first.
ShowsAPrefix ==
  \A v \in {view, viewRef} \cup {cache[t] : t \in Tasks} :
    v.ready => /\ v.text = Events(v.task, 1, v.latest)
               /\ v.latest <= log[v.task]

\* In the end the view says of the run what the peer says, and once that run has
\* ended it shows every event that reached this machine, whatever was lost,
\* overtaken, or given to a view that was not rendered yet.
PeerStatus(t) == StatusAt(t, log[t])
Agrees(v) ==
  v.task # None => /\ v.status = PeerStatus(v.task)
                   /\ v.ready /\ PeerStatus(v.task) = "idle" => v.latest >= cursors[v.task]
ViewAgrees == <>[]Agrees(viewRef)
=============================================================================
