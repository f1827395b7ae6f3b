# Verification of Shun

Shun is a local-first coding agent: an Electron desktop application, a terminal
client, and a host service both can talk to. A *task* is one conversation; a
*run* is one turn of the agent in it. This directory holds TLA+ models of the
parts of Shun whose correctness is a matter of order: promises that overlap,
files that are written in the background, processes that outlive the
application, machines that lose each other's messages, and restarts at any
point. Paths below are those of the repository.

- [Parts of the system](#parts-of-the-system)
- [Modules](#modules)
- [Runs, bounds and results](#runs-bounds-and-results)
- [Fairness](#fairness)
- [What is proved](#what-is-proved)
- [Where the code and its words disagree](#where-the-code-and-its-words-disagree)
- [What is not modelled](#what-is-not-modelled)
- [Plan](#plan)

## Parts of the system

| part | state it keeps | operations | hard about it | what makes it correct |
|---|---|---|---|---|
| Task event log, `src/main/task-events.ts` | a file of JSON lines per task, the cached last sequence, two promise chains | append, read, lastSequence, remove | overlapping appends, failing and torn writes, removal under an append, restart | lines in call order, numbers increasing, no call left hanging |
| Host service, `src/host/service.ts` with `src/main/task-runs.ts` | the saved file of tasks, a queue of saves, the registry of runs, an in-memory tail of events per task | task.send, task.snapshot, task.events, task.stop, task.delete, close, initialize | every await is a place where another terminal's call runs; retries with the same run id | one run at a time, what was answered survives, deleted stays deleted, readers miss nothing |
| Remote link, `src/main/remote-client.ts`, `src/main/remote-service.ts` | per direction a sequence number, a reserved block of numbers on disk, a receive mark on disk; pending requests; response cache | request, watch, retry, deadline, reconnect, accept a frame, answer | loss, repetition, reconnection, restart of either end | no frame acts twice, no request runs twice in a life of the peer, requests settle |
| Background processes, `src/main/background-tasks.ts` | a table of tasks, one record file each, an index file; the operating system's process groups | start, stop, remove a session, restore, probe | exit event against kill timer, partial saves, processes that outlive the application | nothing alive goes unsupervised, disk is truthful, ends are final |
| Scheduled prompts, `src/main/local-schedules.ts` | schedules and pending occurrences in memory and in one file, a timer | create, update, remove, runNow, tick, markRunning, finishOccurrence, init | awaited writes between deciding and delivering, missed times, restart | no occurrence twice, no pile-up, nothing due is forgotten |
| Main process, `src/main/index.ts` | runs, the queue of scheduled occurrences, pushes to windows and remote machines, deletion of task data | startAgentRun, drainScheduledTask, task:stop, agent:interrupt, agent:compact, deleteTaskData | many independent timers and handlers over shared maps | a task has one run; a queue is drained |
| Desktop window, `src/renderer/src/app.tsx` | the message queue, what it shows as running, what it last heard of each conversation | send, queue, interrupt, stop, compact, archive, revise, save | answers of calls race pushed run states | no message disappears, the window agrees with the main process |
| Saved state of the desktop, `src/main/state-store.ts`, `src/main/assistant-tasks.ts` | the state file, its cache and stamp, a queue of operations, batches of deltas; results waiting for their assistant | read, snapshot, save, applyDelta, mutate, publish | deltas against whole-state writes, readings that are shared, failing writes | what was answered stays, the window knows what it has described, a result is told once |
| Monitors, `src/main/monitor-gate.ts` | a cursor, an outbox and a retry time per monitor, in one file | check, complete, fail | a change is offered again after every failure | nothing skipped, nothing told twice, what happens arrives |
| Conversation checkpoints, `src/main/conversation-checkpoints.ts` | content-addressed objects and one manifest per message | preview, capture, restore | partial failure of a capture or a restore, objects that checkpoints share | a restore is exact or touches nothing |
| Remote conversations, `src/renderer/src/remote-session.ts`, `remote-conversation.ts` | a view, cached views, cursors and stale marks, the watch list, batches | open, close, apply a push, catch up, resync, recover | pushes, pages and snapshots overtake one another | a view shows a prefix and converges |
| Idle maintenance, `src/main/assistant-idle-maintenance.ts` | a pending job, the running one | schedule, yield to the foreground | a job aborted and awaited by a starting run | never beside a run |
| Agent supervision, `src/main/agent-supervisor.ts` | counters of steers and repeated failures | observe a tool result, decide a steer | long sequences of outcomes | a run is steered a bounded number of times |
| Web search, `src/main/web-search-coordinator.ts` | slots, spacing, hedges and cooldowns per provider | search, release | hedged requests against cancellation and blocks | no slot leaks, a block holds |

`PROJECT.json` lists the remaining parts, with the reason each is left out.

The parts interact in a few narrow ways, and the modules are cut there. The
event log is the one record of a run: the host service appends to it, and every
client reads from it by sequence. The dispatcher in the main process calls the
schedule manager and is called by it. The two ends of a remote link share only
frames. Background processes are stopped by task:stop and by deletion, and
share only the operating system with the rest. A monitor hands its changes to the
dispatcher, which queues them as results in the saved state, under the change's
id; `Monitors` ends where `SavedState` begins. The pushes that `RemoteView` reads
travel over the link of `RemoteLink`, which it takes as a channel that keeps order
and may lose. `DesktopRuns` and `Checkpoints` look at the same runs, one from the
registry and the window, the other from the files.

## Modules

| module | stands for | extends |
|---|---|---|
| `EventLog` | abstract: what a reader may rely on | |
| `TaskEvents` | the store of one task's events | `EventLog` by instance |
| `HostEventReader` | snapshot, task.events and a polling client | `TaskEvents` |
| `HostRuns`, `MC_HostRuns` | calls and runs of one task of the host service | |
| `RemoteLink` | one pairing of two machines | |
| `BackgroundTasks`, `MC_BackgroundTasks` | the manager of processes and the processes | |
| `LocalSchedules` | the manager of scheduled prompts | |
| `ScheduledDispatch`, `MC_ScheduledDispatch` | the dispatcher, composed with the manager | `LocalSchedules` |
| `SavedState` | the store of the desktop's state with a window, the service and a reader as clients | |
| `Monitors` | the gate and the part of the dispatcher that moves its changes | |
| `RemoteView`, `MC_RemoteView` | a window watching conversations of a paired machine | |
| `DesktopRuns` | the window and the main process over the runs of one conversation | |
| `Checkpoints`, `MC_Checkpoints` | capture and restore of a workspace around the runs of one conversation | |
| `TaskEventsProofs` | theorems about the log and about its readers | `HostEventReader` |
| `HostRunsSavedStateProofs` | theorems about the runs of the host service and about the saved state | `HostRuns`, `SavedState` |
| `RemoteLinkViewProofs` | theorems about a link and about a view of what comes over it | `RemoteLink`, `RemoteView` |
| `DesktopRunsProofs`, `MonitorsProofs`, `BackgroundTasksProofs`, `CheckpointsProofs`, `ScheduledDispatchProofs` | theorems | the module they prove about |

Where one module proves about two components, their proofs share lemmas about
sequences and recursion and nothing else. So that both can be extended, the second
one's `Init`, `Next` and so on carry its name (`StateInit`, `ViewSpec`).

`PROJECT.json` maps every definition to the lines it stands for. How states
correspond:

**TaskEvents.** One action per stretch of `append` between two awaits:
`AppendCall` joins the allocation chain, `LookUp` and `ReadLast` are
`#lastWritten`, `Assign` is the synchronous rest of the allocation (number,
cache, live listeners, joining the write chain), `WriteLine` or `WriteFails` is
`appendFile`, `Notify` the durable listeners. A promise of a chain is named by
the call it belongs to, so `priorAlloc` and `priorWrite` are what a call was
chained behind. `file` holds the lines that parse and `partial` says whether
half a line stands at the end, because the next line then shares that line.
`Crash` loses everything but `file` and `partial`.

**HostEventReader.** `at` is where the client's request is: both `lastSequence`
and `read` wait for the allocations and then for the writes, and each wait is a
step. `StoreStep` is any step of the store together with what the service's
durable listener does with it (the tail). The client keeps its cursor when the
service dies.

**HostRuns.** `pc` follows a call of `task.send` through snapshot, claim,
request event, save and launch, and then the run to its release. `active` is
both the registry and `this.active`. A save is queued with the contents the
code serialises at the call (`persist` stringifies before it waits), which is
what `saves` records. The log is used through `EventLog`: an append is all or
nothing.

**RemoteLink.** Each direction is a sequence of frames; a frame carries its
number and what it asks for. `waiting` holds the writes that have taken a number
and wait for the block to be saved, which is where two of them overlap.
`intake` holds frames whose mark is not yet saved. The relay loses and repeats;
it does not reorder a direction.

**BackgroundTasks.** `state` is the table the user sees; `leader` and `rest`
are the operating system's side: the shell, and whatever else lives in its
group. `child` tells a task this application started, which gets exit events,
from one restored from disk, which is probed. A failing save writes some of the
records and not the index.

**LocalSchedules.** Time is the number of the interval between two due times,
since nothing in the manager depends on more. A write in the chain holds what it
will save (the code clones at the call) and the kind of operation that waits for
it; the rest of that operation is the action for its landing. `ScheduledDispatch`
owns what `index.ts` adds: the queue, `scheduledDraining`, the run that holds
the task (the user's or a scheduled one) and the settling of a run.

**SavedState.** A state is what the properties tell apart: a version per
conversation and of the settings, and the results that wait or are turns.
`queue` is the write queue, `open` the batch that still takes deltas, `op` the
operation that runs (with its reading, its temporary file and its rename as
steps), `load` a reading that several callers may share, with the stamps that
`readStored` compares. The window describes itself by `sent`; `syncing` holds
saves that wait for the lock of the provider settings.

**Monitors.** `record` is what the gate remembers, `disk` its file, `writes` the
chain of saves. `flow` follows one occurrence of a monitor through
drainScheduledTask: probing, saving, queueing a result or running, completing.
Sources number their events; `handled` and `results` record who was told.

**RemoteView.** `pushes` keeps the order of what it does not lose; `requests`, which
carry their answers, keep none. `cursors`, `stale` and `batch` are the main process's;
`view` is what was last given to React and `viewRef` what it has rendered and the
callbacks read; they differ until `Render`. What a conversation shows is the
sequence of the events in its text and the status of its run, both computed from
the log as `remote-projection.ts` reduces it.

**DesktopRuns.** `toMain` and `toWindow` are the channels of Electron; `answers`
are replies of calls, which come on their own. `registry` is `taskRuns`, `phase`
a run between its registration and its release, `waiting` the calls that await
the end of a run (agent:interrupt), `compact` and `idle` the two other users of
the session. In the window `queue`, `running` and `heard` are the React state and
`runStateOverrides`. A run is named by its message.

**Checkpoints.** `workspace` is the files, `objects` and `saved` the store on
disk. `writes` holds the object writes under way; those of a capture that was
rejected go on without it. `stage` follows a run through restore (scan, verify,
remove, place) and capture (scan, objects, manifest). `Edit` is everybody else.

Where a lambda or handler runs to its next await without interruption it is one
action, since Node runs one callback at a time.

## Runs, bounds and results

All runs finish in under four minutes with two workers.

| run | shows | bounds and why they suffice |
|---|---|---|
| `task_events` | lines keep call order, every append and removal settles, the file implements `EventLog` | three appends: one ahead, one in the middle, one behind in both chains at once. One removal and one crash, both at any point; every write may fail or tear |
| `event_reader` | a client that snapshots and polls across failing writes and a restart misses, repeats and reorders nothing; it catches up while writes succeed, and its snapshot is answered unless the event it ends at was lost | pages of one event and a tail of two, so that three events need several pages and fall out of the tail |
| `host_runs` | one run at a time, an answered message is saved, a deleted task stays deleted, a released run has its last event, a call repeated with its run id never runs a recorded run again; send, stop and close answer | two calls with one run id (what two terminals with runs of their own do is a part of it, and the theorems cover any calls), stop, delete, close, failing disk and a restart at any point |
| `remote_link` | no frame acts twice, answers are never taken for replays, one execution per life of the peer, a request settles without its deadline | a request and a watch list, blocks of two numbers so that a block runs out, any two faults out of loss, repetition, closing, restart |
| `remote_link_reuse` | *violated:* a spent sequence is never reused | two requests, no faults |
| `background_tasks` | no live shell is orphaned, disk is truthful, limits hold across the await of start, ends are final, a stop ends | two starts competing for one place, two restarts, two partial saves |
| `schedules` | nothing runs twice, no pile-up, nothing is delivered unsaved, what is due comes to its end | one schedule of either kind over two due times, one edit, one restart, one failing write, one stop, each at any point |
| `saved_state` | no save takes back a result that was reported or delivered, the window knows what it has described, readers are current, a result becomes a turn once, everything is answered | one conversation, the settings and one result, two versions, three requests (one in work, one in a batch, one behind) and one fault out of a failing write, a restart and a foreign write |
| `monitors` | nothing is skipped, no event is in two results, what happens is handed on | a monitor of either kind on two sources, batches of one event and two events so that an outbox outlives its batch, one edit, one fault |
| `remote_view` | what is shown is a prefix of the conversation, and in the end agrees with the peer | a conversation whose run is going on and one whose run has ended, pages of one event, two opens, two requests in flight, one loss of a push, declaration, connection or answer |
| `desktop_runs` | no message disappears silently, runs, compactions and idle jobs never meet, window and queue come to rest | two messages, each sent, queued or sent at once, a scheduled run, one Stop, compaction or archiving, each at any point; every request write may fail |
| `checkpoints` | an undisturbed restore is exact or touches nothing, a checkpoint called complete has its objects | three messages (one captured, one whose capture fails, one that edits), two contents, a file, a path beneath it and one beside it, three edits, two failures |

Deadlock is not checked: a bounded number of calls is made and then nothing is
left to do, which is a legitimate end in each of these systems. Hanging calls
are caught by the liveness properties instead.

One schedule is enough for `schedules` because the manager's operations touch
the occurrences of one schedule only; what schedules share is the timer, the
write chain and the task's queue, and the due times of a recurring schedule and
its runs by hand already compete for the latter two.

Some properties make exceptions the code needs, visible in the formulas.
`LogInCallOrder` and `LogContract` hold until an append meets a removal of the
same log (`raced`). `RunsOnce` and `SavedBeforeDelivery` except an occurrence that
somebody asks for while `init` is still writing: `init` delivers everything in
memory, that occurrence included (`early`). `RunsOnce` also excepts a one-shot
schedule that was completed and is made active again: the code names an
occurrence by its schedule and its due time, so the second asking has the name of
the first (`renewed`). Without that exception a proof attempt failed for a reason:
with two edits and one failing write, a schedule that is made active twice queues
one name twice, and the end of the first run is taken for the end of the second.
`ClientIsServed` excepts a snapshot
whose last event was lost by a failed write. The properties of `SavedState` stop
at a foreign write (`replaced`). `EachChangeArrives` excepts a monitor whose run
ended with a failing write (`unfinished`). In `DesktopRuns`, `lost` marks the
messages described under 5 below. `RestoreIsExact` speaks of restores nobody
disturbs, and `AdvertisedIsWhole` excepts objects a failure cut off
(`interrupted`). What each exception lets through is described under
[Where the code and its words disagree](#where-the-code-and-its-words-disagree).

Every component defines a type invariant, `TypeOK` (`ReaderTypeOK` in
`HostEventReader`, `StateTypeOK` in `SavedState`, `ViewTypeOK` in `RemoteView`; that
of `LocalSchedules` is part of `ScheduledDispatch`). They are proved, and not part of
the runs.

Every property of a passing run has a mutant in `PROJECT.json`: a plausible bug
in one definition (a dropped wait, a lost guard, a swapped order) under which
TLC finds the property violated. The alternative bodies stand next to the
definitions they change, marked as mutants.

## Fairness

- **TaskEvents, HostEventReader, HostRuns.** Weak fairness of I/O and of promise
  continuations: Node's loop keeps running callbacks and the operating system
  finishes or fails a write. A runner must end only once it has been aborted;
  an un-aborted run may take for ever. Nobody has to call anything, and nothing
  has to crash.
- **RemoteLink.** Both ends dial again (back-off timers), handlers and saves
  end, the retry timer fires and the relay delivers what it does not lose.
  Deadlines need not pass, so that `KeptUntilSettled` speaks of the retries.
- **BackgroundTasks.** Child events, the kill timer and the probe interval
  arrive. No process has to end by itself and nobody has to restart the
  application.
- **SavedState.** The queue, the disk and the lock of the provider settings make
  progress; nobody has to ask for anything.
- **Monitors.** Writes land or fail, probes and runs answer, retry delays pass,
  and a monitor comes due again as long as it stands: its schedule is
  `ScheduledDispatch`'s business.
- **RemoteView.** What is on its way arrives or is lost, requests are answered
  or fail, React renders, sockets come back, and the recovery timer of the view
  fires. The user opens nothing for ever and the peer's run need not go on.
- **DesktopRuns.** The channels deliver, handlers run, a run ends, a compaction
  ends, an idle job ends when aborted, and the window's effect on its queue runs.
  The user presses nothing.
- **ScheduledDispatch.** Writes land or fail, a due timer fires, a due drain
  runs, runs end. Time, the user and restarts are free. Settling comes after
  marking because both pass the one queue of the saved state.

## What is proved

TLAPS checks these for every value of the constants; `PROJECT.json` lists them
with the property each one states.

**TaskEventsProofs.** `TypeCorrect`; `SequencesIncrease`; `CallOrderKept`;
`CacheKeepsUp`; `ImplementsEventLog` (every step of the store is a step of `EventLog` or leaves
the file alone, until an append meets a removal). The invariant is
`TypeInv /\ (raced \/ OrderInv)`: `LogInCallOrder` is not inductive, since the
order of lines comes from the order of two chains. `OrderInv` says what stands
between: each call in a chain stands behind an older one that is still in it, only
the oldest call of a chain is in its critical part, the calls in the write chain
have increasing numbers and are older than those still allocating, the file is
older than every call to come, and what an allocation builds on is at least every
number that was handed out.

The same module proves about `HostEventReader`, for every page size and every
length of the tail: `ReaderTypeCorrect`; `SnapshotsComplete` (`SnapshotComplete`);
`CursorNeverPasses` (`CursorSound`), under the hypothesis `~TornWrites`.
`PageIsPage` says what a page is: lines above the cursor, in order, with nothing
of the sequence left out between them; `TailPage`, that a page of a tail that
reaches back to the cursor is a page of the file. `ReaderInv` adds to the log's
invariant

- `AppliedSound`: the client holds what the file has up to its cursor, and the
  cursor is the number of a line of the file;
- `WrittenIsLast`: a line the subscribers have not been told of is the last one;
- `TailSound`: from its first line on the tail is the file, but for such a line;
- `SnapshotSound`: the end of a snapshot is not below what was there when it began.

The hypothesis is needed. A proof attempt without it failed, and TLC found why: a
line written behind half a line parses no more than that half, but its append
resolves, the service puts it into the tail, and the client applies it. Its number
is then in no line of the file, so after a restart it is given out again, and the
client, whose cursor has passed it, never asks for the new line (four appends and
one restart, with `TornWrites`). A snapshot starts from nothing and reads only the
file, so `SnapshotsComplete` needs no hypothesis: `SnapshotInv` asks for
`AppliedSound` only while a snapshot is being taken.

**HostRunsSavedStateProofs**, the host service. `TypeCorrect`, `NeverTwoRuns`, `RetriesRunNothing`,
`ReleasedIsComplete`, `AnswersAreSaved`, `DeletionIsFinal`, `PlainCallsAreSafe`,
for any number of calls and restarts. The invariant `IInv` conjoins:

- `OneRunAtATime`, `StartedOnce`: the registry names the one call in a holding
  stage, and a call starts a runner at most once;
- `WaitersInPlace`: whoever a queued save names stands where that save will find
  it, and has one save of a kind in the queue, which is what makes the landing of a
  save attributable;
- `SavedOnceAnswered`, `DeletionSettled`: while the task is there every queued save
  writes it and an answered call finds it on disk; from the deletion on, no save
  behind the deletion's own writes it, which is why a save queued earlier cannot
  bring the task back;
- `EndBeforeRelease`, `RetryStopped`: what the log must hold when a run is
  released, and when a retry has looked for its run;
- `ClaimsAtOnce`: a call whose run is not named claims in the step it looks the
  task up, so that `PlainCallsAreSafe` can say that without named runs no run
  outlives its task and a closed service is quiet. The runs on a deleted task and
  after `close` that are described below need the await that a named run adds.

The same module, the saved state: `StateTypeCorrect`, `AnsweredStays`
(`AnsweredIsOnDisk`), `DescribedStands` (`DescribedIsTrue`), `ReadersAreCurrent`
(`ReadIsCurrent`), `ResultsToldOnce` (`ToldOnce`), for any conversations, results,
batches and faults. Until a foreign write `SavedInv` says, besides the types,

- `Copies`: whatever a window holds, has sent, or has put into the queue or a batch
  knows as told only what is told on disk, so that no save, however late, brings a
  delivered result back as waiting;
- `Follows`: a state that may be written over another loses no result of it and
  tells none again. It relates the state an operation has made to the file, and the
  remembered copy to it: the copy may be ahead by an edit in place that was not
  written (`CacheInv`);
- `LoadInv`: a reading carries the stamp of the file as it was when it looked, and if
  nothing has been published since, the file still has it. So what a reader shares
  with an earlier caller is not older than what was answered before it asked
  (`ReaderInv`);
- `OpInv`: what the operation in progress has made of the state it found serves what
  was asked (`Serves`), and what it has published is the file;
- `SentInv`: what the window takes for described has the versions of the file, unless
  the answer that will say so is on its way.

`Fresh` is the special case before the first write, in which a state that nothing was
saved in must not forget a result either. The chain of a batch (`Chain`) and what the
window makes of the answers (`Known`) are recursive functions; `ChainUnrolled` and
`KnownUnrolled` are their equations, and `BatchAgrees` says that the window and the
store come to the same versions.

**RemoteLinkViewProofs**, the link. `TypeCorrect`, `AnswersNew` (`AnswersAreNew`), `DoneOnce`
(`NothingDoneTwice`), for any requests and watch lists, blocks of any size and any
number of copies, lists and faults. `TypeCorrect` needs that a request is pending
once (`PendingOnce`): an answer settles the first entry of its request, and another
entry would outlive its caller. For `NothingDoneTwice` the invariant says in
`TakenInOrder` that what was acted on is below the mark in the file and in order,
and that the frames taken since are above it, each once; so a restart, which
falls back to the file, forgets only what was not acted on. `ExecutedWhileKept`
counts the executions of a request: one while it runs or its answer is kept, none
otherwise. For `AnswersAreNew`, `AnswersReserved` bounds the numbers of the other
direction by the block on disk, from which a restarted peer goes on. When a block
has been saved, every write that waits for it goes out at once (`AllWritten`): what
holds after any number of writes is proved by the lemma `Climb`.

The same module, the view: `ViewTypeCorrect` and `PrefixIsShown` (`ShowsAPrefix`),
for any conversations and scripts, pages of any size, any number of catch-up rounds,
requests and faults. `ViewInv` says of every view there is (given to React, rendered,
cached, or the base of a refresh that is on its way) that it is not ready or shows the
first `latest` events of its conversation; of every push, batch and buffer that its
events exist; and of every answer that it is no longer than the log. `EventsKeepView`
and `SnapshotKeepsView` then need no order: an event is applied only if it is the next
one, and of two copies of a text the longer one is kept. What does need an argument is
that nothing is applied to another conversation: `OneOpened` names the one that was
opened last, and says that only it is on the screen or kept events for, and that only
the opening of it has the current token.

**DesktopRunsProofs.** `TypeCorrect`, `RunsOnce`, `NothingDisappears`
(`MessageKept`), `OneUserOfTheSession` (`WorksAlone`), for any number of messages.
The invariant names the places a message can be in: the window's queue, a call to
main, the calls that wait for a run to end, a refusal on its way back, a run.
`OnePlace` says it is in at most one of them, and there once, so that a refused
message can be queued again and a waiting one can start without a second run;
`Somewhere` that a message which was sent is in one, or alive, in the log,
reported, dropped or `lost`; `Accounted` that a run which works is in the log and
one which has ended is there or was reported. `Claimed` is what makes the session
safe across awaits: whoever is about to use it (a run in its preparation, a
compaction that asks the idle job to yield) already keeps the others from
starting.

**MonitorsProofs.** `TypeCorrect`, `NothingIsSkipped` (`NothingSkipped`),
`ToldOnlyOnce` (`ToldOnce`). A record is `Good` when its outbox holds the events of
its source up to the cursor without a gap, everything up to the outbox was handed
on, and no result tells an event beyond it except under the outbox's own name.
`WritesOK` says the same of each record that waits to be saved, `FlowOK` that from
its offer to its completion a change is what the outbox holds. So a change that is
offered again after a failure finds its earlier result by name.

**BackgroundTasksProofs.** `TypeCorrect`, `NoOrphans` (`LiveIsSupervised`),
`DiskAgrees` (`DiskIsTrue`), and the action properties `EndsAreFinal`
(`EndIsFinal`) and `LimitsHold` (`StartsWithinLimits`). `MemoryOf` relates the
table to the shell; `RecordOf` relates the record on disk to both, across a
restart: a record that says ended and has a process id tells of a shell that is
gone. A save that fails leaves each record as it was, removed or true.

**CheckpointsProofs.** `TypeCorrect`, `RestoresExactly` (`RestoreIsExact`),
`CompleteIsWhole` (`AdvertisedIsWhole`), for every set of paths with a nesting.
`TreesOK`: a file has nothing beneath it, in the workspace and in every
checkpoint. `Undisturbed` follows the workspace of a restore nobody disturbs from
the verification to the new message's checkpoint: what is not left to do is as the
checkpoint has it, and beneath what is still to be removed there is nothing.
`ObjectsOK`: an object that is cut off is being written or was given up.

**ScheduledDispatchProofs.** `TypeCorrect`, `NoneInWaiting` (`NoPileUp`), and the
action properties `SavedFirst` (`SavedBeforeDelivery`) and `StartsOnce`
(`RunsOnce`), for any number of schedules, edits, failing writes, stops and
restarts. The hard part is the chain of writes, each of which holds an older state
of the maps; any of them may be what a restart finds. The invariant says of the
memory, the file and every write at once:

- `Single`: one occurrence per schedule, in each of those states;
- `ChainOK`: what a write hands over when it lands is in what it saves, and what
  `init` will find pending when its write lands is in that write or was asked for
  behind it;
- `Names`: an occurrence that is pending somewhere, or that the dispatcher was
  given, is *past*: its schedule has moved beyond it in the memory, in the file and
  in every later write, so that none of them can ask for its name again;
- `Held`, `Awaited`: what the dispatcher was given and is still pending is in
  `#delivering`, and no write will hand it over;
- `Placed`: an occurrence is queued, in preparation or started, in one of these.

Most actions are handled by their *shape*: the chain loses its head or not, gains a
write of the new state or not, and the state gains only fresh names.

The proofs assume only the `ASSUME`s of the modules: bounds are naturals, sets of
names are finite, `None` and the user's run are not among the values they stand
beside, nothing lies beneath itself, two calls share a run only if both name it.
TLC evaluates them in the runs. Each inductive invariant was checked by TLC as an
invariant of its run, and with larger bounds, before it was proved.

`Climb`, in three of the modules, is induction over the numbers from 0 to n for a
given set: were there numbers outside the set, the intervals below them would have
a smallest one, by the well-foundedness of strict inclusion among finite sets. With
it the equation of a recursive function (`OnlyUnrolled`, `Unrolled`) can be followed
from one index to the next; `Recursion` says that a step function and a first value
always have such a function.

Some models were changed for the proofs, none in what it does. `SendQueuedNow` of
`DesktopRuns` removes the message by its place in the queue as the code does. The
histories of `ScheduledDispatch` (`started`, `renewed`) keep what was started for
good, so that `RunsOnce` speaks of every earlier process. `AllWritten` of
`RemoteLink`, `Only` of `HostEventReader` and `OfTask` of `RemoteView` are recursive
functions where they were folds and selections of the libraries, which the provers do
not look into. In `ApplyEvent` of `RemoteView` two cases overlapped where a view is not
ready; TLC takes the first one, as the code does, and now the formula says so. The
definitions of `SavedState` and `RemoteView` that would clash with those of the module
they are proved beside have other names.

Every invariant and every action property of the passing runs is a theorem, but for
`CursorSound`, which is one under `~TornWrites`. Only model-checked are the liveness
properties (`EveryCallEnds`, `KeptUntilSettled`, `ViewAgrees` and so on): they need
fairness and ENABLED, about which TLAPS does not reason.

## Where the code and its words disagree

One run expects a violation; `PROJECT.json`, "findings", quotes the words:

1. `remote_link_reuse`: two frames that overlap while a block of numbers is
   reserved use one number, against "A spent sequence is never reused, whether or
   not this write is delivered." (`remote-client.ts:613`).

The models show these too, as an exception of a property or as a behaviour a
stronger property would exclude:

2. *Snapshot.* A failed write leaves the cached sequence ahead of the file, and a
   snapshot that ends at the lost event reads the same page for ever
   (`service.ts:129`), against "A disk failure stops this run and is surfaced on
   the next read/write." (`service.ts:406`).
3. *Deletion.* A task deleted while a send with a run id takes its snapshot gets
   a run all the same (`service.ts:327`), against "Stop this task and its
   background processes before deleting it." (`service.ts:281`).
4. *Stop of a tree.* A stop whose shell ends on SIGTERM leaves a descendant that
   ignores the signal alive: the exit event clears the kill timer
   (`background-tasks.ts:220`), against "each process runs in its own process
   group so the full tree can be stopped" (`BACKGROUND_TASKS.md:40`).
5. *Interrupts.* When several interrupts await the end of one run, only the first
   one starts; the others are answered `false`, which the window ignores
   (`app.tsx:3245-3250`), so their messages are shown and never run, and are in no
   log. An interrupt during a compaction is refused the same way, and the window
   shows it as running for ever, with its queue blocked.
6. *Archiving.* Archiving a conversation empties its queue of scheduled
   occurrences without finishing them, which blocks their schedules until a
   restart (`index.ts:1807`), against "one-shot schedules persist, run through a
   durable occurrence, and complete" (`local-schedules.test.ts:18`). And an
   interrupt that waits for the stopped run starts its own when that run ends, so
   the archived conversation runs, against "Keep a task closed to new work until
   its stop and data mutation both finish" (`task-actions.ts:1`); deletion then
   fails with "Stop the active task before deleting it.".
7. *Checkpoints.* An object that a crash or a full disk cut off stays, because an
   object that exists is taken for written (`conversation-checkpoints.ts:61-63`).
   Every later capture of that content is saved as complete and advertised by the
   preview, and its restore refuses with "A conversation checkpoint object is
   missing or corrupt." A restore that fails midway, by a failing write or an exit,
   leaves the workspace half restored, and nothing remembers it.
8. *Remote view.* An answer that was put into React's state but not rendered is
   overwritten by a page that is applied to the view before it: the conversation
   is blank until it is opened again; and a refresh applies its snapshot to the
   view it was asked for, so that the sequence can go back
   (`remote-session.ts:1344-1353`). Both are against "What was fetched is applied
   to the view *as it is now*" (`remote-session.ts:503`). `wake` dials with attempt
   zero, so the window is not told that the link resumed, and pushes missed during
   sleep are not caught up, against "A link that just came back may have missed
   pushes; the view is resynced" (`remote-session.ts:1235`).

Seen while modelling, and not the subject of a run:

- *Event log.* A line cut off by a crash or a full disk swallows the next event,
  although its append resolves (`task-events.ts:40`). Durable listeners are told of
  that event, its number is in no line, and a restart gives the number to another
  event, which a client that polls from its cursor never sees (`task-events.ts:112-130`,
  `service.ts:62-67`). Live listeners see an event
  before it is written; a crash in between gives its sequence to another event
  (`task-events.ts:34`).
- *Host service.* Two calls with one run id can both run when both take their
  snapshot before either has recorded its request (`service.ts:325-327`). A title
  job can re-create the log of a deleted task (`service.ts:389`; 385 starts it
  beside the run). A launch that fails after the request was recorded leaves a
  request that every retry is told is a duplicate (`service.ts:354`). A send that
  is in its snapshot when `close` is called starts a run afterwards
  (`service.ts:313`).
- *Remote link.* A block is raised in memory before its save, so that a failing
  save is followed by numbers that a restart reuses (`remote-client.ts:604`). The
  response cache dies with the peer, so a request whose answer was lost is
  executed again after a restart (`remote-service.ts:75`). `connectLink` looks at
  the sockets before the dial and registers after it (`remote-service.ts:287`).
- *Background processes.* A crash between spawn and the spawn event leaves a
  record without a process id, so restore takes the task for ended while its
  shell lives (`background-tasks.ts:207`). A record that does not parse ends
  restore, and the next save drops the others.
- *Schedules.* An occurrence is saved as running after its run has started: a
  crash in between runs it again (`index.ts:2562`). A tick whose write fails
  sets no timer and delivers nothing, and its occurrences block their schedules
  until a restart (`local-schedules.ts:229`). A `finishOccurrence` that fails in
  the catch of the drain keeps the task in `scheduledDraining`
  (`index.ts:2578`). `init` delivers what is asked for while it writes, and the
  operation itself may deliver it again (`local-schedules.ts:59`). `runNow` on a
  paused schedule is dropped by the drain and reads as succeeded
  (`index.ts:2493`).
- *Saved state.* A `mutate` that fails leaves its edit in the remembered copy
  (`state-store.ts:76`, `168-179`). A save with settings waits for a polled lock,
  so that a later save can overtake it (`index.ts:1993`). A reading begun by an
  outside reader while nothing is remembered can be shared with the next operation
  of the queue.
- *Monitors.* When the write at the end of a monitor's run fails, its occurrence
  stays unfinished, and its schedule stands until a restart (`index.ts:2545`).
- *Remote view.* Events that arrive between the answer of an open and its
  rendering are kept aside and read only by a refresh. An older snapshot keeps the
  newer sequence but brings its own status. `#connect` clears stale marks while
  events wait in the batch (`remote-client.ts:465`). A watch declaration is written
  once; lost, it leaves the peer with the previous list (`remote-client.ts:358`).
  The recovery timer repairs what the run of the model allows to be repaired.
- *Desktop runs.* A schedule can start between task:stop and the removals of
  deleteTaskData, which checks only at its start (`index.ts:2795-2818`). Stop
  pressed while an interrupt waits cancels a run the main process does not know
  yet (`index.ts:2081`). A message refused by a compaction is tried again in a busy
  loop and goes to the end of the queue (`app.tsx:3281`). `sendQueuedNow` removes
  the message even when it was not taken (`app.tsx:3486-3491`). A remote
  task.message.send answers "Task is already running." although the message was
  queued and will run (`app.tsx:4053-4060`). `runStateOverrides` keeps the last
  state only, so an answer overtaken by a whole later run would stick; the model
  assumes that none is (`Prompt`). The reservation of a queued message stays when
  a pending cleanup fails.
- *Web search*, read but not modelled: a late empty answer clears the cooldown of
  a block (`web-search-coordinator.ts:255-258`), and a second failure after a block
  shortens it from 45 minutes to 30 seconds; `bench` returns on some paths without
  saving; a late cache write may replace a newer entry.

## What is not modelled

- Parts whose behaviour is another program's: models and providers, browsers,
  native applications, web APIs, terminals.
- Conversions of text and files: web research, attachments, plugin packages,
  the components of the user interface.
- Within the modelled parts: the child tasks of an assistant other than their
  results; pairing, unpairing and file transfer over the link; output, endpoints
  and logs of background processes; validation and one-field edits of the host
  service; the backup file and an unreadable primary file of the saved state; in
  the remote view sending, queues, approvals, history pages and the task opened by
  its first message; in the desktop runs retries of a reply, /clear, deletion and
  edits of the queue; in the checkpoints file modes, directories that are empty or
  ignored, the order in which a scan reads, and the deletion of a conversation.
- Agent supervision, web search and updates, which the plan has; the agent loop
  itself, which is mostly a library's.
- Reuse of process ids by the system, changes of the clock, corrupt files other
  than a torn last line of the log.

## Plan

In order; what is there already is marked.

| step | module | composes | specification worth stating | proofs |
|---|---|---|---|---|
| 1 ✓ | `EventLog`, `TaskEvents` | | the log as a sequence that grows or is cleared | type, order, refinement ✓ |
| 2 ✓ | `HostEventReader` | `TaskEvents` | a reader that applies a prefix of the log | type, cursor and snapshot ✓ |
| 3 ✓ | `HostRuns` | `EventLog` by its contract | a task with one run, saved before it is answered | all safety ✓ |
| 4 ✓ | `RemoteLink` | | exactly-once intake over a lossy relay | all safety ✓ |
| 5 ✓ | `BackgroundTasks` | | a supervised process with one end | all safety ✓ |
| 6 ✓ | `LocalSchedules`, `ScheduledDispatch` | each other | an occurrence goes from due to done once | all safety ✓ |
| 7 ✓ | `Monitors` | `ScheduledDispatch`' interface | a change is delivered until it is completed | all safety ✓ |
| 8 ✓ | `SavedState` | | a register that readers and writers of deltas agree on | all safety ✓ |
| 9 ✓ | `RemoteView` | `RemoteLink`'s guarantees | a view that converges to the log | all safety ✓ |
| 10 ✓ | `DesktopRuns` | | a message is kept until it has run | all safety ✓ |
| 11 ✓ | `Checkpoints` | | all or nothing | all safety ✓ |
| 12 | supervision, search slots, updates | | bounded ladders; slots conserved | bounds |

From here: the equivalence of the order in which `SavedState` applies deltas with a
register that is written whole, as a refinement; the guarantees of `RemoteLink` that
`RemoteView` takes (an ordered channel that loses) as an abstract module both refer to;
then step 12. Bounds of the next runs follow the present ones: two actors and one of
each kind of fault, with every fault at any point.
