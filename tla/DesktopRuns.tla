---------------------------- MODULE DesktopRuns ----------------------------
(***************************************************************************)
(* The runs of one conversation on the desktop: the window that sends,     *)
(* queues, interrupts, stops, compacts and archives                        *)
(* (src/renderer/src/app.tsx), and the main process that holds the         *)
(* registry of active runs, the compaction and the idle maintenance        *)
(* (src/main/index.ts, task-runs.ts, assistant-idle-maintenance.ts).  The  *)
(* two talk over one channel each way; the answers of calls come back on   *)
(* their own, and pushes may overtake them (Prompt bounds by how much).    *)
(*                                                                         *)
(* A run is named by the message it runs: the id of a refused attempt      *)
(* leaves no trace, and the next attempt has the same message.             *)
(***************************************************************************)
EXTENDS Naturals, Sequences, SequencesExt, FiniteSets

CONSTANTS
    Messages,       \* what the user sends, each of them once
    Scheduled,      \* the run of a schedule of this conversation
    None,
    MaxExtras       \* presses of Stop, compactions, archivings, clearings and losses together

ASSUME RunsAssumption ==
    /\ Scheduled \notin Messages
    /\ None \notin Messages \cup {Scheduled}
    /\ MaxExtras \in Nat

VARIABLES
    registry,       \* taskRuns: the run that holds the conversation
    phase,          \* of each run, from startAgentRun to the end of its finally
    aborted,        \* live runs whose controller is aborted
    calls,          \* agent:run calls that are not answered
    waiting,        \* agent:interrupt calls that await the end of a run
    stopping,       \* the task:stop call: "none", "waiting", "freed"
    compact,        \* agent:compact: "none", "yielding", "working"
    idle,           \* idle maintenance: "none", "pending", "active", "stopping"
    clear,          \* task:delete-data: "none", "yielding"
    log,            \* messages whose request event was written to the event log
    toMain, toWindow, answers,
    queue,          \* the window's queued messages
    running,        \* runningByTask of the window
    heard,          \* runStateOverrides: the last run state heard
    acting,         \* taskActions holds the conversation
    compacting,     \* compactingTaskId is this conversation
    clearing,       \* taskCleanup holds the conversation, after /clear
    deferred,       \* messages that go on when it is done
    missing,        \* what a run needs and the window knows to be unavailable
    passed,         \* the effect of the queue has passed over what it holds
    reserved,       \* queueReservations holds the conversation
    sent, reported, dropped, lost,
    extras

mainVars == <<registry, phase, aborted, calls, waiting, stopping, compact, idle, clear, log>>
queueVars == <<queue, running, passed, reserved>>
gates == <<acting, compacting, clearing, missing>>
windowVars == <<queueVars, gates, deferred, heard, sent, dropped>>
vars == <<mainVars, windowVars, toMain, toWindow, answers, reported, lost, extras>>

Runs == Messages \cup {Scheduled}
Needs == {"workspace", "model"}
Extra == extras < MaxExtras /\ extras' = extras + 1

State(r, on) == [kind |-> "state", run |-> r, active |-> on]
Silence == State(None, FALSE)
Live(r) == phase[r] \in {"yielding", "recording", "working", "ending"}

\* The renderer has just mounted: it listens, and has asked for the active runs.
Init ==
    /\ registry = None /\ phase = [r \in Runs |-> "none"] /\ aborted = {}
    /\ calls = {} /\ waiting = <<>> /\ stopping = "none" /\ compact = "none"
    /\ idle = "none" /\ clear = "none" /\ log = {} /\ extras = 0
    /\ toMain = <<[kind |-> "active", run |-> None]>>
    /\ toWindow = <<>> /\ answers = {}
    /\ queue = <<>> /\ running = None /\ heard = Silence
    /\ acting = FALSE /\ compacting = FALSE /\ clearing = FALSE /\ deferred = <<>>
    /\ missing \in SUBSET Needs /\ passed = FALSE /\ reserved = FALSE
    /\ sent = {} /\ reported = {} /\ dropped = {} /\ lost = {}

-----------------------------------------------------------------------------
(* The window. *)

Ask(kind, r) == toMain' = Append(toMain, [kind |-> kind, run |-> r])
Tell(p) == toWindow' = toWindow \o p

\* applyAgentRunState and finishTaskRun on the entry of this conversation.
Applied(shown, s) ==
    IF s.active THEN s.run ELSE IF shown = s.run THEN None ELSE shown
Finished(shown, r) == IF shown = r THEN None ELSE shown

\* What is queued or shown has changed: the effect of the queue runs again, and
\* what is shown as running needs no reservation.
Changed == passed' = FALSE /\ reserved' = (reserved /\ running' = None)

\* runPrompt turns a message down before anything is sent.
Refuses == acting \/ "workspace" \in missing \/ (~clearing /\ "model" \in missing)

\* runPrompt: the message is shown as running before main has heard of it.  What
\* is put off behind a /clear is looked at again with the settings of this moment.
RunPrompt(m, kind) ==
    /\ ~Refuses
    /\ IF clearing
       THEN /\ deferred' = Append(deferred,
                 [kind |-> kind, run |-> m, able |-> "model" \notin missing])
            /\ UNCHANGED <<running, toMain>>
       ELSE running' = m /\ Ask(kind, m) /\ UNCHANGED deferred

\* Enter on an idle conversation; a message sent from a linked device.
Send(m) ==
    /\ m \notin sent /\ running = None /\ ~compacting
    /\ RunPrompt(m, "run") /\ Changed
    /\ sent' = sent \cup {m}
    /\ UNCHANGED <<mainVars, toWindow, answers, queue, heard, gates, reported, dropped, lost,
                   extras>>

\* Enter while a run is shown; a linked device may queue at any time.
Enqueue(m) ==
    /\ m \notin sent
    /\ queue' = Append(queue, m) /\ passed' = FALSE
    /\ sent' = sent \cup {m}
    /\ UNCHANGED <<mainVars, toMain, toWindow, answers, running, reserved, heard, gates, deferred,
                   reported, dropped, lost, extras>>

\* The message that replaces the run; a linked device is not asked whether
\* the conversation is being compacted.
Interrupt(m) ==
    /\ m \notin sent
    /\ RunPrompt(m, "interrupt") /\ Changed
    /\ sent' = sent \cup {m}
    /\ UNCHANGED <<mainVars, toWindow, answers, queue, heard, gates, reported, dropped, lost,
                   extras>>

\* "Send now" on a queued message: it leaves the queue whatever runPrompt says.
SendQueuedNow(m) ==
    /\ \E i \in DOMAIN queue : queue[i] = m /\ queue' = RemoveAt(queue, i)
    /\ \/ RunPrompt(m, "interrupt") /\ UNCHANGED lost
       \/ Refuses /\ lost' = lost \cup {m} /\ UNCHANGED <<running, toMain, deferred>>
    /\ Changed
    /\ UNCHANGED <<mainVars, toWindow, answers, heard, gates, sent, reported, dropped, extras>>

\* The effect that runs the next queued message of an idle conversation.  It runs
\* when what is queued or shown, or a conversation, has changed: a message it
\* passes over stays until then.  A message put off keeps its reservation.
RunQueued ==
    /\ queue # <<>> /\ running = None /\ ~passed /\ ~reserved
    /\ \/ /\ RunPrompt(Head(queue), "run")
          /\ queue' = Tail(queue)
          /\ reserved' = (running' = None)
          /\ UNCHANGED passed
       \/ Refuses /\ passed' = TRUE /\ UNCHANGED <<queue, running, reserved, toMain, deferred>>
    /\ UNCHANGED <<mainVars, toWindow, answers, heard, gates, sent, reported, dropped, lost,
                   extras>>

\* A conversation changes: the user types, a folder is chosen anew.
Touch ==
    /\ passed
    /\ passed' = FALSE
    /\ UNCHANGED <<mainVars, toMain, toWindow, answers, queue, running, reserved, gates, deferred,
                   heard, sent, reported, dropped, lost, extras>>

\* The folder of the conversation moves away, or the model is taken out of the
\* settings; the one comes back, the other is configured again.
Lose(x) ==
    /\ x \notin missing /\ Extra
    /\ missing' = missing \cup {x}
    /\ UNCHANGED <<mainVars, toMain, toWindow, answers, queueVars, acting, compacting, clearing,
                   deferred, heard, sent, reported, dropped, lost>>

Regain(x) ==
    /\ x \in missing
    /\ missing' = missing \ {x}
    /\ UNCHANGED <<mainVars, toMain, toWindow, answers, queueVars, acting, compacting, clearing,
                   deferred, heard, sent, reported, dropped, lost, extras>>

\* Stop aborts the run the window shows.
Cancel ==
    /\ running # None /\ Extra
    /\ Ask("cancel", running)
    /\ UNCHANGED <<mainVars, toWindow, answers, windowVars, reported, lost>>

Compact ==
    /\ running = None /\ ~compacting /\ Extra
    /\ Ask("compact", None)
    /\ compacting' = TRUE
    /\ UNCHANGED <<mainVars, toWindow, answers, queueVars, acting, clearing, missing, deferred,
                   heard, sent, reported, dropped, lost>>

\* /clear empties the conversation and has main delete what belongs to it.
Clear ==
    /\ running = None /\ ~clearing /\ Extra
    /\ Ask("clear", None)
    /\ clearing' = TRUE
    /\ passed' = FALSE
    /\ UNCHANGED <<mainVars, toWindow, answers, queue, running, reserved, acting, compacting,
                   missing, deferred, heard, sent, reported, dropped, lost>>

\* Archiving: the conversation is closed to new work, its queue is dropped,
\* and main is asked to stop what runs.
Archive ==
    /\ ~acting /\ Extra
    /\ acting' = TRUE
    /\ dropped' = dropped \cup ToSet(queue)
    /\ queue' = <<>> /\ passed' = FALSE
    /\ Ask("stop", None)
    /\ UNCHANGED <<mainVars, toWindow, answers, running, reserved, compacting, clearing, missing,
                   deferred, heard, sent, reported, lost>>

\* A pushed run state, or the request event of a run.
HearPush ==
    /\ toWindow # <<>>
    /\ toWindow' = Tail(toWindow)
    /\ LET p == Head(toWindow) IN
        \/ p.kind = "state" /\ heard' = p /\ running' = Applied(running, p)
        \/ p.kind = "request" /\ running' = p.run /\ UNCHANGED heard
    /\ Changed
    /\ UNCHANGED <<mainVars, toMain, answers, queue, gates, deferred, sent, reported, dropped,
                   lost, extras>>

\* (Mutant) A refusal removes the message that was shown and does not queue it.
HearRefusedDropped(a) ==
    /\ a.kind = "refused"
    /\ running' = IF heard # Silence THEN Applied(Finished(running, a.run), heard)
                  ELSE Applied(Finished(running, a.run), State(a.active, TRUE))
    /\ UNCHANGED <<queue, gates, deferred, reported, lost>>

\* (Mutant) The active run named by a refusal is believed over what was pushed since.
HearRefusedStale(a) ==
    /\ a.kind = "refused"
    /\ running' = Applied(Finished(running, a.run), State(a.active, TRUE))
    /\ queue' = Append(queue, a.run)
    /\ UNCHANGED <<gates, deferred, reported, lost>>

\* A refused message goes to the end of the queue.
HearRefused(a) ==
    /\ a.kind = "refused"
    /\ running' = IF heard # Silence THEN Applied(Finished(running, a.run), heard)
                  ELSE Applied(Finished(running, a.run), State(a.active, TRUE))
    /\ queue' = Append(queue, a.run)
    /\ UNCHANGED <<gates, deferred, reported, lost>>

HearFailed(a) ==
    /\ a.kind = "failed"
    /\ running' = Finished(running, a.run)
    /\ reported' = reported \cup {a.run}
    /\ UNCHANGED <<queue, gates, deferred, lost>>

\* (Mutant) The snapshot replaces what was pushed since it was taken.
HearActiveUncorrected(a) ==
    /\ a.kind = "active"
    /\ running' = a.active
    /\ UNCHANGED <<queue, gates, deferred, reported, lost>>

\* The snapshot asked for at mount, corrected by what was pushed since.
HearActive(a) ==
    /\ a.kind = "active"
    /\ running' = IF heard # Silence THEN Applied(a.active, heard) ELSE a.active
    /\ UNCHANGED <<queue, gates, deferred, reported, lost>>

HearStopped(a) ==
    /\ a.kind = "stopped" /\ acting' = FALSE
    /\ UNCHANGED <<queue, running, compacting, clearing, missing, deferred, reported, lost>>

HearCompacted(a) ==
    /\ a.kind = "compacted" /\ compacting' = FALSE
    /\ UNCHANGED <<queue, running, acting, clearing, missing, deferred, reported, lost>>

\* The /clear is done: what was put off goes on (GoesOn).
HearCleared(a) ==
    /\ a.kind = "cleared" /\ clearing' = FALSE
    /\ UNCHANGED <<queue, running, acting, compacting, missing, deferred, reported, lost>>

\* It has failed, which is shown; what was put off is not tried.
HearClearFailed(a) ==
    /\ a.kind = "unclear" /\ clearing' = FALSE
    /\ reported' = reported \cup {d.run : d \in ToSet(deferred)}
    /\ deferred' = <<>>
    /\ UNCHANGED <<queue, running, acting, compacting, missing, lost>>

HearAnswer ==
    \E a \in answers :
        /\ answers' = answers \ {a}
        /\ \/ HearRefused(a) \/ HearFailed(a) \/ HearActive(a)
           \/ HearStopped(a) \/ HearCompacted(a) \/ HearCleared(a) \/ HearClearFailed(a)
        /\ IF UNCHANGED <<queue, running>> THEN UNCHANGED <<passed, reserved>> ELSE Changed
        /\ UNCHANGED <<mainVars, toMain, toWindow, heard, sent, dropped, extras>>

\* What was put off goes on in the turn of the answer, one after the other.  What
\* is turned down now is in no queue any more.
GoesOn ==
    /\ ~clearing /\ deferred # <<>>
    /\ deferred' = Tail(deferred)
    /\ LET d == Head(deferred) IN
        \/ ~acting /\ d.able /\ running' = d.run /\ Ask(d.kind, d.run) /\ UNCHANGED lost
        \/ (acting \/ ~d.able) /\ lost' = lost \cup {d.run} /\ UNCHANGED <<running, toMain>>
    /\ Changed
    /\ UNCHANGED <<mainVars, toWindow, answers, queue, heard, gates, sent, reported, dropped,
                   extras>>

\* Nothing else happens in the window before that.
Ready == clearing \/ deferred = <<>>

-----------------------------------------------------------------------------
(* The main process. *)

Reply(kind, r, now) == [kind |-> kind, run |-> r, active |-> now]

\* yieldToForeground: an idle job at work is aborted, and awaited by the caller.
YieldIdle == idle' = IF idle = "active" THEN "stopping" ELSE idle

\* (Mutant) A run does not look at the compaction.
CanStartOverCompaction == registry = None

CanStart == registry = None /\ compact # "working"

\* startAgentRun once it has claimed the conversation.
Start(r) ==
    /\ registry' = r
    /\ phase' = [phase EXCEPT ![r] = "yielding"]
    /\ YieldIdle

\* agent:run
TakeRun(q) ==
    /\ q.kind = "run"
    /\ \/ /\ CanStart
          /\ Start(q.run) /\ Tell(<<State(q.run, TRUE)>>)
          /\ calls' = calls \cup {q.run}
          /\ UNCHANGED answers
       \/ /\ ~CanStart
          /\ answers' = answers \cup {Reply("refused", q.run, registry)}
          /\ UNCHANGED <<registry, phase, idle, toWindow, calls>>
    /\ UNCHANGED <<aborted, waiting, stopping, compact, clear, lost>>

\* agent:interrupt: what runs is stopped and awaited, then the message starts.
\* The window does not look at the answer.
TakeInterrupt(q) ==
    /\ q.kind = "interrupt"
    /\ \/ /\ registry # None
          /\ aborted' = aborted \cup {registry}
          /\ waiting' = Append(waiting, q.run)
          /\ UNCHANGED <<registry, phase, idle, toWindow, lost>>
       \/ /\ CanStart
          /\ Start(q.run) /\ Tell(<<State(q.run, TRUE)>>)
          /\ UNCHANGED <<aborted, waiting, lost>>
       \/ /\ registry = None /\ ~CanStart
          /\ lost' = lost \cup {q.run}
          /\ UNCHANGED <<registry, phase, idle, toWindow, aborted, waiting>>
    /\ UNCHANGED <<calls, stopping, compact, clear, answers>>

\* agent:cancel of a run that has not started, or has ended, does nothing.
TakeCancel(q) ==
    /\ q.kind = "cancel"
    /\ aborted' = IF Live(q.run) THEN aborted \cup {q.run} ELSE aborted
    /\ UNCHANGED <<registry, phase, calls, waiting, stopping, compact, idle, clear, toWindow, answers, lost>>

\* task:stop
TakeStop(q) ==
    /\ q.kind = "stop"
    /\ aborted' = aborted \cup ({registry} \ {None})
    /\ stopping' = IF registry # None THEN "waiting" ELSE "freed"
    /\ UNCHANGED <<registry, phase, calls, waiting, compact, idle, clear, toWindow, answers, lost>>

\* agent:compact, up to its await of the idle job.
TakeCompact(q) ==
    /\ q.kind = "compact"
    /\ YieldIdle
    /\ compact' = "yielding"
    /\ UNCHANGED <<registry, phase, aborted, calls, waiting, stopping, clear, toWindow, answers, lost>>

\* task:delete-data, up to its await of the idle job: an active run refuses it.
TakeClear(q) ==
    /\ q.kind = "clear"
    /\ \/ /\ registry = None
          /\ YieldIdle
          /\ clear' = "yielding"
          /\ UNCHANGED answers
       \/ /\ registry # None
          /\ answers' = answers \cup {Reply("unclear", None, None)}
          /\ UNCHANGED <<idle, clear>>
    /\ UNCHANGED <<registry, phase, aborted, calls, waiting, stopping, compact, toWindow, lost>>

\* agent:active-runs
TakeActive(q) ==
    /\ q.kind = "active"
    /\ answers' = answers \cup {Reply("active", None, registry)}
    /\ UNCHANGED <<registry, phase, aborted, calls, waiting, stopping, compact, clear, idle, toWindow, lost>>

TakeRequest ==
    /\ toMain # <<>>
    /\ toMain' = Tail(toMain)
    /\ LET q == Head(toMain) IN
        \/ TakeRun(q) \/ TakeInterrupt(q) \/ TakeCancel(q)
        \/ TakeStop(q) \/ TakeCompact(q) \/ TakeClear(q) \/ TakeActive(q)
    /\ UNCHANGED <<windowVars, log, reported, extras>>

\* A schedule of the conversation comes due; a refusal leaves it queued.
StartScheduled ==
    /\ phase[Scheduled] = "none" /\ CanStart
    /\ Start(Scheduled) /\ Tell(<<State(Scheduled, TRUE)>>)
    /\ UNCHANGED <<aborted, calls, waiting, stopping, compact, clear, log,
                   windowVars, toMain, answers, reported, lost, extras>>

\* The idle job is out of the way: the request is given to the event log.
Yielded(r) ==
    /\ phase[r] = "yielding" /\ idle # "stopping" /\ r \notin aborted
    /\ phase' = [phase EXCEPT ![r] = "recording"]
    /\ UNCHANGED <<registry, aborted, calls, waiting, stopping, compact, clear, idle, log,
                   windowVars, toMain, toWindow, answers, reported, lost, extras>>

\* The run was stopped before its request was written, or the write fails: the
\* end is published, and the call that started it is rejected.
NotRecorded(r) ==
    /\ \/ phase[r] = "yielding" /\ idle # "stopping" /\ r \in aborted
       \/ phase[r] = "recording"
    /\ phase' = [phase EXCEPT ![r] = "ending"]
    /\ reported' = reported \cup {r}
    /\ answers' = answers \cup (IF r \in calls THEN {Reply("failed", r, None)} ELSE {})
    /\ calls' = calls \ {r}
    /\ UNCHANGED <<registry, aborted, waiting, stopping, compact, clear, idle, log,
                   windowVars, toMain, toWindow, lost, extras>>

\* The request is in the log: the windows hear of it, the call is answered, which
\* changes nothing in the window, and the agent works.
Recorded(r) ==
    /\ phase[r] = "recording"
    /\ log' = log \cup {r}
    /\ phase' = [phase EXCEPT ![r] = "working"]
    /\ calls' = calls \ {r}
    /\ Tell(<<[kind |-> "request", run |-> r]>>)
    /\ UNCHANGED <<registry, aborted, waiting, stopping, compact, clear, idle,
                   windowVars, toMain, answers, reported, lost, extras>>

\* The agent ends: done, failed or stopped.
Ended(r) ==
    /\ phase[r] = "working"
    /\ phase' = [phase EXCEPT ![r] = "ending"]
    /\ UNCHANGED <<registry, aborted, calls, waiting, stopping, compact, clear, idle, log,
                   windowVars, toMain, toWindow, answers, reported, lost, extras>>

\* An answer is not overtaken by a whole run: what names an earlier run has
\* arrived when a later one ends.
Prompt(r) == \A a \in answers : a.active \in {None, r}

\* The finally of a run: the registry and the window are told, and the calls
\* that awaited the end go on in the same turn: the first interrupt starts its
\* message, the others are refused.  A run that ended well may leave
\* maintenance for later.
Settle(r) ==
    /\ phase[r] = "ending" /\ Prompt(r)
    /\ LET next == IF waiting = <<>> THEN None ELSE Head(waiting) IN
        /\ registry' = next
        /\ phase' = [s \in Runs |->
             IF s = r THEN "settled" ELSE IF s = next THEN "yielding" ELSE phase[s]]
        /\ Tell(<<State(r, FALSE)>> \o (IF next = None THEN <<>> ELSE <<State(next, TRUE)>>))
    /\ waiting' = <<>>
    /\ lost' = lost \cup (IF waiting = <<>> THEN {} ELSE ToSet(Tail(waiting)))
    /\ stopping' = IF stopping = "waiting" THEN "freed" ELSE stopping
    /\ \/ UNCHANGED idle
       \/ r \in log \ aborted /\ idle = "none" /\ idle' = "pending"
    /\ aborted' = aborted \ {r}
    /\ UNCHANGED <<calls, compact, clear, log,
                   windowVars, toMain, answers, reported, extras>>

\* task:stop has also stopped the background processes.
StopDone ==
    /\ stopping = "freed"
    /\ stopping' = "none"
    /\ answers' = answers \cup {Reply("stopped", None, None)}
    /\ UNCHANGED <<registry, phase, aborted, calls, waiting, compact, clear, idle, log,
                   windowVars, toMain, toWindow, reported, lost, extras>>

\* agent:compact after its await: a run that started meanwhile refuses it.
CompactStarts ==
    /\ compact = "yielding" /\ idle # "stopping"
    /\ \/ registry = None /\ compact' = "working" /\ UNCHANGED answers
       \/ /\ registry # None
          /\ compact' = "none"
          /\ answers' = answers \cup {Reply("compacted", None, None)}
    /\ UNCHANGED <<registry, phase, aborted, calls, waiting, stopping, idle, clear, log,
                   windowVars, toMain, toWindow, reported, lost, extras>>

CompactDone ==
    /\ compact = "working"
    /\ compact' = "none"
    /\ answers' = answers \cup {Reply("compacted", None, None)}
    /\ UNCHANGED <<registry, phase, aborted, calls, waiting, stopping, idle, clear, log,
                   windowVars, toMain, toWindow, reported, lost, extras>>

\* What belongs to the conversation is deleted, or some of it is not.
ClearEnds ==
    /\ clear = "yielding" /\ idle # "stopping"
    /\ clear' = "none"
    /\ \E kind \in {"cleared", "unclear"} : answers' = answers \cup {Reply(kind, None, None)}
    /\ UNCHANGED <<registry, phase, aborted, calls, waiting, stopping, compact, idle, log,
                   windowVars, toMain, toWindow, reported, lost, extras>>

\* The timer of the idle job, on a desktop where nothing runs or compacts; a
\* call that yielded goes on in the turn the job ends, before any timer.
IdleStarts ==
    /\ idle = "pending" /\ CanStart /\ compact = "none"
    /\ idle' = "active"
    /\ UNCHANGED <<registry, phase, aborted, calls, waiting, stopping, compact, clear, log,
                   windowVars, toMain, toWindow, answers, reported, lost, extras>>

\* An idle job that was aborted is pending again.
IdleEnds ==
    /\ idle \in {"active", "stopping"}
    /\ idle' = IF idle = "stopping" THEN "pending" ELSE "none"
    /\ UNCHANGED <<registry, phase, aborted, calls, waiting, stopping, compact, clear, log,
                   windowVars, toMain, toWindow, answers, reported, lost, extras>>

-----------------------------------------------------------------------------

RunStep == \E r \in Runs : Yielded(r) \/ NotRecorded(r) \/ Recorded(r) \/ Ended(r) \/ Settle(r)

User ==
    \/ \E m \in Messages : Send(m) \/ Enqueue(m) \/ Interrupt(m) \/ SendQueuedNow(m)
    \/ Cancel \/ Compact \/ Clear \/ Archive \/ Touch
    \/ \E x \in Needs : Lose(x) \/ Regain(x)

Next ==
    \/ Ready /\ (User \/ RunQueued \/ HearPush \/ HearAnswer)
    \/ GoesOn
    \/ TakeRequest \/ StartScheduled \/ RunStep
    \/ StopDone \/ CompactStarts \/ CompactDone \/ ClearEnds \/ IdleStarts \/ IdleEnds

Spec == Init /\ [][Next]_vars

\* Calls and pushes arrive, the window re-renders, runs, compactions, deletions and
\* idle jobs end.  Nothing is asked of the user, of schedules or of the idle timer.
Fairness ==
    /\ WF_vars(Ready /\ RunQueued) /\ WF_vars(Ready /\ HearPush)
    /\ WF_vars(Ready /\ HearAnswer) /\ WF_vars(GoesOn) /\ WF_vars(TakeRequest)
    /\ WF_vars(RunStep) /\ WF_vars(StopDone)
    /\ WF_vars(CompactStarts \/ CompactDone) /\ WF_vars(ClearEnds) /\ WF_vars(IdleEnds)

FairSpec == Spec /\ Fairness

-----------------------------------------------------------------------------

\* Types of the main process and of the window.
TypeOK ==
    /\ registry \in Runs \cup {None} /\ running \in Runs \cup {None}
    /\ phase \in [Runs -> {"none", "yielding", "recording", "working", "ending", "settled"}]
    /\ aborted \subseteq Runs /\ calls \subseteq Messages
    /\ waiting \in Seq(Messages) /\ queue \in Seq(Messages)
    /\ stopping \in {"none", "waiting", "freed"}
    /\ compact \in {"none", "yielding", "working"}
    /\ idle \in {"none", "pending", "active", "stopping"}
    /\ clear \in {"none", "yielding"}
    /\ acting \in BOOLEAN /\ compacting \in BOOLEAN /\ clearing \in BOOLEAN
    /\ passed \in BOOLEAN /\ reserved \in BOOLEAN /\ missing \subseteq Needs
    /\ deferred \in Seq([kind: {"run", "interrupt"}, run: Messages, able: BOOLEAN])
    /\ sent \subseteq Messages /\ log \subseteq Runs /\ reported \subseteq Runs
    /\ dropped \subseteq Messages /\ lost \subseteq Messages

\* Where a message can be while its fate is open.
InFlight(m) ==
    \/ m \in ToSet(queue) \/ m \in ToSet(waiting) \/ Live(m)
    \/ \E d \in ToSet(deferred) : d.run = m
    \/ \E q \in ToSet(toMain) : q.kind \in {"run", "interrupt"} /\ q.run = m
    \/ \E a \in answers : a.kind \in {"refused", "failed"} /\ a.run = m

\* A message the user sent is queued, put off, on its way, in the event log,
\* reported as failed, or was dropped with its archived conversation.  It is lost
\* only where nothing is left to try it again: "Send now", or the end of a /clear,
\* has it turned down by the window, or the answer of an interrupt is not looked at.
MessageKept ==
    \A m \in sent : InFlight(m) \/ m \in log \cup reported \cup dropped \cup lost

\* The session of a conversation has one user at a time: a run at work, the
\* compaction, or the idle job, although each of them starts after an await.
WorksAlone ==
    /\ Cardinality({r \in Runs : phase[r] \in {"recording", "working"}}) <= 1
    /\ \A r \in Runs : phase[r] \in {"recording", "working"} =>
         compact # "working" /\ idle \notin {"active", "stopping"}
    /\ compact = "working" => idle \notin {"active", "stopping"}

\* What the window shows as running is in the end what main runs, whatever the
\* order of answers and pushes; the exception is a lost message, shown for ever.
WindowAgrees == <>[](running = registry \/ running \in lost)

\* No message stays in the queue for good, through refusals of main, compactions
\* and the runs it has to wait for.  The exceptions are those of the window: a lost
\* message is shown as running, what a run needs is missing, the message was passed
\* over and no conversation has changed since, or the reservation of a message that
\* was put off has outlived it.
QueueDrains ==
    <>[](queue = <<>> \/ running \in lost \/ missing # {} \/ passed \/ reserved)

=============================================================================
