------------------------------- MODULE HostRuns -------------------------------
(***************************************************************************)
(* Runs of one task of the Shun host service: task.send, task.stop,        *)
(* task.delete, close and the restart of ShunHostService                   *)
(* (src/src/host/service.ts), with the claims of TaskRunRegistry           *)
(* (src/src/main/task-runs.ts).  Tasks share no state but the saved file,  *)
(* so one task is modelled.                                                *)
(*                                                                         *)
(* The event log is used through what EventLog says of it: one append at a *)
(* time, all of it or nothing, and cleared as a whole.  Kept beside it is  *)
(* whether the last number given out is in it: the loop in which a call    *)
(* reads its snapshot depends on that (HostEventReader follows its pages). *)
(***************************************************************************)
EXTENDS Integers, Sequences, FiniteSets

CONSTANTS
    Sends,          \* calls of task.send
    RunOf,          \* the run each call asks for
    MessageOf,      \* the message each call brings
    Supplied,       \* the calls whose client names the run (and may retry it)
    NoSend,         \* not a call
    DiskFaults,     \* TRUE if appends and saves may fail
    MaxRestarts

ASSUME HostRunsAssumption ==
    /\ NoSend \notin Sends
    /\ Supplied \subseteq Sends
    /\ DOMAIN RunOf = Sends /\ DOMAIN MessageOf = Sends
    /\ \A s, t \in Sends : s # t /\ RunOf[s] = RunOf[t] => s \in Supplied /\ t \in Supplied
    /\ DiskFaults \in BOOLEAN
    /\ MaxRestarts \in Nat

VARIABLES
    pc,             \* where each call of send, and the run it starts, is
    duplicate,      \* what the snapshot said: the run is in the log
    aborted,        \* AbortController.signal.aborted
    broken,         \* an append of the run has failed, so eventWrites rejects
    title,          \* whether the run's title job is under way
    active,         \* TaskRunRegistry and this.active: the call that holds the task
    present,        \* the task is in state.tasks
    named,          \* the task has had its first message
    log,            \* the task's requests and ends; its other events are not kept
    ahead,          \* the last number given out is not in the log: its append failed
    through,        \* where the event a snapshot is read up to is: in the log, lost, or lost
                    \* with a later one in the log
    saves,          \* the saves queued in `writes`, oldest first
    disk,           \* the task is in the saved file
    deleting,       \* where the call of task.delete is
    stopping,       \* the run the call of task.stop waits for
    closing,        \* where close is
    closeFor,       \* the run close waits for
    restarts,
    starts,         \* history: how often each call started a runner
    recorded        \* history: the run was in the log when the call was made

sendVars == <<pc, duplicate, aborted, broken, title>>
logVars == <<log, ahead, through>>
taskVars == <<present, named, logVars>>
saveVars == <<saves, disk>>
historyVars == <<starts, recorded>>
vars == <<sendVars, active, taskVars, saveVars, deleting, stopping, closing, closeFor,
          restarts, historyVars>>

Runs == {RunOf[s] : s \in Sends}
Messages == {MessageOf[s] : s \in Sends}

\* Stages in which a call holds the task; up to "launching" it has not answered.
Holding == {"preparing", "requesting", "saving", "launching", "running", "ending", "releasing"}
Answered == {"running", "ending", "releasing", "finishing", "ended"}
Over == {"refused", "duplicate", "failed", "ended", "cut"}
Stages == {"idle", "checking", "checked", "finishing"} \cup Holding \cup Over

Event(r, m, k) == [run |-> r, message |-> m, kind |-> k]
\* What earlier turns have left in the log, taken as one event.
Earlier == Event(NoSend, NoSend, "earlier")
Events ==
    [run : Runs, message : Messages \cup {NoSend}, kind : {"request", "end"}] \cup {Earlier}
\* Who asked for a save: a send, the end of its run, its title job, or the deletion.
Savers == [who : Sends \cup {NoSend}, why : {"request", "end", "title", "delete"}, task : BOOLEAN]

TypeOK ==
    /\ pc \in [Sends -> Stages]
    /\ duplicate \in [Sends -> BOOLEAN]
    /\ aborted \in [Sends -> BOOLEAN]
    /\ broken \in [Sends -> BOOLEAN]
    /\ title \in [Sends -> {"none", "asking", "saving", "saved"}]
    /\ active \in Sends \cup {NoSend}
    /\ present \in BOOLEAN /\ named \in BOOLEAN
    /\ log \in Seq(Events) /\ ahead \in BOOLEAN
    /\ through \in [Sends -> {"here", "lost", "passed"}]
    /\ saves \in Seq(Savers) /\ disk \in BOOLEAN
    /\ deleting \in {"no", "saving", "removing", "done", "failed"}
    /\ stopping \in Sends \cup {NoSend}
    /\ closing \in {"no", "aborting", "waiting", "closed"}
    /\ closeFor \in Sends \cup {NoSend}
    /\ restarts \in 0..MaxRestarts
    /\ starts \in [Sends -> 0..1]
    /\ recorded \in [Sends -> BOOLEAN]

InLog(k) == {i \in 1..Len(log) : log[i].kind = k}
RunInLog(r) == \E i \in InLog("request") : log[i].run = r
\* The turns of a log hold both the run and the message of the call.
Requested(s) == RunInLog(RunOf[s]) /\ \E i \in InLog("request") : log[i].message = MessageOf[s]
Ended(r) == \E i \in InLog("end") : log[i].run = r

Init ==
    /\ pc = [s \in Sends |-> "idle"]
    /\ duplicate = [s \in Sends |-> FALSE]
    /\ aborted = [s \in Sends |-> FALSE]
    /\ broken = [s \in Sends |-> FALSE]
    /\ title = [s \in Sends |-> "none"]
    /\ active = NoSend
    /\ present = TRUE /\ named \in BOOLEAN
    /\ log = IF named THEN <<Earlier>> ELSE <<>>
    /\ ahead = FALSE /\ through = [s \in Sends |-> "here"]
    /\ saves = <<>> /\ disk = named
    /\ deleting = "no" /\ stopping = NoSend /\ closing = "no" /\ closeFor = NoSend
    /\ restarts = 0
    /\ starts = [s \in Sends |-> 0]
    /\ recorded = [s \in Sends |-> FALSE]

At(s, stage) == pc' = [pc EXCEPT ![s] = stage]
\* persist: the file's content is decided now and written when its turn comes.  A task
\* without a message is not saved.
Save(s, reason, there) ==
    saves' = Append(saves, [who |-> s, why |-> reason, task |-> there])

\* An event lands in the log.  A snapshot that is read up to a lost event has either found
\* the end of the log before, or finds this event behind it, on this page and on every other.
Landed ==
    /\ ahead' = FALSE
    /\ \E read \in SUBSET {s \in Sends : through[s] = "lost"} :
          through' = [s \in Sends |-> IF s \in read THEN "here"
                                     ELSE IF through[s] = "lost" THEN "passed" ELSE through[s]]

Logged(event) == log' = Append(log, event) /\ Landed
OtherLogged == Landed /\ UNCHANGED log

\* An append fails and its number is lost; a snapshot begun while it was under way may count
\* it.
Lost ==
    /\ DiskFaults
    /\ ahead' = TRUE /\ UNCHANGED log
    /\ \E under \in SUBSET {s \in Sends : pc[s] = "checked" /\ through[s] = "here"} :
          through' = [s \in Sends |-> IF s \in under THEN "lost" ELSE through[s]]

-------------------------------------------------------------------------------
(***************************************************************************)
(* task.send                                                               *)
(***************************************************************************)

\* (as if) the task were taken without asking the registry.
ClaimUnchecked(s) == At(s, "preparing") /\ active' = s

\* TaskRunRegistry.claim and the registration in this.active, in one synchronous piece.
Claim(s) ==
    IF active = NoSend
       THEN At(s, "preparing") /\ active' = s
       ELSE At(s, "refused") /\ UNCHANGED active

\* The call is made: the service must not be closing and must know the task.  A call whose
\* client names the run first takes a snapshot; any other claims at once.
Send(s) ==
    /\ pc[s] = "idle"
    /\ recorded' = [recorded EXCEPT ![s] = Requested(s)]
    /\ IF closing # "no" \/ ~present
          THEN At(s, "refused") /\ UNCHANGED active
          ELSE IF s \in Supplied
                  THEN At(s, "checking") /\ UNCHANGED active
                  ELSE Claim(s)
    /\ UNCHANGED <<duplicate, aborted, broken, title, taskVars, saveVars, deleting, stopping,
                   closing, closeFor, restarts, starts>>

\* The snapshot is fixed when lastSequence answers with the last number given out.  A log
\* in which nothing was ever written has no pages to read, so the call goes on at once; the
\* pages of any other are awaited.
TakeSnapshot(s) ==
    /\ pc[s] = "checking"
    /\ duplicate' = [duplicate EXCEPT ![s] = Requested(s)]
    /\ \/ log = <<>> /\ ~ahead /\ Claim(s) /\ UNCHANGED through
       \/ /\ At(s, "checked") /\ UNCHANGED active
          /\ through' = [through EXCEPT ![s] = IF ahead THEN "lost" ELSE "here"]
    /\ UNCHANGED <<aborted, broken, title, present, named, log, ahead, saveVars,
                   deleting, stopping, closing, closeFor, restarts, historyVars>>

\* (as if) the run ID were not looked up in the snapshot.
ClaimRetried(s) ==
    /\ pc[s] = "checked" /\ through[s] # "passed"
    /\ Claim(s)
    /\ through' = [through EXCEPT ![s] = "here"]
    /\ UNCHANGED <<duplicate, aborted, broken, title, present, named, log, ahead,
                   saveVars, deleting, stopping, closing, closeFor, restarts, historyVars>>

\* The loop over the pages ends at an empty page or at the event it reads up to: not when the
\* next event lies behind that one.
ClaimChecked(s) ==
    /\ pc[s] = "checked" /\ through[s] # "passed"
    /\ IF duplicate[s]
          THEN At(s, "duplicate") /\ UNCHANGED active
          ELSE Claim(s)
    /\ through' = [through EXCEPT ![s] = "here"]
    /\ UNCHANGED <<duplicate, aborted, broken, title, present, named, log, ahead,
                   saveVars, deleting, stopping, closing, closeFor, restarts, historyVars>>

\* The catch at the end of send: release the task and report the error.
Abandon(s) ==
    /\ At(s, "failed")
    /\ active' = IF active = s THEN NoSend ELSE active

\* Attachments are read; then the abort signal is looked at once.
Prepare(s) ==
    /\ pc[s] = "preparing"
    /\ \/ ~aborted[s] /\ At(s, "requesting") /\ UNCHANGED active
       \/ Abandon(s)
    /\ UNCHANGED <<duplicate, aborted, broken, title, taskVars, saveVars, deleting, stopping,
                   closing, closeFor, restarts, historyVars>>

\* (as if) the task were not saved before the call is answered.
RecordUnsaved(s) ==
    /\ pc[s] = "requesting"
    /\ At(s, "launching")
    /\ Logged(Event(RunOf[s], MessageOf[s], "request"))
    /\ named' = TRUE
    /\ title' = [title EXCEPT ![s] = IF named THEN "none" ELSE "asking"]
    /\ UNCHANGED <<duplicate, aborted, broken, active, present, saveVars, deleting, stopping,
                   closing, closeFor, restarts, historyVars>>

\* The request is in the log: the task has a message, and is saved.
RecordRequest(s) ==
    /\ pc[s] = "requesting"
    /\ At(s, "saving")
    /\ Logged(Event(RunOf[s], MessageOf[s], "request"))
    /\ named' = TRUE
    /\ title' = [title EXCEPT ![s] = IF named THEN "none" ELSE "asking"]
    /\ Save(s, "request", present)
    /\ UNCHANGED <<duplicate, aborted, broken, active, present, disk, deleting, stopping,
                   closing, closeFor, restarts, historyVars>>

RecordFails(s) ==
    /\ pc[s] = "requesting"
    /\ Abandon(s) /\ Lost
    /\ UNCHANGED <<duplicate, aborted, broken, title, present, named, saveVars, deleting, stopping,
                   closing, closeFor, restarts, historyVars>>

\* Capabilities are connected, the runner starts and the call answers with the run.
Launch(s) ==
    /\ pc[s] = "launching"
    /\ At(s, "running")
    /\ starts' = [starts EXCEPT ![s] = @ + 1]
    /\ UNCHANGED <<duplicate, aborted, broken, title, active, taskVars, saveVars, deleting,
                   stopping, closing, closeFor, restarts, recorded>>

\* Connecting or packaging capabilities throws after the request was recorded.
LaunchFails(s) ==
    /\ pc[s] = "launching"
    /\ Abandon(s)
    /\ title' = [title EXCEPT ![s] = "none"]
    /\ UNCHANGED <<duplicate, aborted, broken, taskVars, saveVars, deleting, stopping, closing, closeFor,
                   restarts, historyVars>>

-------------------------------------------------------------------------------
(***************************************************************************)
(* The run in the background                                               *)
(***************************************************************************)

\* An event of the run cannot be appended, because of the disk or because an append before
\* it has failed: the run is aborted, and every later append of the run fails with the chain.
EventFails(s) ==
    /\ pc[s] = "running" /\ ~(broken[s] /\ aborted[s])
    /\ IF broken[s] THEN UNCHANGED logVars ELSE Lost
    /\ broken' = [broken EXCEPT ![s] = TRUE]
    /\ aborted' = [aborted EXCEPT ![s] = TRUE]
    /\ UNCHANGED <<pc, duplicate, title, active, present, named, saveVars, deleting, stopping,
                   closing, closeFor, restarts, historyVars>>

\* The runner returns or throws; one of done, error and cancelled is emitted.
RunnerEnds(s) ==
    /\ pc[s] = "running"
    /\ At(s, "ending")
    /\ UNCHANGED <<duplicate, aborted, broken, title, active, taskVars, saveVars, deleting,
                   stopping, closing, closeFor, restarts, historyVars>>

\* (as if) the run did not wait for its events to be written.
LastEventNotAwaited(s) ==
    /\ pc[s] = "ending"
    /\ At(s, "releasing")
    /\ UNCHANGED <<duplicate, aborted, broken, title, active, taskVars, saveVars, deleting,
                   stopping, closing, closeFor, restarts, historyVars>>

\* await eventWrites: the last event is in the log, or the chain has failed.
LastEventWritten(s) ==
    /\ pc[s] = "ending"
    /\ At(s, "releasing")
    /\ IF broken[s]
          THEN UNCHANGED <<logVars, broken>>
          ELSE \/ Logged(Event(RunOf[s], NoSend, "end")) /\ UNCHANGED broken
               \/ Lost /\ broken' = [broken EXCEPT ![s] = TRUE]
    /\ UNCHANGED <<duplicate, aborted, title, active, present, named, saveVars, deleting,
                   stopping, closing, closeFor, restarts, historyVars>>

Release(s) ==
    /\ pc[s] = "releasing"
    /\ At(s, "finishing")
    /\ active' = IF active = s THEN NoSend ELSE active
    /\ Save(s, "end", present)
    /\ UNCHANGED <<duplicate, aborted, broken, title, taskVars, disk, deleting, stopping,
                   closing, closeFor, restarts, historyVars>>

-------------------------------------------------------------------------------
(***************************************************************************)
(* The title job of the first message runs beside the run and may outlive  *)
(* it.                                                                     *)
(***************************************************************************)

\* The title arrives, or there is none.
TitleArrives(s) ==
    /\ title[s] = "asking" /\ pc[s] \in Answered
    /\ \/ title' = [title EXCEPT ![s] = "saving"] /\ Save(s, "title", present)
       \/ title' = [title EXCEPT ![s] = "none"] /\ UNCHANGED saves
    /\ UNCHANGED <<pc, duplicate, aborted, broken, active, taskVars, disk, deleting, stopping,
                   closing, closeFor, restarts, historyVars>>

\* The title is appended to the log through the run's chain.  The job swallows the error, the
\* chain does not: what the run still has to append fails too.
TitleRecorded(s) ==
    /\ title[s] = "saved"
    /\ title' = [title EXCEPT ![s] = "none"]
    /\ IF broken[s]
          THEN UNCHANGED <<logVars, broken>>
          ELSE \/ OtherLogged /\ UNCHANGED broken
               \/ /\ Lost
                  /\ broken' = [broken EXCEPT ![s] = pc[s] \in {"running", "ending"}]
    /\ UNCHANGED <<pc, duplicate, aborted, active, present, named, saveVars, deleting,
                   stopping, closing, closeFor, restarts, historyVars>>

-------------------------------------------------------------------------------
(***************************************************************************)
(* Saves are written one after another; whoever waits for one goes on.     *)
(***************************************************************************)

\* (as if) a failed save left its saver waiting: no catch, no finally.
ResumeOnSuccess(save, ok) ==
    LET s == save.who IN
    /\ pc' = IF ok /\ save.why = "request" THEN [pc EXCEPT ![s] = "launching"]
             ELSE IF ok /\ save.why = "end" THEN [pc EXCEPT ![s] = "ended"]
             ELSE pc
    /\ title' = IF ok /\ save.why = "title" THEN [title EXCEPT ![s] = "saved"] ELSE title
    /\ deleting' = IF ok /\ save.why = "delete" THEN "removing" ELSE deleting
    /\ UNCHANGED active

\* What the saver does when its save has succeeded or failed.
Resume(save, ok) ==
    LET s == save.who IN
    CASE save.why = "request" ->
            /\ IF ok THEN At(s, "launching") /\ UNCHANGED active ELSE Abandon(s)
            /\ title' = IF ok THEN title ELSE [title EXCEPT ![s] = "none"]
            /\ UNCHANGED deleting
      [] save.why = "end" ->
            At(s, "ended") /\ UNCHANGED <<active, title, deleting>>
      [] save.why = "title" ->
            /\ title' = [title EXCEPT ![s] = IF ok THEN "saved" ELSE "none"]
            /\ UNCHANGED <<pc, active, deleting>>
      [] OTHER ->
            /\ deleting' = IF ok THEN "removing" ELSE "failed"
            /\ UNCHANGED <<pc, active, title>>

SaveDone ==
    /\ saves # <<>>
    /\ saves' = Tail(saves)
    /\ \/ disk' = Head(saves).task /\ Resume(Head(saves), TRUE)
       \/ DiskFaults /\ Resume(Head(saves), FALSE) /\ UNCHANGED disk
    /\ UNCHANGED <<duplicate, aborted, broken, taskVars, stopping, closing, closeFor, restarts, historyVars>>

-------------------------------------------------------------------------------
(***************************************************************************)
(* task.delete, task.stop, close, restart                                  *)
(***************************************************************************)

\* (as if) a deletion were saved with whatever is saved next.
DeleteUnsaved ==
    /\ deleting = "no" /\ closing = "no"
    /\ present /\ active = NoSend
    /\ deleting' = "removing" /\ present' = FALSE
    /\ UNCHANGED <<sendVars, active, named, logVars, saveVars, stopping, closing, closeFor, restarts, historyVars>>

\* Refused while a run holds the task.
Delete ==
    /\ deleting = "no" /\ closing = "no"
    /\ present /\ active = NoSend
    /\ deleting' = "saving" /\ present' = FALSE
    /\ Save(NoSend, "delete", FALSE)
    /\ UNCHANGED <<sendVars, active, named, logVars, disk, stopping, closing, closeFor,
                   restarts, historyVars>>

\* The log, the attachments and the sessions are removed, and the call answers.  The next
\* page of any snapshot is empty.
RemoveLog ==
    /\ deleting = "removing"
    /\ deleting' = "done"
    /\ log' = <<>> /\ ahead' = FALSE /\ through' = [s \in Sends |-> "here"]
    /\ UNCHANGED <<sendVars, active, present, named, saveVars, stopping, closing, closeFor, restarts,
                   historyVars>>

\* task.remote-state: what a client tells of its queue and its confirmations is appended too.
RemoteState ==
    /\ closing = "no" /\ present
    /\ OtherLogged \/ Lost
    /\ UNCHANGED <<sendVars, active, present, named, saveVars, deleting, stopping, closing,
                   closeFor, restarts, historyVars>>

\* The run is aborted, and the call waits until it has settled.
Stop ==
    /\ stopping = NoSend /\ closing = "no"
    /\ present /\ active # NoSend
    /\ stopping' = active
    /\ aborted' = [aborted EXCEPT ![active] = TRUE]
    /\ UNCHANGED <<pc, duplicate, broken, title, active, taskVars, saveVars, deleting, closing, closeFor,
                   restarts, historyVars>>

StopAnswers ==
    /\ stopping # NoSend
    /\ pc[stopping] \in Over
    /\ stopping' = NoSend
    /\ UNCHANGED <<sendVars, active, taskVars, saveVars, deleting, closing, closeFor, restarts, historyVars>>

\* close aborts the runs there are, waits for them and for the titles, then for the saves.
Close ==
    /\ closing = "no"
    /\ closing' = "aborting" /\ closeFor' = active
    /\ aborted' = IF active = NoSend THEN aborted ELSE [aborted EXCEPT ![active] = TRUE]
    /\ UNCHANGED <<pc, duplicate, broken, title, active, taskVars, saveVars, deleting, stopping,
                   restarts, historyVars>>

CloseRunsSettled ==
    /\ closing = "aborting"
    /\ closeFor # NoSend => pc[closeFor] \in Over
    /\ closing' = "waiting" /\ closeFor' = NoSend
    /\ UNCHANGED <<sendVars, active, taskVars, saveVars, deleting, stopping, restarts, historyVars>>

Closed ==
    /\ closing = "waiting"
    /\ \A s \in Sends : title[s] = "none" \/ pc[s] \notin Answered
    /\ saves = <<>>
    /\ closing' = "closed"
    /\ UNCHANGED <<sendVars, active, taskVars, saveVars, deleting, stopping, closeFor, restarts,
                   historyVars>>

\* The last turn is an assistant turn without an end.
CutOff(i) ==
    /\ log[i].kind = "request" /\ ~Ended(log[i].run)
    /\ \A j \in i + 1..Len(log) : log[j].kind # "request"

\* The process ends, as asked or not, and initialize runs in the next one: the saved tasks
\* are read back, and a turn that was cut off is ended with an error.
Restart ==
    /\ restarts < MaxRestarts
    /\ restarts' = restarts + 1
    /\ pc' = [s \in Sends |-> IF pc[s] \in Over \cup {"idle"} THEN pc[s] ELSE "cut"]
    /\ title' = [s \in Sends |-> "none"]
    /\ active' = NoSend /\ stopping' = NoSend /\ closing' = "no"
    /\ closeFor' = NoSend
    /\ deleting' = IF deleting \in {"saving", "removing"} THEN "failed" ELSE deleting
    /\ saves' = <<>>
    /\ present' = disk
    /\ named' = (disk /\ InLog("earlier") \cup InLog("request") # {})
    /\ ahead' = FALSE /\ through' = [s \in Sends |-> "here"]
    /\ \/ \E i \in 1..Len(log) :
              disk /\ CutOff(i) /\ log' = Append(log, Event(log[i].run, NoSend, "end"))
       \/ ~(disk /\ \E i \in 1..Len(log) : CutOff(i)) /\ UNCHANGED log
    /\ UNCHANGED <<duplicate, aborted, broken, disk, historyVars>>

-------------------------------------------------------------------------------
SendStep(s) ==
    \/ TakeSnapshot(s) \/ ClaimChecked(s) \/ Prepare(s)
    \/ RecordRequest(s) \/ RecordFails(s)
    \/ Launch(s) \/ LaunchFails(s)
    \/ LastEventWritten(s) \/ Release(s)
    \/ TitleRecorded(s)

Next ==
    \/ \E s \in Sends : \/ Send(s) \/ SendStep(s) \/ RunnerEnds(s) \/ EventFails(s)
                        \/ TitleArrives(s)
    \/ SaveDone
    \/ Delete \/ RemoveLog \/ RemoteState
    \/ Stop \/ StopAnswers
    \/ Close \/ CloseRunsSettled \/ Closed
    \/ Restart

Spec == Init /\ [][Next]_vars

\* I/O completes, promises settle, and the title generator answers; a runner is bound to
\* end only once it has been aborted.
Fairness ==
    /\ \A s \in Sends : /\ WF_vars(SendStep(s))
                        /\ WF_vars(aborted[s] /\ RunnerEnds(s))
                        /\ WF_vars(TitleArrives(s))
    /\ WF_vars(SaveDone) /\ WF_vars(RemoveLog)
    /\ WF_vars(StopAnswers) /\ WF_vars(CloseRunsSettled) /\ WF_vars(Closed)

FairSpec == Spec /\ Fairness

-------------------------------------------------------------------------------
\* The registry names exactly the call that is between its claim and its release: two
\* calls never run one task at once (task-runs.ts:4-13, service.ts:327-409).
OneRunAtATime == \A s \in Sends : pc[s] \in Holding <=> active = s

\* A retry made when its run was already in the log does not start it again, restarts
\* included (service.ts:323-326).
LateRetryNeverRuns == deleting = "no" => \A s \in Sends : recorded[s] => starts[s] = 0

\* Who sees the task released finds the run's last event in the log, unless the disk has
\* failed the run (service.ts:406-407).
ReleasedHasEnd ==
    \A s \in Sends :
        pc[s] \in {"finishing", "ended"} /\ ~broken[s] /\ deleting # "done" => Ended(RunOf[s])

\* A message that was answered is on a task the saved file holds, so it survives a restart
\* (service.ts:348-352).
AnsweredIsSaved == \A s \in Sends : pc[s] \in Answered /\ present => disk

\* A task that was deleted does not come back from the saved file, whatever saves were
\* queued around the deletion (service.ts:98-107, 288-291).
DeletedStaysDeleted == deleting = "done" => ~present /\ ~disk

\* "Stop this task and its background processes before deleting it."  No run holds a task
\* that is gone.
NoRunOnDeletedTask == ~present => active = NoSend

\* A service that has closed runs nothing.
ClosedIsQuiet == closing = "closed" => active = NoSend

\* The loop of the snapshot reads one page for ever: the event it reads up to was lost and a
\* later one is in the log (service.ts:129-136).
Stuck(s) == pc[s] = "checked" /\ through[s] = "passed"

\* Calls end, also when the disk fails: task.stop and close answer, and a send answers or
\* reports its error, unless the loop of its snapshot does not end (service.ts:267-272,
\* 409-424).
EveryCallEnds ==
    /\ (stopping # NoSend) ~> (stopping = NoSend)
    /\ (closing # "no") ~> (closing \in {"no", "closed"})
    /\ \A s \in Sends : (pc[s] = "checking") ~> (pc[s] \in Answered \cup Over \/ Stuck(s))
===============================================================================
