-------------------------- MODULE HostRunsSavedStateProofs --------------------------
(***************************************************************************)
(* Proofs about the two components that answer for a file that several     *)
(* writers replace as a whole: the saved tasks of the host service         *)
(* (HostRuns), for any number of calls, runs and restarts, and the saved   *)
(* state of the desktop (SavedState), for any conversations, results,      *)
(* requests and faults.  They share no state and no lemma.                 *)
(***************************************************************************)
EXTENDS HostRuns, SavedState, SequenceTheorems, FiniteSetTheorems, WellFoundedInduction, TLAPS

(***************************************************************************)
(* HostRuns.                                                               *)
(***************************************************************************)

Places == 1..Len(saves)

\* Whoever waits for a save stands where the save will find it, and waits for one save of
\* a kind only.
WaitersInPlace ==
    /\ \A i \in Places : saves[i].why # "delete" => saves[i].who \in Sends
    /\ \A i \in Places : saves[i].why = "request" => pc[saves[i].who] = "saving"
    /\ \A i \in Places : saves[i].why = "end" => pc[saves[i].who] = "finishing"
    /\ \A i \in Places : saves[i].why = "title" => title[saves[i].who] = "saving"
    /\ \A i \in Places : saves[i].why = "delete" => saves[i].who = NoSend /\ deleting = "saving"
    /\ \A s \in Sends : title[s] \in {"saving", "saved"} => pc[s] \in Answered
    /\ \A i, j \in Places :
          saves[i].who = saves[j].who /\ saves[i].why = saves[j].why => i = j

\* A runner is started by Launch and by nothing else.
StartedOnce ==
    \A s \in Sends :
        pc[s] \in {"idle", "checking", "checked", "preparing", "requesting", "saving",
           "launching"}
            => starts[s] = 0

\* While the task is there, every save that is queued writes it.
SavedOnceAnswered ==
    /\ present => \A i \in Places : saves[i].task
    /\ \A s \in Sends : present /\ pc[s] \in {"launching"} \cup Answered => disk

\* From the deletion on, no save that is queued behind it writes the task.
DeletionSettled ==
    /\ deleting \in {"removing", "done"} =>
          ~present /\ ~disk /\ \A i \in Places : ~saves[i].task
    /\ deleting = "saving" =>
          /\ ~present
          /\ \E i \in Places : saves[i].why = "delete" /\ \A j \in Places : j >= i
             => ~saves[j].task

\* A released run has its end in the log.
EndBeforeRelease ==
    \A s \in Sends :
        pc[s] \in {"releasing", "finishing", "ended"} /\ ~broken[s] /\ deleting # "done"
            => Ended(RunOf[s])

\* A run that is in the log was asked for by a call that has been made; a later call that
\* asks for it goes no further than its snapshot.
RetryStopped ==
    /\ \A s \in Sends : pc[s] \in {"checking", "checked"} => s \in Supplied
    /\ \A s \in Sends \ Supplied : pc[s] = "idle" => ~RunInLog(RunOf[s])
    /\ \A s \in Sends : recorded[s] => s \in Supplied
    /\ \A s \in Sends : recorded[s] /\ deleting = "no" =>
          /\ pc[s] \in {"checking", "checked", "refused", "duplicate", "cut"}
          /\ pc[s] = "checking" => Requested(s)
          /\ pc[s] = "checked" => duplicate[s]
          /\ starts[s] = 0

\* Without snapshots in the way, what was looked at when a call was made still holds when
\* it claims the task.
ClaimsAtOnce ==
    Supplied = {} =>
        /\ ~present => active = NoSend
        /\ closing = "aborting" => active \in {NoSend, closeFor}
        /\ closing \in {"waiting", "closed"} => active = NoSend

IInv ==
    /\ TypeOK /\ OneRunAtATime /\ WaitersInPlace /\ StartedOnce
    /\ SavedOnceAnswered /\ DeletionSettled /\ EndBeforeRelease
    /\ RetryStopped /\ ClaimsAtOnce

-------------------------------------------------------------------------------
(***************************************************************************)
(* Queues.                                                                 *)
(***************************************************************************)

\* What one more element leaves of a queue.
LEMMA Appended ==
    ASSUME NEW S, NEW q \in Seq(S), NEW x \in S
    PROVE  /\ Append(q, x) \in Seq(S)
           /\ Len(Append(q, x)) = Len(q) + 1
           /\ \A i \in 1..Len(q) : Append(q, x)[i] = q[i]
           /\ Append(q, x)[Len(q) + 1] = x
  OBVIOUS

\* What is left when the first element has gone.
LEMMA Shifted ==
    ASSUME NEW S, NEW q \in Seq(S), q # <<>>
    PROVE  /\ Tail(q) \in Seq(S)
           /\ Len(q) \in Nat /\ Len(q) > 0
           /\ Len(Tail(q)) = Len(q) - 1
           /\ \A i \in 1..Len(Tail(q)) : Tail(q)[i] = q[i + 1]
           /\ Head(q) = q[1] /\ Head(q) \in S
  OBVIOUS

\* The events a run appends, and the saves that are asked for, are what they should be.
LEMMA LogGrows ==
    ASSUME log \in Seq(Events), NEW s \in Sends, NEW m \in Messages \cup {NoSend},
           NEW k \in {"request", "end"}
    PROVE  Append(log, Event(RunOf[s], m, k)) \in Seq(Events)
<1>1. Event(RunOf[s], m, k) \in Events
  BY DEF Events, Event, Runs
<1> QED
  BY <1>1, Appended

\* An append, whether it lands or fails, leaves the snapshots where a snapshot can be.
LEMMA NumbersTyped ==
    ASSUME TypeOK, Landed \/ Lost
    PROVE  ahead' \in BOOLEAN /\ through' \in [Sends -> {"here", "lost", "passed"}]
<1>0. through \in [Sends -> {"here", "lost", "passed"}]
  BY DEF TypeOK
<1>1. CASE Landed
  BY <1>0, <1>1 DEF Landed
<1>2. CASE Lost
  BY <1>0, <1>2 DEF Lost
<1> QED
  BY <1>1, <1>2

LEMMA QueueGrows ==
    ASSUME saves \in Seq(Savers), NEW s \in Sends \cup {NoSend},
           NEW k \in {"request", "end", "title", "delete"}, NEW b \in BOOLEAN
    PROVE  Append(saves, [who |-> s, why |-> k, task |-> b]) \in Seq(Savers)
<1>1. [who |-> s, why |-> k, task |-> b] \in Savers
  BY DEF Savers
<1> QED
  BY <1>1, Appended


\* One more save is queued; the first one is served.
Grown(save) ==
    /\ Places' = Places \cup {Len(saves) + 1} /\ Len(saves) + 1 \notin Places
    /\ \A i \in Places : saves'[i] = saves[i]
    /\ saves'[Len(saves) + 1] = save

Served ==
    /\ 1 \in Places
    /\ \A i \in Places : i \in Nat /\ (i # 1 => i - 1 \in Places' /\ saves'[i - 1] = saves[i])
    /\ \A i \in Places' : i \in Nat /\ i + 1 \in Places /\ i + 1 # 1 /\ saves'[i] = saves[i + 1]

LEMMA PlacesKept == UNCHANGED saves => UNCHANGED Places
  BY DEF Places

LEMMA SaveGrows ==
    ASSUME saves \in Seq(Savers), NEW s \in Sends \cup {NoSend},
           NEW k \in {"request", "end", "title", "delete"}, NEW b \in BOOLEAN, Save(s, k, b)
    PROVE  Grown([who |-> s, why |-> k, task |-> b])
<1>1. [who |-> s, why |-> k, task |-> b] \in Savers
  BY DEF Savers
<1>2. saves' = Append(saves, [who |-> s, why |-> k, task |-> b])
  BY DEF Save
<1>3. Len(saves) \in Nat
  OBVIOUS
<1> QED
  BY <1>1, <1>2, <1>3, Appended DEF Places, Grown

LEMMA SaveServed ==
    ASSUME saves \in Seq(Savers), saves # <<>>, saves' = Tail(saves)
    PROVE  Served
  BY Shifted DEF Places, Served

-------------------------------------------------------------------------------
(***************************************************************************)
(* Types.                                                                  *)
(***************************************************************************)

\* What the first save in the queue can do, and whom it finds.
SaveOutcome ==
    LET save == Head(saves) IN
    /\ saves # <<>> /\ saves' = Tail(saves) /\ saves' \in Seq(Savers)
    /\ save = saves[1] /\ 1 \in Places /\ save.task \in BOOLEAN
    /\ disk' \in {disk, save.task}
    /\ \/ /\ save.who \in Sends /\ save.why = "request" /\ pc[save.who] = "saving"
          /\ disk' = save.task
          /\ pc' = [pc EXCEPT ![save.who] = "launching"]
          /\ UNCHANGED <<active, title, deleting>>
       \/ /\ save.who \in Sends /\ save.why = "request" /\ pc[save.who] = "saving"
          /\ pc' = [pc EXCEPT ![save.who] = "failed"]
          /\ active' = IF active = save.who THEN NoSend ELSE active
          /\ title' = [title EXCEPT ![save.who] = "none"]
          /\ UNCHANGED deleting
       \/ /\ save.who \in Sends /\ save.why = "end" /\ pc[save.who] = "finishing"
          /\ pc' = [pc EXCEPT ![save.who] = "ended"]
          /\ UNCHANGED <<active, title, deleting>>
       \/ /\ save.who \in Sends /\ save.why = "title" /\ title[save.who] = "saving"
          /\ title' \in {[title EXCEPT ![save.who] = "saved"], [title EXCEPT
             ![save.who] = "none"]}
          /\ UNCHANGED <<pc, active, deleting>>
       \/ /\ save.why = "delete" /\ deleting = "saving"
          /\ \/ deleting' = "removing" /\ disk' = save.task
             \/ deleting' = "failed"
          /\ UNCHANGED <<pc, active, title>>

LEMMA SaveOutcomes == TypeOK /\ WaitersInPlace /\ SaveDone => SaveOutcome
<1> SUFFICES ASSUME TypeOK, WaitersInPlace, SaveDone PROVE SaveOutcome
  OBVIOUS
<1> DEFINE save == Head(saves)
<1>1. /\ saves # <<>> /\ saves' = Tail(saves) /\ saves' \in Seq(Savers) /\ save \in Savers
      /\ save = saves[1] /\ 1 \in Places
  BY Shifted DEF SaveDone, TypeOK, Places
<1>2. save.task \in BOOLEAN /\ save.why \in {"request", "end", "title", "delete"}
  BY <1>1 DEF Savers
<1>3. /\ save.why # "delete" => save.who \in Sends
      /\ save.why = "request" => pc[save.who] = "saving"
      /\ save.why = "end" => pc[save.who] = "finishing"
      /\ save.why = "title" => title[save.who] = "saving"
      /\ save.why = "delete" => deleting = "saving"
  BY <1>1 DEF WaitersInPlace
<1>4. \/ disk' = save.task /\ Resume(save, TRUE)
      \/ Resume(save, FALSE) /\ UNCHANGED disk
  BY Zenon DEF SaveDone
<1> HIDE DEF save
<1>5. CASE save.why = "request"
  BY <1>1, <1>2, <1>3, <1>4, <1>5 DEF SaveOutcome, Resume, Abandon, At, save
<1>6. CASE save.why = "end"
  BY <1>1, <1>2, <1>3, <1>4, <1>6 DEF SaveOutcome, Resume, At, save
<1>7. CASE save.why = "title"
  BY <1>1, <1>2, <1>3, <1>4, <1>7 DEF SaveOutcome, Resume, save
<1>8. CASE save.why = "delete"
  BY <1>1, <1>2, <1>3, <1>4, <1>8 DEF SaveOutcome, Resume, save
<1> QED
  BY <1>2, <1>5, <1>6, <1>7, <1>8

LEMMA TypeInit == Init => TypeOK
<1> SUFFICES ASSUME Init PROVE TypeOK
  OBVIOUS
<1>1. log \in Seq(Events)
  <2>1. Earlier \in Events
    BY DEF Events, Event
  <2> QED
    BY <2>1 DEF Init
<1>2. saves \in Seq(Savers)
  BY DEF Init
<1>3. restarts \in 0..MaxRestarts
  BY HostRunsAssumption DEF Init, HostRunsAssumption
<1>4. ahead \in BOOLEAN /\ through \in [Sends -> {"here", "lost", "passed"}]
  BY DEF Init
<1> QED
  BY <1>1, <1>2, <1>3, <1>4 DEF Init, TypeOK, Stages, Holding, Over

LEMMA TypeStep == TypeOK /\ StartedOnce /\ WaitersInPlace /\ [Next]_vars => TypeOK'
<1> SUFFICES ASSUME TypeOK, StartedOnce, WaitersInPlace, [Next]_vars PROVE TypeOK'
  OBVIOUS
<1> USE DEF TypeOK, At, Stages, Holding, Over, Answered, vars, sendVars, taskVars, logVars, saveVars,
            historyVars
<1>1. CASE \E s \in Sends : Send(s)
  <2> PICK s \in Sends : Send(s)
    BY <1>1
  <2>1. Requested(s) \in BOOLEAN
    BY DEF Requested, RunInLog
  <2>2. recorded' \in [Sends -> BOOLEAN]
    BY <2>1 DEF Send
  <2>3. pc' \in [Sends -> Stages] /\ active' \in Sends \cup {NoSend}
    BY DEF Send, Claim
  <2> HIDE DEF Stages, Answered, Over, Holding
  <2> QED
    BY <2>2, <2>3 DEF Send
<1>2. CASE \E s \in Sends : TakeSnapshot(s)
  BY <1>2 DEF TakeSnapshot, Claim, Requested, RunInLog
<1>3. CASE \E s \in Sends : ClaimChecked(s)
  BY <1>3 DEF ClaimChecked, Claim
<1>4. CASE \E s \in Sends : Prepare(s)
  BY <1>4 DEF Prepare, Abandon
<1>5. CASE \E s \in Sends : RecordFails(s)
  <2> PICK s \in Sends : RecordFails(s)
    BY <1>5
  <2>1. UNCHANGED log /\ ahead' \in BOOLEAN /\ through' \in [Sends -> {"here", "lost", "passed"}]
    BY NumbersTyped DEF RecordFails, Lost
  <2> QED
    BY <2>1 DEF RecordFails, Abandon
<1>6. CASE \E s \in Sends : RecordRequest(s)
  <2> PICK s \in Sends : RecordRequest(s)
    BY <1>6
  <2>1. log' \in Seq(Events)
    BY LogGrows DEF RecordRequest, Logged, Messages
  <2>2. saves' \in Seq(Savers)
    BY QueueGrows DEF RecordRequest, Save
  <2>3. ahead' \in BOOLEAN /\ through' \in [Sends -> {"here", "lost", "passed"}]
    BY NumbersTyped DEF RecordRequest, Logged
  <2> QED
    BY <2>1, <2>2, <2>3 DEF RecordRequest
<1>7. CASE \E s \in Sends : Launch(s)
  BY <1>7 DEF Launch, StartedOnce
<1>8. CASE \E s \in Sends : LaunchFails(s)
  BY <1>8 DEF LaunchFails, Abandon
<1>9. CASE \E s \in Sends : EventFails(s)
  <2> PICK s \in Sends : EventFails(s)
    BY <1>9
  <2>1. UNCHANGED log /\ ahead' \in BOOLEAN /\ through' \in [Sends -> {"here", "lost", "passed"}]
    BY NumbersTyped DEF EventFails, Lost, logVars
  <2> QED
    BY <2>1 DEF EventFails
<1>10. CASE \E s \in Sends : RunnerEnds(s)
  BY <1>10 DEF RunnerEnds
<1>11. CASE \E s \in Sends : LastEventWritten(s)
  <2> PICK s \in Sends : LastEventWritten(s)
    BY <1>11
  <2>1. log' \in {log, Append(log, Event(RunOf[s], NoSend, "end"))}
    BY DEF LastEventWritten, Logged, Lost, logVars
  <2>2. log' \in Seq(Events)
    <3>1. Append(log, Event(RunOf[s], NoSend, "end")) \in Seq(Events)
      BY LogGrows
    <3>2. log \in Seq(Events)
      OBVIOUS
    <3> QED
      BY <2>1, <3>1, <3>2, Zenon
  <2>3. ahead' \in BOOLEAN /\ through' \in [Sends -> {"here", "lost", "passed"}]
    BY NumbersTyped DEF LastEventWritten, Logged, logVars
  <2>4. broken' \in [Sends -> BOOLEAN]
    BY DEF LastEventWritten
  <2> QED
    BY <2>2, <2>3, <2>4 DEF LastEventWritten
<1>12. CASE \E s \in Sends : Release(s)
  <2> PICK s \in Sends : Release(s)
    BY <1>12
  <2>1. saves' \in Seq(Savers)
    BY QueueGrows DEF Release, Save
  <2> QED
    BY <2>1 DEF Release
<1>13. CASE \E s \in Sends : TitleArrives(s)
  <2> PICK s \in Sends : TitleArrives(s)
    BY <1>13
  <2>1. saves' = Append(saves, [who |-> s, why |-> "title", task |-> present]) \/ saves' = saves
    BY DEF TitleArrives, Save
  <2>2. Append(saves, [who |-> s, why |-> "title", task |-> present]) \in Seq(Savers)
    BY QueueGrows
  <2>3. saves \in Seq(Savers)
    OBVIOUS
  <2>4. saves' \in Seq(Savers)
    BY <2>1, <2>2, <2>3, Zenon
  <2> QED
    BY <2>4 DEF TitleArrives
<1>14. CASE \E s \in Sends : TitleRecorded(s)
  <2> PICK s \in Sends : TitleRecorded(s)
    BY <1>14
  <2>1. UNCHANGED log
    BY DEF TitleRecorded, OtherLogged, Lost, logVars
  <2>2. ahead' \in BOOLEAN /\ through' \in [Sends -> {"here", "lost", "passed"}]
    BY NumbersTyped DEF TitleRecorded, OtherLogged, logVars
  <2>3. broken' \in [Sends -> BOOLEAN]
    <3> DEFINE b == pc[s] \in {"running", "ending"}
    <3>1. broken' = broken \/ broken' = [broken EXCEPT ![s] = b]
      BY Zenon DEF TitleRecorded
    <3>2. b \in BOOLEAN /\ broken \in [Sends -> BOOLEAN]
      OBVIOUS
    <3> HIDE DEF b
    <3> QED
      BY <3>1, <3>2
  <2>4. title' \in [Sends -> {"none", "asking", "saving", "saved"}]
    BY DEF TitleRecorded
  <2>5. UNCHANGED <<pc, duplicate, aborted, active, present, named, saves, disk, deleting,
                    stopping, closing, closeFor, restarts, starts, recorded>>
    BY DEF TitleRecorded
  <2> QED
    BY <2>1, <2>2, <2>3, <2>4, <2>5
<1>15. CASE SaveDone
  <2>1. SaveOutcome
    BY <1>15, SaveOutcomes
  <2>2. pc' \in [Sends -> Stages] /\ active' \in Sends \cup {NoSend}
    BY <2>1 DEF SaveOutcome
  <2>3. title' \in [Sends -> {"none", "asking", "saving", "saved"}]
    BY <2>1 DEF SaveOutcome
  <2>4. /\ saves' \in Seq(Savers) /\ disk' \in BOOLEAN
        /\ deleting' \in {"no", "saving", "removing", "done", "failed"}
    BY <2>1 DEF SaveOutcome
  <2> QED
    BY <1>15, <2>2, <2>3, <2>4 DEF SaveDone
<1>16. CASE Delete
  <2>1. saves' \in Seq(Savers)
    BY <1>16, QueueGrows DEF Delete, Save
  <2> QED
    BY <1>16, <2>1 DEF Delete
<1>17. CASE RemoveLog
  <2>1. log' \in Seq(Events)
    BY <1>17 DEF RemoveLog
  <2>2. ahead' \in BOOLEAN /\ through' \in [Sends -> {"here", "lost", "passed"}]
    BY <1>17 DEF RemoveLog
  <2> QED
    BY <1>17, <2>1, <2>2 DEF RemoveLog
<1>18. CASE Stop
  BY <1>18 DEF Stop
<1>19. CASE StopAnswers
  BY <1>19 DEF StopAnswers
<1>20. CASE Close
  BY <1>20 DEF Close
<1>21. CASE CloseRunsSettled
  BY <1>21 DEF CloseRunsSettled
<1>22. CASE Closed
  BY <1>22 DEF Closed
<1>23. CASE Restart
  <2>1. log' \in Seq(Events)
    <3>1. CASE UNCHANGED log
      BY <3>1
    <3>2. ASSUME NEW i \in 1..Len(log), log[i].kind = "request"
          PROVE  Event(log[i].run, NoSend, "end") \in Events
      BY <3>2 DEF Events, Earlier, Event
    <3>3. CASE \E i \in 1..Len(log) :
                  CutOff(i) /\ log' = Append(log, Event(log[i].run, NoSend, "end"))
      BY <3>2, <3>3, Appended DEF CutOff
    <3> QED
      BY <1>23, <3>1, <3>3, Zenon DEF Restart, Stages, Holding, Over
  <2>2. restarts' \in 0..MaxRestarts
    BY <1>23, HostRunsAssumption DEF Restart, HostRunsAssumption
  <2>3. named' \in BOOLEAN /\ saves' \in Seq(Savers)
    BY <1>23 DEF Restart, Stages, Holding, Over
  <2> QED
    BY <1>23, <2>1, <2>2, <2>3 DEF Restart, Stages, Holding, Over
<1>24. CASE UNCHANGED vars
  BY <1>24
<1>25. CASE RemoteState
  <2>1. UNCHANGED log /\ ahead' \in BOOLEAN /\ through' \in [Sends -> {"here", "lost", "passed"}]
    BY <1>25, NumbersTyped DEF RemoteState, OtherLogged, Lost
  <2> QED
    BY <1>25, <2>1 DEF RemoteState
<1> QED
  BY <1>1, <1>2, <1>3, <1>4, <1>5, <1>6, <1>7, <1>8, <1>9, <1>10, <1>11, <1>12, <1>13,
     <1>14, <1>15, <1>16, <1>17, <1>18, <1>19, <1>20, <1>21, <1>22, <1>23, <1>24, <1>25
     DEF Next, SendStep

-------------------------------------------------------------------------------
(***************************************************************************)
(* The initial states.                                                     *)
(***************************************************************************)

LEMMA InitIInv == Init => IInv
<1> SUFFICES ASSUME Init PROVE IInv
  OBVIOUS
<1>1. TypeOK
  BY TypeInit
<1>2. /\ \A x : ~RunInLog(x)
      /\ \A t : ~Requested(t)
  BY DEF Init, Requested, RunInLog, InLog, Earlier, Event
<1>3. Places = {}
  BY DEF Init, Places
<1>4. OneRunAtATime
  BY HostRunsAssumption DEF HostRunsAssumption, Init, OneRunAtATime, Holding
<1>7. StartedOnce /\ EndBeforeRelease
  BY DEF Init, StartedOnce, EndBeforeRelease
<1>5. WaitersInPlace /\ SavedOnceAnswered /\ DeletionSettled /\ ClaimsAtOnce
  BY <1>3 DEF Init, WaitersInPlace, SavedOnceAnswered, Answered, DeletionSettled, ClaimsAtOnce
<1>6. RetryStopped
  BY <1>2 DEF Init, RetryStopped, Runs
<1> QED
  BY <1>1, <1>4, <1>5, <1>6, <1>7 DEF IInv

-------------------------------------------------------------------------------
(***************************************************************************)
(* One lemma per part of the invariant.  A step that leaves the part's     *)
(* variables alone preserves it.                                           *)
(***************************************************************************)

LEMMA OneRunAtATimeStep ==
    TypeOK /\ OneRunAtATime /\ WaitersInPlace /\ [Next]_vars => OneRunAtATime'
<1> SUFFICES ASSUME TypeOK, OneRunAtATime, WaitersInPlace, [Next]_vars PROVE OneRunAtATime'
  OBVIOUS
<1> USE DEF OneRunAtATime, At, Holding, sendVars, taskVars, logVars, saveVars, historyVars
<1>0. NoSend \notin Sends /\ pc \in [Sends -> Stages] /\ active \in Sends \cup {NoSend}
  BY HostRunsAssumption DEF TypeOK, HostRunsAssumption
<1>1. CASE UNCHANGED <<pc, active>>
  BY <1>1
<1>2. CASE \E s \in Sends : Send(s)
  BY <1>2, <1>0 DEF Send, Claim
<1>3. CASE \E s \in Sends : TakeSnapshot(s)
  BY <1>3, <1>0 DEF TakeSnapshot, Claim
<1>4. CASE \E s \in Sends : ClaimChecked(s)
  BY <1>4, <1>0 DEF ClaimChecked, Claim
<1>5. CASE \E s \in Sends : Prepare(s)
  BY <1>5, <1>0 DEF Prepare, Abandon
<1>6. CASE \E s \in Sends : RecordRequest(s)
  BY <1>6, <1>0 DEF RecordRequest, Save
<1>7. CASE \E s \in Sends : RecordFails(s)
  BY <1>7, <1>0 DEF RecordFails, Abandon
<1>8. CASE \E s \in Sends : Launch(s)
  BY <1>8, <1>0 DEF Launch
<1>9. CASE \E s \in Sends : LaunchFails(s)
  BY <1>9, <1>0 DEF LaunchFails, Abandon
<1>10. CASE \E s \in Sends : RunnerEnds(s)
  BY <1>10, <1>0 DEF RunnerEnds
<1>11. CASE \E s \in Sends : LastEventWritten(s)
  BY <1>11, <1>0 DEF LastEventWritten
<1>12. CASE \E s \in Sends : Release(s)
  BY <1>12, <1>0 DEF Release, Save
<1>13. CASE SaveDone
  <2>1. SaveOutcome
    BY <1>13, SaveOutcomes
  <2> QED
    BY <1>0, <2>1 DEF SaveOutcome
<1>14. CASE Restart
  BY <1>14, <1>0 DEF Restart, Stages, Holding, Over
<1>15. CASE \/ \E s \in Sends : EventFails(s) \/ TitleArrives(s) \/ TitleRecorded(s)
           \/ Delete \/ RemoveLog \/ RemoteState \/ Stop \/ StopAnswers \/ Close \/ CloseRunsSettled \/ Closed
           \/ UNCHANGED vars
  <2>1. UNCHANGED <<pc, active>>
    BY <1>15 DEF vars, sendVars, taskVars, logVars, saveVars, historyVars, EventFails,
       TitleArrives, TitleRecorded, Delete, RemoveLog, RemoteState, Stop, StopAnswers, Close,
       CloseRunsSettled, Closed
  <2> QED
    BY <2>1, <1>1
<1> QED
  BY <1>2, <1>3, <1>4, <1>5, <1>6, <1>7, <1>8, <1>9, <1>10, <1>11, <1>12, <1>13, <1>14,
     <1>15 DEF Next, SendStep

LEMMA StartedOnceStep == TypeOK /\ StartedOnce /\ WaitersInPlace /\ [Next]_vars => StartedOnce'
<1> SUFFICES ASSUME TypeOK, StartedOnce, WaitersInPlace, [Next]_vars PROVE StartedOnce'
  OBVIOUS
<1> USE DEF StartedOnce, At, Over, sendVars, taskVars, logVars, saveVars, historyVars
<1>0. pc \in [Sends -> Stages] /\ starts \in [Sends -> 0..1]
  BY HostRunsAssumption DEF TypeOK, HostRunsAssumption
<1>1. CASE UNCHANGED <<pc, starts>>
  BY <1>1
<1>2. CASE \E s \in Sends : Send(s)
  BY <1>2, <1>0 DEF Send, Claim
<1>3. CASE \E s \in Sends : TakeSnapshot(s)
  BY <1>3, <1>0 DEF TakeSnapshot, Claim
<1>4. CASE \E s \in Sends : ClaimChecked(s)
  BY <1>4, <1>0 DEF ClaimChecked, Claim
<1>5. CASE \E s \in Sends : Prepare(s)
  BY <1>5, <1>0 DEF Prepare, Abandon
<1>6. CASE \E s \in Sends : RecordRequest(s)
  BY <1>6, <1>0 DEF RecordRequest, Save
<1>7. CASE \E s \in Sends : RecordFails(s)
  BY <1>7, <1>0 DEF RecordFails, Abandon
<1>8. CASE \E s \in Sends : Launch(s)
  BY <1>8, <1>0 DEF Launch
<1>9. CASE \E s \in Sends : LaunchFails(s)
  BY <1>9, <1>0 DEF LaunchFails, Abandon
<1>10. CASE \E s \in Sends : RunnerEnds(s)
  BY <1>10, <1>0 DEF RunnerEnds
<1>11. CASE \E s \in Sends : LastEventWritten(s)
  BY <1>11, <1>0 DEF LastEventWritten
<1>12. CASE \E s \in Sends : Release(s)
  BY <1>12, <1>0 DEF Release, Save
<1>13. CASE SaveDone
  <2>1. SaveOutcome
    BY <1>13, SaveOutcomes
  <2> QED
    BY <1>13, <1>0, <2>1 DEF SaveDone, historyVars, SaveOutcome
<1>14. CASE Restart
  BY <1>14, <1>0 DEF Restart, Stages, Holding, Over
<1>15. CASE \/ \E s \in Sends : EventFails(s) \/ TitleArrives(s) \/ TitleRecorded(s)
           \/ Delete \/ RemoveLog \/ RemoteState \/ Stop \/ StopAnswers \/ Close \/ CloseRunsSettled \/ Closed
           \/ UNCHANGED vars
  <2>1. UNCHANGED <<pc, starts>>
    BY <1>15 DEF vars, sendVars, taskVars, logVars, saveVars, historyVars, EventFails,
       TitleArrives, TitleRecorded, Delete, RemoveLog, RemoteState, Stop, StopAnswers, Close,
       CloseRunsSettled, Closed
  <2> QED
    BY <2>1, <1>1
<1> QED
  BY <1>2, <1>3, <1>4, <1>5, <1>6, <1>7, <1>8, <1>9, <1>10, <1>11, <1>12, <1>13, <1>14,
     <1>15 DEF Next, SendStep

LEMMA WaitersInPlaceStep == TypeOK /\ WaitersInPlace /\ [Next]_vars => WaitersInPlace'
<1> SUFFICES ASSUME TypeOK, WaitersInPlace, [Next]_vars PROVE WaitersInPlace'
  OBVIOUS
<1> USE DEF WaitersInPlace, At, Answered, sendVars, taskVars, logVars, saveVars, historyVars
<1>0. /\ NoSend \notin Sends /\ saves \in Seq(Savers) /\ present \in BOOLEAN
      /\ pc \in [Sends -> Stages] /\ title \in [Sends -> {"none", "asking", "saving", "saved"}]
  BY HostRunsAssumption DEF TypeOK, HostRunsAssumption
<1>1. CASE UNCHANGED <<pc, title, saves, deleting>>
  BY <1>1, PlacesKept
<1>2. CASE \E s \in Sends : Send(s)
  BY <1>2, <1>0, PlacesKept DEF Send, Claim
<1>3. CASE \E s \in Sends : TakeSnapshot(s)
  BY <1>3, <1>0, PlacesKept DEF TakeSnapshot, Claim
<1>4. CASE \E s \in Sends : ClaimChecked(s)
  BY <1>4, <1>0, PlacesKept DEF ClaimChecked, Claim
<1>5. CASE \E s \in Sends : Prepare(s)
  BY <1>5, <1>0, PlacesKept DEF Prepare, Abandon
<1>6. CASE \E s \in Sends : RecordRequest(s)
  <2> PICK s \in Sends : RecordRequest(s)
    BY <1>6
  <2>1. Grown([who |-> s, why |-> "request", task |-> present])
    BY <1>0, SaveGrows DEF RecordRequest
  <2>2. /\ pc[s] = "requesting" /\ pc' = [pc EXCEPT ![s] = "saving"]
        /\ title' \in [Sends -> {"none", "asking", "saving", "saved"}]
        /\ \A t \in Sends : title'[t] \in {"saving", "saved"} => t # s
        /\ \A t \in Sends : t # s => title'[t] = title[t]
        /\ UNCHANGED deleting
    BY <1>0 DEF RecordRequest
  <2> QED
    BY <1>0, <2>1, <2>2 DEF Grown
<1>7. CASE \E s \in Sends : RecordFails(s)
  BY <1>7, <1>0, PlacesKept DEF RecordFails, Abandon
<1>8. CASE \E s \in Sends : Launch(s)
  BY <1>8, <1>0, PlacesKept DEF Launch
<1>9. CASE \E s \in Sends : LaunchFails(s)
  BY <1>9, <1>0, PlacesKept DEF LaunchFails, Abandon
<1>10. CASE \E s \in Sends : RunnerEnds(s)
  BY <1>10, <1>0, PlacesKept DEF RunnerEnds
<1>11. CASE \E s \in Sends : LastEventWritten(s)
  BY <1>11, <1>0, PlacesKept DEF LastEventWritten
<1>12. CASE \E s \in Sends : Release(s)
  <2> PICK s \in Sends : Release(s)
    BY <1>12
  <2>1. Grown([who |-> s, why |-> "end", task |-> present])
    BY <1>0, SaveGrows DEF Release
  <2> QED
    BY <1>0, <2>1 DEF Grown, Release
<1>13. CASE \E s \in Sends : TitleArrives(s)
  <2> PICK s \in Sends : TitleArrives(s)
    BY <1>13
  <2>1. CASE Save(s, "title", present) /\ title' = [title EXCEPT ![s] = "saving"]
    <3>1. Grown([who |-> s, why |-> "title", task |-> present])
      BY <1>0, <2>1, SaveGrows
    <3>2. /\ title[s] = "asking" /\ pc[s] \in Answered /\ title' = [title EXCEPT ![s] = "saving"]
          /\ UNCHANGED <<pc, deleting>>
      BY <2>1 DEF TitleArrives
    <3>3. /\ title' \in [Sends -> {"none", "asking", "saving", "saved"}]
          /\ title'[s] = "saving" /\ \A t \in Sends : t # s => title'[t] = title[t]
      BY <1>0, <3>2
    <3> HIDE DEF Answered
    <3> QED
      BY <1>0, <3>1, <3>2, <3>3 DEF Grown
  <2>2. CASE UNCHANGED saves /\ title' = [title EXCEPT ![s] = "none"]
    BY <1>0, <2>2, PlacesKept DEF TitleArrives
  <2> QED
    BY <2>1, <2>2 DEF TitleArrives
<1>14. CASE \E s \in Sends : TitleRecorded(s)
  BY <1>14, <1>0, PlacesKept DEF TitleRecorded
<1>15. CASE SaveDone
  <2>1. SaveOutcome
    BY <1>15, SaveOutcomes
  <2>2. Served
    BY <1>0, <2>1, SaveServed DEF SaveOutcome
  <2>3. Head(saves) = saves[1] /\ 1 \in Places
    BY <2>1 DEF SaveOutcome
  <2>4. \A i \in Places' : ~(saves'[i].who = saves[1].who /\ saves'[i].why = saves[1].why)
    BY <2>2, <2>3 DEF Served
  <2>5. \A i, j \in Places' :
            saves'[i].who = saves'[j].who /\ saves'[i].why = saves'[j].why => i = j
    <3> SUFFICES ASSUME NEW i \in Places', NEW j \in Places',
                        saves'[i].who = saves'[j].who, saves'[i].why = saves'[j].why
                 PROVE  i = j
      OBVIOUS
    <3>1. /\ i \in Nat /\ j \in Nat /\ i + 1 \in Places /\ j + 1 \in Places
          /\ saves'[i] = saves[i + 1] /\ saves'[j] = saves[j + 1]
      BY <2>2 DEF Served
    <3>2. i + 1 = j + 1
      BY <3>1
    <3> QED
      BY <3>1, <3>2
  <2>6. \A i \in Places' :
            /\ saves'[i].why # "delete" => saves'[i].who \in Sends
            /\ saves'[i].why = "request" => pc[saves'[i].who] = "saving"
            /\ saves'[i].why = "end" => pc[saves'[i].who] = "finishing"
            /\ saves'[i].why = "title" => title[saves'[i].who] = "saving"
            /\ saves'[i].why = "delete" => saves'[i].who = NoSend /\ deleting = "saving"
    BY <2>2 DEF Served
  <2>7. \A i \in Places' :
            /\ saves'[i].why # "delete" => saves'[i].who \in Sends
            /\ saves'[i].why = "request" => pc'[saves'[i].who] = "saving"
            /\ saves'[i].why = "end" => pc'[saves'[i].who] = "finishing"
            /\ saves'[i].why = "title" => title'[saves'[i].who] = "saving"
            /\ saves'[i].why = "delete" => saves'[i].who = NoSend /\ deleting' = "saving"
    <3> SUFFICES ASSUME NEW i \in Places'
                 PROVE  LET save == saves'[i] IN
                        /\ save.why # "delete" => save.who \in Sends
                        /\ save.why = "request" => pc'[save.who] = "saving"
                        /\ save.why = "end" => pc'[save.who] = "finishing"
                        /\ save.why = "title" => title'[save.who] = "saving"
                        /\ save.why = "delete" => save.who = NoSend /\ deleting' = "saving"
      OBVIOUS
    <3> DEFINE save == saves'[i]
               first == saves[1]
    <3> HIDE DEF WaitersInPlace
    <3>1. \A s \in Sends : title[s] = "saving" => pc[s] # "saving" /\ pc[s] # "launching"
      BY DEF WaitersInPlace
    <3>2. /\ save.why # "delete" => save.who \in Sends
          /\ save.why = "request" => pc[save.who] = "saving"
          /\ save.why = "end" => pc[save.who] = "finishing"
          /\ save.why = "title" => title[save.who] = "saving"
          /\ save.why = "delete" => save.who = NoSend /\ deleting = "saving"
          /\ ~(save.who = first.who /\ save.why = first.why)
      BY <2>4, <2>6
    <3>3. first.why = "delete" => first.who = NoSend
      BY <2>3 DEF WaitersInPlace
    <3>4. first = Head(saves)
      BY <2>3
    <3> HIDE DEF save, first
    <3>5. CASE first.why = "request"
      BY <1>0, <2>1, <3>1, <3>2, <3>4, <3>5 DEF SaveOutcome, save
    <3>6. CASE first.why = "end"
      BY <1>0, <2>1, <3>1, <3>2, <3>4, <3>6 DEF SaveOutcome, save
    <3>7. CASE first.why = "title"
      BY <1>0, <2>1, <3>1, <3>2, <3>4, <3>7 DEF SaveOutcome, save
    <3>8. CASE first.why = "delete"
      BY <1>0, <2>1, <3>1, <3>2, <3>3, <3>4, <3>8 DEF SaveOutcome, save
    <3> QED
      BY <2>1, <3>4, <3>5, <3>6, <3>7, <3>8 DEF SaveOutcome, save
  <2>8. \A s \in Sends : title'[s] \in {"saving", "saved"} => pc'[s] \in Answered
    BY <1>0, <2>1, <2>3 DEF SaveOutcome
  <2> QED
    BY <2>5, <2>7, <2>8
<1>16. CASE Delete
  <2>1. Grown([who |-> NoSend, why |-> "delete", task |-> FALSE])
    BY <1>16, <1>0, SaveGrows DEF Delete
  <2> QED
    BY <1>16, <1>0, <2>1 DEF Grown, Delete
<1>17. CASE RemoveLog
  BY <1>17, <1>0, PlacesKept DEF RemoveLog
<1>18. CASE Restart
  <2>1. Places' = {}
    BY <1>18 DEF Restart, Places
  <2> QED
    BY <1>18, <1>0, <2>1 DEF Restart, Stages, Holding, Over
<1>19. CASE \/ \E s \in Sends : EventFails(s)
           \/ RemoteState \/ Stop \/ StopAnswers \/ Close \/ CloseRunsSettled \/ Closed
           \/ UNCHANGED vars
  <2>1. UNCHANGED <<pc, title, saves, deleting>>
    BY <1>19 DEF vars, sendVars, taskVars, logVars, saveVars, historyVars, EventFails, RemoteState, Stop,
       StopAnswers, Close, CloseRunsSettled, Closed
  <2> QED
    BY <2>1, <1>1
<1> QED
  BY <1>2, <1>3, <1>4, <1>5, <1>6, <1>7, <1>8, <1>9, <1>10, <1>11, <1>12, <1>13, <1>14,
     <1>15, <1>16, <1>17, <1>18, <1>19 DEF Next, SendStep

LEMMA SavedOnceAnsweredStep ==
    TypeOK /\ WaitersInPlace /\ SavedOnceAnswered /\ [Next]_vars => SavedOnceAnswered'
<1> SUFFICES ASSUME TypeOK, WaitersInPlace, SavedOnceAnswered, [Next]_vars
    PROVE  SavedOnceAnswered'
  OBVIOUS
<1> USE DEF SavedOnceAnswered, At, Answered, sendVars, taskVars, logVars, saveVars, historyVars
<1>0. /\ NoSend \notin Sends /\ saves \in Seq(Savers) /\ pc \in [Sends -> Stages]
      /\ present \in BOOLEAN /\ disk \in BOOLEAN
  BY HostRunsAssumption DEF TypeOK, HostRunsAssumption
<1>1. CASE UNCHANGED <<present, pc, saves, disk>>
  BY <1>1, PlacesKept
<1>2. CASE \E s \in Sends : Send(s)
  BY <1>2, <1>0, PlacesKept DEF Send, Claim
<1>3. CASE \E s \in Sends : TakeSnapshot(s)
  BY <1>3, <1>0, PlacesKept DEF TakeSnapshot, Claim
<1>4. CASE \E s \in Sends : ClaimChecked(s)
  BY <1>4, <1>0, PlacesKept DEF ClaimChecked, Claim
<1>5. CASE \E s \in Sends : Prepare(s)
  BY <1>5, <1>0, PlacesKept DEF Prepare, Abandon
<1>6. CASE \E s \in Sends : RecordRequest(s)
  <2> PICK s \in Sends : RecordRequest(s)
    BY <1>6
  <2>1. Grown([who |-> s, why |-> "request", task |-> present])
    BY <1>0, SaveGrows DEF RecordRequest
  <2> QED
    BY <1>0, <2>1 DEF Grown, RecordRequest
<1>7. CASE \E s \in Sends : RecordFails(s)
  BY <1>7, <1>0, PlacesKept DEF RecordFails, Abandon
<1>8. CASE \E s \in Sends : Launch(s)
  BY <1>8, <1>0, PlacesKept DEF Launch
<1>9. CASE \E s \in Sends : LaunchFails(s)
  BY <1>9, <1>0, PlacesKept DEF LaunchFails, Abandon
<1>10. CASE \E s \in Sends : RunnerEnds(s)
  BY <1>10, <1>0, PlacesKept DEF RunnerEnds
<1>11. CASE \E s \in Sends : LastEventWritten(s)
  BY <1>11, <1>0, PlacesKept DEF LastEventWritten
<1>12. CASE \E s \in Sends : Release(s)
  <2> PICK s \in Sends : Release(s)
    BY <1>12
  <2>1. Grown([who |-> s, why |-> "end", task |-> present])
    BY <1>0, SaveGrows DEF Release
  <2> QED
    BY <1>0, <2>1 DEF Grown, Release
<1>13. CASE \E s \in Sends : TitleArrives(s)
  <2> PICK s \in Sends : TitleArrives(s)
    BY <1>13
  <2>1. CASE Save(s, "title", present)
    <3>1. Grown([who |-> s, why |-> "title", task |-> present])
      BY <1>0, <2>1, SaveGrows
    <3> QED
      BY <1>0, <3>1 DEF Grown, TitleArrives
  <2>2. CASE UNCHANGED saves
    BY <1>0, <2>2, PlacesKept DEF TitleArrives
  <2> QED
    BY <2>1, <2>2 DEF TitleArrives
<1>14. CASE SaveDone
  <2>1. SaveOutcome
    BY <1>14, SaveOutcomes
  <2>2. Served
    BY <1>0, <2>1, SaveServed DEF SaveOutcome
  <2>3. Head(saves) = saves[1] /\ 1 \in Places
    BY <2>1 DEF SaveOutcome
  <2> QED
    BY <1>14, <1>0, <2>1, <2>2, <2>3 DEF Served, SaveDone, SaveOutcome
<1>15. CASE Delete
  BY <1>15 DEF Delete
<1>16. CASE Restart
  <2>1. Places' = {}
    BY <1>16 DEF Restart, Places
  <2> QED
    BY <1>16, <1>0, <2>1 DEF Restart, Stages, Holding, Over
<1>17. CASE \/ \E s \in Sends : EventFails(s) \/ TitleRecorded(s)
           \/ RemoveLog \/ RemoteState \/ Stop \/ StopAnswers \/ Close \/ CloseRunsSettled \/ Closed
           \/ UNCHANGED vars
  <2>1. UNCHANGED <<present, pc, saves, disk>>
    BY <1>17 DEF vars, sendVars, taskVars, logVars, saveVars, historyVars, EventFails,
       TitleRecorded, RemoveLog, RemoteState, Stop, StopAnswers, Close, CloseRunsSettled, Closed
  <2> QED
    BY <2>1, <1>1
<1> QED
  BY <1>2, <1>3, <1>4, <1>5, <1>6, <1>7, <1>8, <1>9, <1>10, <1>11, <1>12, <1>13, <1>14,
     <1>15, <1>16, <1>17 DEF Next, SendStep

LEMMA DeletionSettledStep ==
    TypeOK /\ WaitersInPlace /\ DeletionSettled /\ [Next]_vars => DeletionSettled'
<1> SUFFICES ASSUME TypeOK, WaitersInPlace, DeletionSettled, [Next]_vars PROVE DeletionSettled'
  OBVIOUS
<1> USE DEF DeletionSettled, sendVars, taskVars, logVars, saveVars, historyVars
<1>0. /\ NoSend \notin Sends /\ saves \in Seq(Savers) /\ pc \in [Sends -> Stages]
      /\ present \in BOOLEAN /\ disk \in BOOLEAN
      /\ deleting \in {"no", "saving", "removing", "done", "failed"}
  BY HostRunsAssumption DEF TypeOK, HostRunsAssumption
<1>1. CASE UNCHANGED <<deleting, present, disk, saves>>
  BY <1>1, PlacesKept
<1>2. CASE \E s \in Sends : RecordRequest(s)
  <2> PICK s \in Sends : RecordRequest(s)
    BY <1>2
  <2>1. Grown([who |-> s, why |-> "request", task |-> present])
    BY <1>0, SaveGrows DEF RecordRequest
  <2>2. UNCHANGED <<deleting, present, disk>>
    BY DEF RecordRequest
  <2>3. CASE deleting = "saving"
    <3> PICK i \in Places : /\ saves[i].why = "delete"
                            /\ \A j \in Places : j >= i => ~saves[j].task
      BY <2>3
    <3> QED
      BY <2>1, <2>2, <2>3 DEF Grown
  <2>4. CASE deleting # "saving"
    BY <2>1, <2>2, <2>4 DEF Grown
  <2> QED
    BY <2>3, <2>4
<1>3. CASE \E s \in Sends : Release(s)
  <2> PICK s \in Sends : Release(s)
    BY <1>3
  <2>1. Grown([who |-> s, why |-> "end", task |-> present])
    BY <1>0, SaveGrows DEF Release
  <2> QED
    BY <1>0, <2>1 DEF Grown, Release
<1>4. CASE \E s \in Sends : TitleArrives(s)
  <2> PICK s \in Sends : TitleArrives(s)
    BY <1>4
  <2>1. CASE Save(s, "title", present)
    <3>1. Grown([who |-> s, why |-> "title", task |-> present])
      BY <1>0, <2>1, SaveGrows
    <3> QED
      BY <1>0, <3>1 DEF Grown, TitleArrives
  <2>2. CASE UNCHANGED saves
    BY <1>0, <2>2, PlacesKept DEF TitleArrives
  <2> QED
    BY <2>1, <2>2 DEF TitleArrives
<1>5. CASE SaveDone
  <2>1. SaveOutcome
    BY <1>5, SaveOutcomes
  <2>2. Served
    BY <1>0, <2>1, SaveServed DEF SaveOutcome
  <2>3. Head(saves) = saves[1] /\ 1 \in Places
    BY <2>1 DEF SaveOutcome
  <2>4. CASE deleting \in {"removing", "done"}
    <3>1. deleting' = deleting /\ saves[1].why # "delete"
      BY <2>1, <2>3, <2>4 DEF SaveOutcome, WaitersInPlace
    <3>2. present' = present /\ disk' \in {disk, saves[1].task}
      BY <1>5, <2>1, <2>3 DEF SaveDone, SaveOutcome
    <3>3. \A j \in Places' : ~saves'[j].task
      BY <2>2, <2>4 DEF Served
    <3> QED
      BY <2>2, <2>4, <3>1, <3>2, <3>3 DEF Served
  <2>5. CASE deleting = "saving"
    <3> PICK i \in Places : /\ saves[i].why = "delete"
                            /\ \A j \in Places : j >= i => ~saves[j].task
      BY <2>5
    <3>1. ~present' /\ i \in Nat
      BY <1>5, <2>2, <2>5 DEF Served, SaveDone
    <3>2. CASE i = 1
      <4>1. deleting' # "saving" /\ (deleting' \in {"removing", "done"} => ~disk')
        BY <2>1, <2>3, <2>5, <3>2 DEF SaveOutcome
      <4>2. \A j \in Places' : ~saves'[j].task
        BY <2>2, <3>2 DEF Served
      <4> QED
        BY <3>1, <4>1, <4>2
    <3>3. CASE i # 1
      <4>1. saves[1].why # "delete"
        BY <2>3, <3>3 DEF WaitersInPlace
      <4>2. deleting' = deleting
        BY <2>1, <2>3, <4>1 DEF SaveOutcome
      <4>3. i - 1 \in Places' /\ saves'[i - 1].why = "delete"
        BY <2>2, <3>3 DEF Served
      <4>4. \A j \in Places' : j >= i - 1 => ~saves'[j].task
        BY <2>2, <3>1 DEF Served
      <4> QED
        BY <2>5, <3>1, <4>2, <4>3, <4>4
    <3> QED
      BY <3>2, <3>3
  <2>6. CASE deleting \in {"no", "failed"}
    BY <2>1, <2>3, <2>6 DEF SaveOutcome, WaitersInPlace
  <2> QED
    BY <1>0, <2>4, <2>5, <2>6
<1>6. CASE Delete
  <2>1. Grown([who |-> NoSend, why |-> "delete", task |-> FALSE])
    BY <1>6, <1>0, SaveGrows DEF Delete
  <2>2. \A j \in Places : ~(j >= Len(saves) + 1)
    BY <1>0 DEF Places
  <2>3. /\ Len(saves) + 1 \in Places' /\ saves'[Len(saves) + 1].why = "delete"
        /\ \A j \in Places' : j >= Len(saves) + 1 => ~saves'[j].task
    BY <2>1, <2>2 DEF Grown
  <2> QED
    BY <1>6, <2>3 DEF Delete
<1>7. CASE RemoveLog
  BY <1>7, <1>0, PlacesKept DEF RemoveLog
<1>8. CASE Restart
  <2>1. Places' = {}
    BY <1>8 DEF Restart, Places
  <2> QED
    BY <1>8, <1>0, <2>1 DEF Restart, Stages, Holding, Over
<1>9. CASE \/ \E s \in Sends : Send(s) \/ TakeSnapshot(s) \/ ClaimChecked(s) \/ Prepare(s) \/
                RecordFails(s) \/ Launch(s) \/ LaunchFails(s) \/ EventFails(s) \/ RunnerEnds(s) \/
                LastEventWritten(s) \/ TitleRecorded(s)
           \/ RemoteState \/ Stop \/ StopAnswers \/ Close \/ CloseRunsSettled \/ Closed
           \/ UNCHANGED vars
  <2>1. UNCHANGED <<deleting, present, disk, saves>>
    BY <1>9 DEF vars, sendVars, taskVars, logVars, saveVars, historyVars, Send, TakeSnapshot,
       ClaimChecked, Prepare, RecordFails, Launch, LaunchFails, EventFails, RunnerEnds,
       LastEventWritten, TitleRecorded, RemoteState, Stop, StopAnswers, Close, CloseRunsSettled, Closed
  <2> QED
    BY <2>1, <1>1
<1> QED
  BY <1>2, <1>3, <1>4, <1>5, <1>6, <1>7, <1>8, <1>9 DEF Next, SendStep

-------------------------------------------------------------------------------
(***************************************************************************)
(* What is in the log stays there until the log is removed, and a request  *)
(* gets there through RecordRequest.                                       *)
(***************************************************************************)

LogGoesOn ==
    /\ \A r : /\ Ended(r) => Ended(r)'
              /\ RunInLog(r)' /\ ~RunInLog(r) => \E t \in Sends : RecordRequest(t) /\ RunOf[t] = r
    /\ \A t : Requested(t) => Requested(t)'

LEMMA LogAppended ==
    ASSUME log \in Seq(Events), NEW e \in Events, log' = Append(log, e)
    PROVE  /\ \A r : /\ Ended(r) => Ended(r)'
                     /\ e.kind = "end" /\ e.run = r => Ended(r)'
                     /\ RunInLog(r)' /\ ~RunInLog(r) => e.kind = "request" /\ e.run = r
           /\ \A t : Requested(t) => Requested(t)'
<1>1. /\ Len(log) \in Nat /\ Len(log') = Len(log) + 1
      /\ \A i \in 1..Len(log) : log'[i] = log[i]
      /\ log'[Len(log) + 1] = e
  BY Appended
<1>2. \A k : /\ \A i \in InLog(k) : i \in InLog(k)' /\ log'[i] = log[i]
             /\ e.kind = k => Len(log) + 1 \in InLog(k)'
             /\ \A i \in InLog(k)' : i \in InLog(k) \/ (log'[i] = e /\ e.kind = k)
  BY <1>1 DEF InLog
<1>3. \A r : /\ Ended(r) => Ended(r)'
             /\ e.kind = "end" /\ e.run = r => Ended(r)'
             /\ RunInLog(r) => RunInLog(r)'
             /\ RunInLog(r)' /\ ~RunInLog(r) => e.kind = "request" /\ e.run = r
  BY <1>1, <1>2 DEF RunInLog, Ended
<1>4. \A t : Requested(t) => Requested(t)'
  BY <1>2, <1>3 DEF Requested
<1> QED
  BY <1>3, <1>4

LEMMA LogStep == TypeOK /\ [Next]_vars => RemoveLog \/ LogGoesOn
<1> SUFFICES ASSUME TypeOK, [Next]_vars PROVE RemoveLog \/ LogGoesOn
  OBVIOUS
<1>0. log \in Seq(Events)
  BY DEF TypeOK
<1>1. CASE UNCHANGED log
  BY <1>1 DEF LogGoesOn, Requested, RunInLog, Ended, InLog
<1>2. ASSUME NEW r \in Runs, log' = Append(log, Event(r, NoSend, "end"))
      PROVE  LogGoesOn
  <2>1. Event(r, NoSend, "end") \in Events /\ Event(r, NoSend, "end").kind # "request"
    BY DEF Events, Event
  <2> QED
    BY <1>0, <1>2, <2>1, LogAppended DEF LogGoesOn
<1>3. CASE \E s \in Sends : RecordRequest(s)
  <2> PICK s \in Sends : RecordRequest(s)
    BY <1>3
  <2> DEFINE e == Event(RunOf[s], MessageOf[s], "request")
  <2>1. e \in Events /\ e.run = RunOf[s]
    BY DEF Events, Event, Runs, Messages
  <2>2. log' = Append(log, e)
    BY DEF RecordRequest, Logged
  <2> HIDE DEF e
  <2> QED
    BY <1>0, <2>1, <2>2, LogAppended DEF LogGoesOn
<1>4. CASE \E s \in Sends : LastEventWritten(s)
  <2> PICK s \in Sends : LastEventWritten(s)
    BY <1>4
  <2>1. UNCHANGED log \/ log' = Append(log, Event(RunOf[s], NoSend, "end"))
    BY DEF LastEventWritten, Logged, Lost, logVars
  <2>2. RunOf[s] \in Runs
    BY DEF Runs
  <2> QED
    BY <1>1, <1>2, <2>1, <2>2
<1>5. CASE Restart
  <2>1. ASSUME NEW i \in 1..Len(log), CutOff(i) PROVE log[i].run \in Runs
    BY <1>0, <2>1 DEF Events, Earlier, Event, CutOff
  <2>2. \/ UNCHANGED log
        \/ \E i \in 1..Len(log) :
              CutOff(i) /\ log' = Append(log, Event(log[i].run, NoSend, "end"))
    BY <1>5, Zenon DEF Restart
  <2> QED
    BY <1>1, <1>2, <2>1, <2>2
<1>6. CASE \/ \E s \in Sends : \/ Send(s) \/ TakeSnapshot(s) \/ ClaimChecked(s) \/ Prepare(s)
                               \/ RecordFails(s) \/ Launch(s) \/ LaunchFails(s) \/ EventFails(s)
                               \/ RunnerEnds(s) \/ Release(s) \/ TitleArrives(s)
                               \/ TitleRecorded(s)
           \/ SaveDone \/ Delete \/ RemoteState \/ Stop \/ StopAnswers
           \/ Close \/ CloseRunsSettled \/ Closed
           \/ UNCHANGED vars
  <2>1. UNCHANGED log
    BY <1>6 DEF vars, taskVars, logVars, Lost, OtherLogged, Send, TakeSnapshot, ClaimChecked,
                Prepare, RecordFails, Launch, LaunchFails, EventFails, RunnerEnds, Release,
                TitleArrives, TitleRecorded, SaveDone, Delete, RemoteState, Stop, StopAnswers,
                Close, CloseRunsSettled, Closed
  <2> QED
    BY <1>1, <2>1
<1> QED
  BY <1>3, <1>4, <1>5, <1>6 DEF Next, SendStep

LEMMA EndBeforeReleaseStep ==
    TypeOK /\ WaitersInPlace /\ EndBeforeRelease /\ [Next]_vars => EndBeforeRelease'
<1> SUFFICES ASSUME TypeOK, WaitersInPlace, EndBeforeRelease, [Next]_vars
    PROVE  EndBeforeRelease'
  OBVIOUS
<1> USE DEF EndBeforeRelease, At, Holding, Over, sendVars, taskVars, logVars, saveVars, historyVars
<1>0. /\ pc \in [Sends -> Stages] /\ broken \in [Sends -> BOOLEAN] /\ log \in Seq(Events)
      /\ deleting \in {"no", "saving", "removing", "done", "failed"}
  BY HostRunsAssumption DEF TypeOK, HostRunsAssumption
<1>a. deleting' # "done" => \A t \in Sends : Ended(RunOf[t]) => Ended(RunOf[t])'
  <2>1. RemoveLog \/ LogGoesOn
    BY LogStep
  <2>2. RemoveLog => deleting' = "done"
    BY DEF RemoveLog
  <2>3. LogGoesOn => \A t \in Sends : Ended(RunOf[t]) => Ended(RunOf[t])'
    BY DEF LogGoesOn
  <2> QED
    BY <2>1, <2>2, <2>3
<1>1. CASE UNCHANGED <<pc, broken, deleting, log>>
  BY <1>1, <1>a
<1>2. CASE \E s \in Sends : Send(s)
  BY <1>2, <1>0, <1>a DEF Send, Claim
<1>3. CASE \E s \in Sends : TakeSnapshot(s)
  BY <1>3, <1>0, <1>a DEF TakeSnapshot, Claim
<1>4. CASE \E s \in Sends : ClaimChecked(s)
  BY <1>4, <1>0, <1>a DEF ClaimChecked, Claim
<1>5. CASE \E s \in Sends : Prepare(s)
  BY <1>5, <1>0, <1>a DEF Prepare, Abandon
<1>6. CASE \E s \in Sends : RecordRequest(s)
  BY <1>6, <1>0, <1>a DEF RecordRequest, Save
<1>7. CASE \E s \in Sends : RecordFails(s)
  BY <1>7, <1>0, <1>a DEF RecordFails, Abandon
<1>8. CASE \E s \in Sends : Launch(s)
  BY <1>8, <1>0, <1>a DEF Launch
<1>9. CASE \E s \in Sends : LaunchFails(s)
  BY <1>9, <1>0, <1>a DEF LaunchFails, Abandon
<1>10. CASE \E s \in Sends : RunnerEnds(s)
  BY <1>10, <1>0, <1>a DEF RunnerEnds
<1>11. CASE \E s \in Sends : LastEventWritten(s)
  <2> PICK s \in Sends : LastEventWritten(s)
    BY <1>11
  <2>1. ~broken'[s] => Ended(RunOf[s])'
    <3> DEFINE e == Event(RunOf[s], NoSend, "end")
    <3>1. e \in Events /\ e.kind = "end" /\ e.run = RunOf[s]
      BY DEF Events, Event, Runs
    <3>2. ~broken'[s] => log' = Append(log, e)
      BY <1>0 DEF LastEventWritten, Logged
    <3> HIDE DEF e
    <3> QED
      BY <1>0, <3>1, <3>2, LogAppended
  <2>2. \A t \in Sends : t # s => broken'[t] = broken[t]
    BY <1>0 DEF LastEventWritten
  <2> QED
    BY <1>0, <1>a, <2>1, <2>2 DEF LastEventWritten
<1>12. CASE \E s \in Sends : Release(s)
  BY <1>12, <1>0, <1>a DEF Release, Save
<1>13. CASE \E s \in Sends : EventFails(s)
  BY <1>13, <1>0, <1>a DEF EventFails
<1>14. CASE \E s \in Sends : TitleRecorded(s)
  BY <1>14, <1>0, <1>a DEF TitleRecorded
<1>15. CASE SaveDone
  <2>1. SaveOutcome
    BY <1>15, SaveOutcomes
  <2> QED
    BY <1>15, <1>0, <1>a, <2>1 DEF SaveDone, SaveOutcome
<1>16. CASE Delete
  BY <1>16, <1>0, <1>a DEF Delete, Save
<1>17. CASE RemoveLog
  BY <1>17 DEF RemoveLog
<1>18. CASE Restart
  BY <1>18, <1>0, <1>a DEF Restart, Stages, Holding, Over
<1>19. CASE \/ \E s \in Sends : TitleArrives(s)
           \/ RemoteState \/ Stop \/ StopAnswers \/ Close \/ CloseRunsSettled \/ Closed
           \/ UNCHANGED vars
  <2>1. UNCHANGED <<pc, broken, deleting, log>>
    BY <1>19 DEF OtherLogged, Lost, vars, sendVars, taskVars, logVars, saveVars, historyVars, TitleArrives, RemoteState, Stop,
       StopAnswers, Close, CloseRunsSettled, Closed
  <2> QED
    BY <2>1, <1>1
<1> QED
  BY <1>2, <1>3, <1>4, <1>5, <1>6, <1>7, <1>8, <1>9, <1>10, <1>11, <1>12, <1>13, <1>14,
     <1>15, <1>16, <1>17, <1>18, <1>19 DEF Next, SendStep

LEMMA RetryStoppedStep ==
    TypeOK /\ StartedOnce /\ WaitersInPlace /\ RetryStopped /\ [Next]_vars => RetryStopped'
<1> SUFFICES ASSUME TypeOK, StartedOnce, WaitersInPlace, RetryStopped, [Next]_vars
    PROVE  RetryStopped'
  OBVIOUS
<1> USE DEF RetryStopped, At, Over, sendVars, taskVars, logVars, saveVars, historyVars
<1>0. /\ pc \in [Sends -> Stages] /\ duplicate \in [Sends -> BOOLEAN] /\ log \in Seq(Events)
      /\ recorded \in [Sends -> BOOLEAN] /\ starts \in [Sends -> 0..1]
      /\ deleting \in {"no", "saving", "removing", "done", "failed"}
      /\ \A s, t \in Sends : s # t /\ RunOf[s] = RunOf[t] => s \in Supplied /\ t \in Supplied
  BY HostRunsAssumption DEF TypeOK, HostRunsAssumption
<1>a. /\ deleting' = "no" => \A t \in Sends : Requested(t) => Requested(t)'
      /\ \A t \in Sends : RunInLog(RunOf[t])' /\ ~RunInLog(RunOf[t]) =>
             \E u \in Sends : pc[u] = "requesting" /\ pc'[u] = "saving" /\ RunOf[u] = RunOf[t]
  <2>1. CASE RemoveLog
    <3>1. \A t \in Sends : ~RunInLog(RunOf[t])'
      BY <2>1 DEF RemoveLog, RunInLog, InLog
    <3> QED
      BY <2>1, <3>1 DEF RemoveLog
  <2>2. CASE LogGoesOn
    <3>1. \A u \in Sends : RecordRequest(u) => pc[u] = "requesting" /\ pc'[u] = "saving"
      BY <1>0 DEF RecordRequest
    <3>2. /\ \A t \in Sends : Requested(t) => Requested(t)'
          /\ \A t \in Sends : RunInLog(RunOf[t])' /\ ~RunInLog(RunOf[t]) =>
                \E u \in Sends : RecordRequest(u) /\ RunOf[u] = RunOf[t]
      BY <2>2 DEF LogGoesOn
    <3> QED
      BY <3>1, <3>2
  <2>3. deleting' = "no" => ~RemoveLog
    BY DEF RemoveLog
  <2> QED
    BY <2>1, <2>2, <2>3, LogStep
<1>1. CASE UNCHANGED <<pc, duplicate, recorded, deleting, log, starts>>
  BY <1>1, <1>a
<1>2. CASE \E s \in Sends : Send(s)
  <2> PICK s \in Sends : Send(s)
    BY <1>2
  <2>1. \A t \in Sends : /\ Requested(t)' <=> Requested(t)
                         /\ RunInLog(RunOf[t])' <=> RunInLog(RunOf[t])
    BY DEF Send, Requested, RunInLog, InLog, logVars
  <2>2. /\ recorded'[s] <=> Requested(s)
        /\ \A t \in Sends : t # s => recorded'[t] = recorded[t]
        /\ Requested(s) => RunInLog(RunOf[s])
    BY <1>0 DEF Send, Requested, RunInLog
  <2>3. pc'[s] \in {"refused", "checking"} \/ s \notin Supplied
    BY <1>0 DEF Send, Claim
  <2>4. /\ pc'[s] \notin {"idle", "checked"} /\ (pc'[s] = "checking" => s \in Supplied)
        /\ \A t \in Sends : t # s => pc'[t] = pc[t]
    BY <1>0 DEF Send, Claim
  <2>5. pc[s] = "idle" /\ starts[s] = 0 /\ UNCHANGED <<starts, deleting, duplicate>>
    BY DEF Send, StartedOnce
  <2> QED
    BY <1>0, <2>1, <2>2, <2>3, <2>4, <2>5
<1>3. CASE \E s \in Sends : TakeSnapshot(s)
  <2> PICK s \in Sends : TakeSnapshot(s)
    BY <1>3
  <2>1. \A t \in Sends : /\ Requested(t)' <=> Requested(t)
                         /\ RunInLog(RunOf[t])' <=> RunInLog(RunOf[t])
    BY DEF TakeSnapshot, Requested, RunInLog, InLog
  <2>2. log = <<>> => ~Requested(s)
    BY DEF Requested, RunInLog, InLog
  <2>3. /\ duplicate'[s] <=> Requested(s)
        /\ \A t \in Sends : t # s => duplicate'[t] = duplicate[t]
    BY <1>0 DEF TakeSnapshot, Requested, RunInLog
  <2>4. /\ pc'[s] \notin {"idle", "checking"} /\ (log # <<>> => pc'[s] = "checked")
        /\ \A t \in Sends : t # s => pc'[t] = pc[t]
    BY <1>0 DEF TakeSnapshot, Claim
  <2>5. pc[s] = "checking" /\ UNCHANGED <<starts, deleting, recorded>>
    BY DEF TakeSnapshot
  <2> QED
    BY <1>0, <2>1, <2>2, <2>3, <2>4, <2>5
<1>4. CASE \E s \in Sends : ClaimChecked(s)
  BY <1>4, <1>0, <1>a DEF ClaimChecked, Claim
<1>5. CASE \E s \in Sends : Prepare(s)
  BY <1>5, <1>0, <1>a DEF Prepare, Abandon
<1>6. CASE \E s \in Sends : RecordRequest(s)
  BY <1>6, <1>0, <1>a DEF RecordRequest, Save
<1>7. CASE \E s \in Sends : RecordFails(s)
  BY <1>7, <1>0, <1>a DEF RecordFails, Abandon
<1>8. CASE \E s \in Sends : Launch(s)
  BY <1>8, <1>0, <1>a DEF Launch
<1>9. CASE \E s \in Sends : LaunchFails(s)
  BY <1>9, <1>0, <1>a DEF LaunchFails, Abandon
<1>10. CASE \E s \in Sends : RunnerEnds(s)
  BY <1>10, <1>0, <1>a DEF RunnerEnds
<1>11. CASE \E s \in Sends : LastEventWritten(s)
  BY <1>11, <1>0, <1>a DEF LastEventWritten
<1>12. CASE \E s \in Sends : Release(s)
  BY <1>12, <1>0, <1>a DEF Release, Save
<1>13. CASE \E s \in Sends : TitleRecorded(s)
  BY <1>13, <1>0, <1>a DEF TitleRecorded
<1>14. CASE SaveDone
  <2>1. SaveOutcome
    BY <1>14, SaveOutcomes
  <2> QED
    BY <1>14, <1>0, <1>a, <2>1 DEF SaveDone, SaveOutcome
<1>15. CASE Delete
  BY <1>15, <1>0, <1>a DEF Delete, Save
<1>16. CASE RemoveLog
  BY <1>16, <1>0, <1>a DEF RemoveLog
<1>17. CASE Restart
  BY <1>17, <1>0, <1>a DEF Restart, Stages, Holding, Over
<1>18. CASE \/ \E s \in Sends : EventFails(s) \/ TitleArrives(s)
           \/ RemoteState \/ Stop \/ StopAnswers \/ Close \/ CloseRunsSettled \/ Closed
           \/ UNCHANGED vars
  <2>1. UNCHANGED <<pc, duplicate, recorded, deleting, log, starts>>
    BY <1>18 DEF OtherLogged, Lost, vars, sendVars, taskVars, logVars, saveVars, historyVars, EventFails,
       TitleArrives, RemoteState, Stop, StopAnswers, Close, CloseRunsSettled, Closed
  <2> QED
    BY <2>1, <1>1
<1> QED
  BY <1>2, <1>3, <1>4, <1>5, <1>6, <1>7, <1>8, <1>9, <1>10, <1>11, <1>12, <1>13, <1>14,
     <1>15, <1>16, <1>17, <1>18 DEF Next, SendStep

LEMMA ClaimsAtOnceStep ==
    TypeOK /\ OneRunAtATime /\ WaitersInPlace /\ RetryStopped /\ ClaimsAtOnce /\ [Next]_vars
        => ClaimsAtOnce'
<1> SUFFICES ASSUME TypeOK, OneRunAtATime, WaitersInPlace, RetryStopped, ClaimsAtOnce, [Next]_vars
    PROVE  ClaimsAtOnce'
  OBVIOUS
<1> USE DEF ClaimsAtOnce, At, sendVars, taskVars, logVars, saveVars, historyVars
<1>0. /\ active \in Sends \cup {NoSend} /\ closeFor \in Sends \cup {NoSend} /\ NoSend \notin Sends
      /\ present \in BOOLEAN /\ closing \in {"no", "aborting", "waiting", "closed"}
      /\ Supplied \subseteq Sends
  BY HostRunsAssumption DEF TypeOK, HostRunsAssumption
<1>1. CASE UNCHANGED <<present, active, closing, closeFor>>
  BY <1>1
<1>2. CASE \E s \in Sends : Send(s)
  BY <1>2, <1>0 DEF Send, Claim
<1>3. CASE \E s \in Sends : TakeSnapshot(s)
  BY <1>3, <1>0 DEF TakeSnapshot, RetryStopped
<1>4. CASE \E s \in Sends : ClaimChecked(s)
  BY <1>4, <1>0 DEF ClaimChecked, RetryStopped
<1>5. CASE \E s \in Sends : Prepare(s)
  BY <1>5, <1>0 DEF Prepare, Abandon
<1>6. CASE \E s \in Sends : RecordRequest(s)
  BY <1>6, <1>0 DEF RecordRequest, Save
<1>7. CASE \E s \in Sends : RecordFails(s)
  BY <1>7, <1>0 DEF RecordFails, Abandon
<1>8. CASE \E s \in Sends : Launch(s)
  BY <1>8, <1>0 DEF Launch
<1>9. CASE \E s \in Sends : LaunchFails(s)
  BY <1>9, <1>0 DEF LaunchFails, Abandon
<1>10. CASE \E s \in Sends : RunnerEnds(s)
  BY <1>10, <1>0 DEF RunnerEnds
<1>11. CASE \E s \in Sends : LastEventWritten(s)
  BY <1>11, <1>0 DEF LastEventWritten
<1>12. CASE \E s \in Sends : Release(s)
  BY <1>12, <1>0 DEF Release, Save
<1>13. CASE SaveDone
  <2>1. SaveOutcome
    BY <1>13, SaveOutcomes
  <2> QED
    BY <1>13, <1>0, <2>1 DEF SaveDone, SaveOutcome
<1>14. CASE Delete
  BY <1>14, <1>0 DEF Delete, Save
<1>15. CASE Close
  BY <1>15, <1>0 DEF Close
<1>16. CASE CloseRunsSettled
  BY <1>16, <1>0 DEF CloseRunsSettled, OneRunAtATime, Holding, Over
<1>17. CASE Closed
  BY <1>17, <1>0 DEF Closed
<1>18. CASE Restart
  BY <1>18, <1>0 DEF Restart, Stages, Holding, Over
<1>19. CASE \/ \E s \in Sends : EventFails(s) \/ TitleArrives(s) \/ TitleRecorded(s)
           \/ RemoveLog \/ RemoteState \/ Stop \/ StopAnswers
           \/ UNCHANGED vars
  <2>1. UNCHANGED <<present, active, closing, closeFor>>
    BY <1>19 DEF vars, sendVars, taskVars, logVars, saveVars, historyVars, EventFails,
       TitleArrives, TitleRecorded, RemoveLog, RemoteState, Stop, StopAnswers
  <2> QED
    BY <2>1, <1>1
<1> QED
  BY <1>2, <1>3, <1>4, <1>5, <1>6, <1>7, <1>8, <1>9, <1>10, <1>11, <1>12, <1>13, <1>14,
     <1>15, <1>16, <1>17, <1>18, <1>19 DEF Next, SendStep

-------------------------------------------------------------------------------
(***************************************************************************)
(* The invariant, and what follows from it.                                *)
(***************************************************************************)

LEMMA Invariance == Spec => []IInv
<1>1. IInv /\ [Next]_vars => IInv'
  BY TypeStep, OneRunAtATimeStep, WaitersInPlaceStep, StartedOnceStep, SavedOnceAnsweredStep,
     DeletionSettledStep, EndBeforeReleaseStep, RetryStoppedStep, ClaimsAtOnceStep DEF IInv
<1> QED
  BY <1>1, InitIInv, PTL DEF Spec

\* Every variable keeps its type; a call starts its runner at most once.
THEOREM TypeCorrect == Spec => []TypeOK
<1>1. IInv => TypeOK
  BY DEF IInv
<1> QED
  BY <1>1, Invariance, PTL

\* Two calls never run one task at once: the registry names the call that holds it
\* (task-runs.ts:4-13, service.ts:327-409).
THEOREM NeverTwoRuns == Spec => []OneRunAtATime
<1>1. IInv => OneRunAtATime
  BY DEF IInv
<1> QED
  BY <1>1, Invariance, PTL

\* A retry made after its run was recorded does not run it again (service.ts:323-326).
THEOREM RetriesRunNothing == Spec => []LateRetryNeverRuns
<1>1. IInv => LateRetryNeverRuns
  BY DEF IInv, RetryStopped, LateRetryNeverRuns
<1> QED
  BY <1>1, Invariance, PTL

\* Who sees the task released finds the last event of its run (service.ts:405-407).
THEOREM ReleasedIsComplete == Spec => []ReleasedHasEnd
<1>1. IInv => ReleasedHasEnd
  BY DEF IInv, EndBeforeRelease, ReleasedHasEnd
<1> QED
  BY <1>1, Invariance, PTL

\* A message that was answered is on a task the saved file holds (service.ts:354-359).
THEOREM AnswersAreSaved == Spec => []AnsweredIsSaved
<1>1. IInv => AnsweredIsSaved
  BY DEF IInv, SavedOnceAnswered, AnsweredIsSaved
<1> QED
  BY <1>1, Invariance, PTL

\* A deleted task does not come back from the saved file (service.ts:95-105, 282-287).
THEOREM DeletionIsFinal == Spec => []DeletedStaysDeleted
<1>1. IInv => DeletedStaysDeleted
  BY DEF IInv, DeletionSettled, DeletedStaysDeleted
<1> QED
  BY <1>1, Invariance, PTL

\* Calls that do not name their run claim the task in the turn in which they find it
\* (service.ts:312-327 without 323-326).  While there are only such calls, no run holds a
\* task that is gone, and a service that has closed runs nothing.
THEOREM PlainCallsAreSafe ==
    ASSUME Supplied = {}
    PROVE  Spec => [](NoRunOnDeletedTask /\ ClosedIsQuiet)
<1>1. IInv => NoRunOnDeletedTask /\ ClosedIsQuiet
  BY DEF IInv, ClaimsAtOnce, NoRunOnDeletedTask, ClosedIsQuiet
<1> QED
  BY <1>1, Invariance, PTL

-------------------------------------------------------------------------------
(***************************************************************************)
(* SavedState.                                                             *)
(***************************************************************************)

USE DEF history

\* The shapes of what is asked for, saved, read and in progress.
Deltas == [changed : SUBSET (Items \cup {Assistant}), whole : State, of : Nat]
Asks ==
    [kind : {"full"}, whole : State] \cup [kind : {"deltas"}, deltas : Seq(Deltas)]
        \cup [kind : {"report"}, result : Results] \cup [kind : {"deliver"}]
Saves == [kind : {"full"}, whole : State] \cup [kind : {"delta"}, delta : Deltas]
Promises == [pend : SUBSET Results, told : SUBSET Results]
Stamped == [content : State, stamp : Nat]
Stamps == Nat \cup {None}
Loads ==
    {Idle} \cup [at : {"begin"}] \cup [at : {"stat"}, revision : Nat]
        \cup [at : {"stamped"}, revision : Nat, stamp : Stamps]
        \cup [at : {"parse"}, stamp : Stamps]
Operations ==
    {Idle} \cup [at : {"load"}, ask : Asks]
        \cup [at : {"write", "rename", "published"}, ask : Asks, state : State, reply : {"ok"}]
        \cup [at : {"answer"}, ask : Asks, state : State, reply : {"ok", "error"}]
        \cup [at : {"answer"}, ask : Asks, state : {None}, reply : {"full", "error"}]
Readers ==
    {Idle} \cup [at : {"wait", "load"}, ahead : Nat, owed : Promises]
        \cup [at : {"answered"}, ahead : Nat, owed : Promises, result : State \cup {None}]

StateTypeInv ==
    /\ file \in Stamped \cup {None} /\ cache \in Stamped \cup {None}
    /\ bytes \in State \cup {None} /\ revision \in Nat
    /\ load \in Loads /\ queue \in Seq(Asks) /\ op \in Operations /\ reader \in Readers
    /\ open \in BOOLEAN /\ (open => queue # <<>> /\ queue[Len(queue)].kind = "deltas")
    /\ win \in State /\ sent \in State \cup {None} /\ syncing \in Seq(Saves)
    /\ object \in Nat /\ delivering \in BOOLEAN
    /\ acked \in Promises /\ replaced \in BOOLEAN /\ overtaken \in BOOLEAN
    /\ (op.at = "answer" /\ op.reply = "full" => op.ask.kind = "deltas")

-------------------------------------------------------------------------------
LEMMA Climb ==
    ASSUME NEW N \in Nat, NEW T, 0 \in T, \A i \in 1..N : i - 1 \in T => i \in T
    PROVE  0..N \subseteq T
<1> DEFINE To(n) == 0..n
           Misses == {n \in 0..N : n \notin T}
           Below == {To(n) : n \in Misses}
<1>1. SUFFICES ASSUME Misses # {} PROVE FALSE
  OBVIOUS
<1>2. IsFiniteSet(0..N)
  BY FS_Interval
<1>3. IsWellFoundedOn(StrictSubsetOrdering(0..N), FiniteSubsetsOf(0..N))
  BY <1>2, FS_StrictSubsetOrderingWellFounded
<1>4. Below \subseteq FiniteSubsetsOf(0..N) /\ Below # {}
  <2>1. FiniteSubsetsOf(0..N) = SUBSET (0..N)
    BY <1>2, FS_FiniteSubsetsOfFinite
  <2>2. \A n \in Misses : To(n) \subseteq 0..N
    OBVIOUS
  <2> HIDE DEF To
  <2> QED
    BY <1>1, <2>1, <2>2
<1>5. PICK x \in Below : \A y \in Below : <<y, x>> \notin StrictSubsetOrdering(0..N)
  BY <1>3, <1>4, WFMin
<1>6. PICK n \in Misses : x = To(n)
  BY <1>5
<1>7. n # 0 /\ n \in 1..N /\ n - 1 \in 0..N
  BY <1>6
<1>8. n - 1 \in Misses
  BY <1>6, <1>7
<1>9. To(n - 1) \in Below /\ To(n - 1) \subseteq To(n) /\ To(n - 1) # To(n) /\ To(n) \subseteq 0..N
  BY <1>7, <1>8
<1> HIDE DEF To, Below, Misses
<1> QED
  BY <1>4, <1>5, <1>6, <1>9 DEF StrictSubsetOrdering


\* A step function and a first value define a sequence of values.
Unrolls(f, N, V, first, G) ==
    f \in [0..N -> V] /\ f[0] = first /\ \A i \in 1..N : f[i] = G[i][f[i - 1]]

LEMMA Recursion ==
    ASSUME NEW N \in Nat, NEW V, NEW first \in V, NEW G \in [1..N -> [V -> V]]
    PROVE  \E f : Unrolls(f, N, V, first, G)
<1> DEFINE Good(k, f) == f \in [0..k -> V] /\ f[0] = first /\ \A i \in 1..k : f[i] = G[i][f[i - 1]]
           T == {k \in 0..N : \E f : Good(k, f)}
<1>1. 0 \in T
  <2> DEFINE f == [i \in 0..0 |-> first]
  <2>1. f \in [0..0 -> V] /\ f[0] = first /\ 1..0 = {}
    OBVIOUS
  <2> HIDE DEF f
  <2>2. Good(0, f)
    BY <2>1
  <2> HIDE DEF Good
  <2> QED
    BY <2>2
<1>2. ASSUME NEW k \in 1..N, k - 1 \in T PROVE k \in T
  <2>1. PICK f : Good(k - 1, f)
    BY <1>2
  <2> DEFINE h == [i \in 0..k |-> IF i < k THEN f[i] ELSE G[k][f[k - 1]]]
  <2>2. k - 1 \in 0..(k - 1) /\ f[k - 1] \in V
    BY <2>1
  <2>3. G[k][f[k - 1]] \in V
    BY <2>2
  <2>4. h \in [0..k -> V]
    BY <2>1, <2>3
  <2>5. h[0] = first
    BY <2>1
  <2>6. ASSUME NEW i \in 1..k PROVE h[i] = G[i][h[i - 1]]
    <3>1. h[i - 1] = f[i - 1] /\ i - 1 \in 0..(k - 1)
      OBVIOUS
    <3>2. CASE i = k
      <4>1. h[i] = G[k][f[k - 1]]
        BY <3>2
      <4> HIDE DEF h, Good
      <4> QED
        BY <3>1, <3>2, <4>1
    <3>3. CASE i # k
      <4>1. i \in 1..(k - 1) /\ h[i] = f[i]
        BY <3>3
      <4>2. f[i] = G[i][f[i - 1]]
        BY <2>1, <4>1
      <4> HIDE DEF h, Good
      <4> QED
        BY <3>1, <4>1, <4>2
    <3> QED
      BY <3>2, <3>3
  <2> HIDE DEF h
  <2>7. Good(k, h)
    BY <2>4, <2>5, <2>6
  <2> HIDE DEF Good
  <2> QED
    BY <2>7
<1>3. 0..N \subseteq T
  <2> HIDE DEF T
  <2> QED
    BY <1>1, <1>2, Climb
<1>4. N \in T
  BY <1>3
<1>5. PICK f : Good(N, f)
  BY <1>4
<1> QED
  BY <1>5 DEF Unrolls
-------------------------------------------------------------------------------
\* What a delta does to a state.
VerBy(d, ver) ==
    [i \in Items |-> IF i \in d.changed \/ d.whole.ver[i] = 0 THEN d.whole.ver[i] ELSE ver[i]]

ToldBy(d, told) == IF Assistant \in d.changed THEN d.whole.told ELSE told
PendBy(d, pend) == IF Assistant \in d.changed THEN d.whole.pend ELSE pend

LEMMA DeltaApplied ==
    ASSUME NEW s \in State, NEW d \in Deltas
    PROVE  /\ ApplyDelta(s, d) \in State
           /\ ApplyDelta(s, d).pend = s.pend
           /\ ApplyDelta(s, d).told = ToldBy(d, s.told) \cup s.told
           /\ ApplyDelta(s, d).ver = VerBy(d, s.ver)
<1>1. d.whole \in State /\ s.ver \in [Items -> Nat] /\ d.whole.ver \in [Items -> Nat]
  BY DEF Deltas, State
<1>2. VerBy(d, s.ver) \in [Items -> Nat]
  BY <1>1 DEF VerBy
<1>3. PICK told : told = ToldBy(d, s.told)
  OBVIOUS
<1>4. told \in SUBSET Results /\ s.told \in SUBSET Results /\ s.pend \in SUBSET Results
  BY <1>1, <1>3 DEF State, ToldBy
<1>5. ApplyDelta(s, d) =
        Merge(s, [ver |-> VerBy(d, s.ver), pend |-> d.whole.pend, told |-> told])
  BY <1>3 DEF ApplyDelta, VerBy, ToldBy
<1>6. PICK r : r = [ver |-> VerBy(d, s.ver), pend |-> d.whole.pend, told |-> told]
  OBVIOUS
<1>7. ApplyDelta(s, d) = [ver |-> r.ver, pend |-> s.pend, told |-> told \cup s.told]
  <2> HIDE DEF VerBy
  <2> QED
    BY <1>5, <1>6 DEF Merge
<1> HIDE DEF VerBy
<1> QED
  BY <1>2, <1>3, <1>4, <1>6, <1>7 DEF State

LEMMA ChainUnrolled ==
    ASSUME NEW s \in State, NEW ds \in Seq(Deltas)
    PROVE  /\ Chain(s, ds) \in [0..Len(ds) -> State] /\ Chain(s, ds)[0] = s
           /\ \A n \in 1..Len(ds) : Chain(s, ds)[n] = ApplyDelta(Chain(s, ds)[n - 1], ds[n])
<1> DEFINE N == Len(ds)
           Steps(f) == [n \in 0..N |-> IF n = 0 THEN s ELSE ApplyDelta(f[n - 1], ds[n])]
           G == [n \in 1..N |-> [x \in State |-> ApplyDelta(x, ds[n])]]
<1>1. N \in Nat /\ \A n \in 1..N : ds[n] \in Deltas
  OBVIOUS
<1>2. G \in [1..N -> [State -> State]]
  BY <1>1, DeltaApplied
<1>3. PICK f : Unrolls(f, N, State, s, G)
  <2> HIDE DEF G, N
  <2> QED
    BY <1>1, <1>2, Recursion
<1>f. f \in [0..N -> State] /\ f[0] = s
  BY <1>3 DEF Unrolls
<1>4. ASSUME NEW n \in 1..N PROVE f[n - 1] \in State /\ f[n] = ApplyDelta(f[n - 1], ds[n])
  <2>1. PICK x \in State : x = f[n - 1]
    BY <1>1, <1>f
  <2>2. f[n] = G[n][x]
    <3> HIDE DEF G, N
    <3> QED
      BY <1>3, <2>1 DEF Unrolls
  <2>3. G[n] = [y \in State |-> ApplyDelta(y, ds[n])]
    OBVIOUS
  <2> HIDE DEF G, N
  <2> QED
    BY <2>1, <2>2, <2>3
<1>5. f = Steps(f)
  <2>1. f = [n \in 0..N |-> f[n]]
    BY <1>f
  <2>2. \A n \in 0..N : f[n] = IF n = 0 THEN s ELSE ApplyDelta(f[n - 1], ds[n])
    BY <1>1, <1>f, <1>4
  <2> QED
    BY <2>1, <2>2
<1>6. PICK g : g = Steps(g) /\ g = Chain(s, ds)
  <2>1. Chain(s, ds) = CHOOSE g : g = Steps(g)
    BY DEF Chain
  <2> HIDE DEF Steps
  <2> QED
    BY <1>5, <2>1
<1>7. g[0] = s /\ \A n \in 1..N : g[n] = ApplyDelta(g[n - 1], ds[n])
  BY <1>1, <1>6
<1>8. \A n \in 0..N : g[n] \in State
  <2> DEFINE T == {n \in 0..N : g[n] \in State}
  <2>1. 0 \in T
    BY <1>1, <1>7
  <2>2. \A n \in 1..N : n - 1 \in T => n \in T
    <3> SUFFICES ASSUME NEW n \in 1..N, n - 1 \in T PROVE n \in T
      OBVIOUS
    <3>1. PICK x \in State : x = g[n - 1]
      OBVIOUS
    <3>2. PICK d \in Deltas : d = ds[n]
      BY <1>1
    <3>3. g[n] = ApplyDelta(x, d)
      BY <1>7, <3>1, <3>2
    <3>4. PICK y : y = g[n] /\ y = ApplyDelta(x, d)
      BY <3>3
    <3>5. y \in State
      BY <3>4, DeltaApplied
    <3>6. n \in 0..N
      BY <1>1
    <3> HIDE DEF N
    <3> QED
      BY <3>4, <3>5, <3>6
  <2> HIDE DEF T, N
  <2>3. 0..N \subseteq T
    BY <1>1, <2>1, <2>2, Climb
  <2> QED
    BY <2>3 DEF T
<1>9. g \in [0..N -> State]
  BY <1>6, <1>8
<1> QED
  BY <1>6, <1>7, <1>9

\* Where every delta knows only results that are told already, a batch changes nothing but
\* the versions.
LEMMA ChainKeeps ==
    ASSUME NEW s \in State, NEW ds \in Seq(Deltas),
           \A n \in 1..Len(ds) : ds[n].whole.told \subseteq s.told
    PROVE  /\ Chain(s, ds)[Len(ds)] \in State
           /\ Chain(s, ds)[Len(ds)].pend = s.pend /\ Chain(s, ds)[Len(ds)].told = s.told
<1> DEFINE N == Len(ds)
           g == Chain(s, ds)
           T == {n \in 0..N : g[n].pend = s.pend /\ g[n].told = s.told}
<1>1. /\ N \in Nat /\ g \in [0..N -> State] /\ g[0] = s
      /\ \A n \in 1..N : g[n] = ApplyDelta(g[n - 1], ds[n]) /\ ds[n] \in Deltas
  BY ChainUnrolled
<1> HIDE DEF g
<1>2. 0 \in T
  BY <1>1
<1>3. ASSUME NEW n \in 1..N, n - 1 \in T PROVE n \in T
  <2>1. g[n - 1] \in State /\ ds[n] \in Deltas /\ g[n] = ApplyDelta(g[n - 1], ds[n])
    BY <1>1, <1>3
  <2>2. /\ g[n].pend = g[n - 1].pend
        /\ g[n].told = ToldBy(ds[n], g[n - 1].told) \cup g[n - 1].told
    <3>1. PICK x \in State : x = g[n - 1]
      BY <2>1
    <3>2. PICK d \in Deltas : d = ds[n]
      BY <2>1
    <3>3. PICK y : y = g[n] /\ y = ApplyDelta(x, d)
      BY <2>1, <3>1, <3>2
    <3>4. /\ y.pend = x.pend
          /\ y.told = ToldBy(d, x.told) \cup x.told
      BY <3>3, DeltaApplied
    <3> QED
      BY <3>1, <3>2, <3>3, <3>4
  <2>3. g[n - 1].pend = s.pend /\ g[n - 1].told = s.told
    BY <1>3
  <2>4. g[n].told = s.told
    BY <2>2, <2>3 DEF ToldBy
  <2> QED
    BY <2>2, <2>3, <2>4
<1> HIDE DEF T, N
<1>4. 0..N \subseteq T
  BY <1>1, <1>2, <1>3, Climb
<1>5. N \in T
  BY <1>1, <1>4
<1> QED
  BY <1>1, <1>5 DEF T, N, g

\* What the window takes for described follows a similar equation: the deltas of another
\* object are passed over.
After(d, k, obj) ==
    IF d.of # obj THEN k
    ELSE [ver |-> VerBy(d, k.ver), pend |-> PendBy(d, k.pend), told |-> ToldBy(d, k.told)]

Known(w, obj, deltas) ==
    LET known[n \in 0..Len(deltas)] ==
          IF n = 0 THEN w ELSE After(deltas[n], known[n - 1], obj)
    IN  known[Len(deltas)]

LEMMA DescribedKnown == \A ds : Described(ds) = Known(sent, object, ds)
  BY DEF Described, Known, After, VerBy, PendBy, ToldBy

LEMMA KnownUnrolled ==
    ASSUME NEW w \in State, NEW obj, NEW ds \in Seq(Deltas)
    PROVE  \E k \in [0..Len(ds) -> State] :
              /\ k[0] = w /\ Known(w, obj, ds) = k[Len(ds)]
              /\ \A n \in 1..Len(ds) : k[n] = After(ds[n], k[n - 1], obj)
<1> DEFINE N == Len(ds)
           Steps(f) == [n \in 0..N |-> IF n = 0 THEN w ELSE After(ds[n], f[n - 1], obj)]
           G == [n \in 1..N |-> [x \in State |-> After(ds[n], x, obj)]]
<1>0. \A d \in Deltas, s \in State : After(d, s, obj) \in State
  <2>1. \A d \in Deltas, s \in State : VerBy(d, s.ver) \in [Items -> Nat]
    BY DEF VerBy, Deltas, State
  <2> QED
    BY <2>1 DEF After, Deltas, State, ToldBy, PendBy
<1>1. N \in Nat /\ \A n \in 1..N : ds[n] \in Deltas
  OBVIOUS
<1>a. Known(w, obj, ds) = (CHOOSE g : g = Steps(g))[N]
  BY DEF Known
<1>2. G \in [1..N -> [State -> State]]
  BY <1>0, <1>1
<1>3. PICK f : Unrolls(f, N, State, w, G)
  <2> HIDE DEF G, N
  <2> QED
    BY <1>1, <1>2, Recursion
<1>f. f \in [0..N -> State] /\ f[0] = w
  BY <1>3 DEF Unrolls
<1>4. ASSUME NEW n \in 1..N
      PROVE  f[n - 1] \in State /\ f[n] = After(ds[n], f[n - 1], obj)
  <2>1. PICK x \in State : x = f[n - 1]
    BY <1>1, <1>f
  <2>2. f[n] = G[n][x]
    <3> HIDE DEF G, N
    <3> QED
      BY <1>3, <2>1 DEF Unrolls
  <2>3. G[n] = [y \in State |-> After(ds[n], y, obj)]
    OBVIOUS
  <2> HIDE DEF G, N
  <2> QED
    BY <2>1, <2>2, <2>3
<1>5. f = Steps(f)
  <2>1. f = [n \in 0..N |-> f[n]]
    BY <1>f
  <2>2. \A n \in 0..N : f[n] = IF n = 0 THEN w ELSE After(ds[n], f[n - 1], obj)
    BY <1>1, <1>f, <1>4
  <2> QED
    BY <2>1, <2>2
<1>6. PICK g : g = Steps(g) /\ Known(w, obj, ds) = g[N]
  <2> HIDE DEF Steps
  <2> QED
    BY <1>5, <1>a
<1>7. g[0] = w /\ \A n \in 1..N : g[n] = After(ds[n], g[n - 1], obj)
  BY <1>1, <1>6
<1>8. \A n \in 0..N : g[n] \in State
  <2> DEFINE T == {n \in 0..N : g[n] \in State}
  <2>1. 0 \in T
    BY <1>1, <1>7
  <2>2. \A n \in 1..N : n - 1 \in T => n \in T
    <3> SUFFICES ASSUME NEW n \in 1..N, n - 1 \in T PROVE n \in T
      OBVIOUS
    <3>1. g[n - 1] \in State /\ ds[n] \in Deltas
      BY <1>1
    <3> QED
      BY <1>0, <1>1, <1>7, <3>1
  <2> HIDE DEF T, N
  <2>3. 0..N \subseteq T
    BY <1>1, <2>1, <2>2, Climb
  <2> QED
    BY <2>3 DEF T
<1>9. g \in [0..N -> State]
  BY <1>6, <1>8
<1> QED
  BY <1>6, <1>7, <1>9

\* What the window takes for described after a batch holds nothing but what it knew.
LEMMA KnownFrom ==
    ASSUME NEW w \in State, NEW obj, NEW ds \in Seq(Deltas)
    PROVE  /\ Known(w, obj, ds) \in State
           /\ \/ Known(w, obj, ds).told = w.told /\ Known(w, obj, ds).pend = w.pend
              \/ \E n \in 1..Len(ds) : /\ Known(w, obj, ds).told = ds[n].whole.told
                                       /\ Known(w, obj, ds).pend = ds[n].whole.pend
<1> DEFINE N == Len(ds)
<1>1. PICK k \in [0..N -> State] :
        /\ k[0] = w /\ Known(w, obj, ds) = k[N]
        /\ \A n \in 1..N : k[n] = After(ds[n], k[n - 1], obj)
  BY KnownUnrolled
<1>0. N \in Nat
  OBVIOUS
<1> DEFINE From(n) == \/ k[n].told = w.told /\ k[n].pend = w.pend
                      \/ \E m \in 1..N : /\ k[n].told = ds[m].whole.told
                                         /\ k[n].pend = ds[m].whole.pend
           T == {n \in 0..N : From(n)}
<1>2. 0 \in T
  BY <1>0, <1>1
<1>3. ASSUME NEW n \in 1..N, n - 1 \in T PROVE n \in T
  <2>1. From(n - 1)
    BY <1>3
  <2>2. PICK x, d : x = k[n - 1] /\ d = ds[n] /\ k[n] = After(d, x, obj)
    BY <1>1
  <2>3. \/ k[n].told = d.whole.told /\ k[n].pend = d.whole.pend
        \/ k[n].told = x.told /\ k[n].pend = x.pend
    BY <2>2 DEF After, ToldBy, PendBy
  <2>4. n \in 1..N /\ n \in 0..N
    BY <1>0
  <2> HIDE DEF N
  <2>5. CASE k[n].told = d.whole.told /\ k[n].pend = d.whole.pend
    BY <2>2, <2>4, <2>5
  <2>6. CASE k[n].told = x.told /\ k[n].pend = x.pend
    BY <2>1, <2>2, <2>4, <2>6
  <2> QED
    BY <2>3, <2>5, <2>6
<1> HIDE DEF T, N
<1>4. 0..N \subseteq T
  BY <1>0, <1>2, <1>3, Climb
<1>5. N \in T /\ k[N] \in State
  BY <1>0, <1>1, <1>4
<1> QED
  BY <1>1, <1>5 DEF T, N

-------------------------------------------------------------------------------
\* What the shapes of the records say.
LEMMA OpShape ==
    ASSUME op \in Operations
    PROVE  /\ op.at \in {"idle", "load", "write", "rename", "published", "answer"}
           /\ op = Idle <=> op.at = "idle"
           /\ op # Idle => op.ask \in Asks
           /\ op.at \in {"write", "rename", "published"} =>
                 op \in [at : {"write", "rename", "published"}, ask : Asks, state : State,
                        reply : {"ok"}]
           /\ op.at = "answer" =>
                 \/ op \in [at : {"answer"}, ask : Asks, state : State, reply : {"ok", "error"}]
                 \/ op \in [at : {"answer"}, ask : Asks, state : {None}, reply : {"full", "error"}]
  BY DEF Operations, Idle

LEMMA LoadShape ==
    ASSUME load \in Loads
    PROVE  /\ load.at \in {"idle", "begin", "stat", "stamped", "parse"}
           /\ load = Idle <=> load.at = "idle"
           /\ load.at \in {"stat", "stamped"} => load.revision \in Nat
           /\ load.at \in {"stamped", "parse"} => load.stamp \in Stamps
  BY DEF Loads, Idle

LEMMA ReaderShape ==
    ASSUME reader \in Readers
    PROVE  /\ reader.at \in {"idle", "wait", "load", "answered"}
           /\ reader = Idle <=> reader.at = "idle"
           /\ reader # Idle => reader.ahead \in Nat /\ reader.owed \in Promises
           /\ reader.at \in {"wait", "load"} =>
                 reader \in [at : {"wait", "load"}, ahead : Nat, owed : Promises]
           /\ reader.at = "answered" =>
                 reader \in [at : {"answered"}, ahead : Nat, owed : Promises,
                            result : State \cup {None}]
  BY DEF Readers, Idle

LEMMA AskShape ==
    ASSUME NEW o \in Asks
    PROVE  /\ o.kind \in {"full", "deltas", "report", "deliver"}
           /\ o.kind = "full" => o.whole \in State
           /\ o.kind = "deltas" => o.deltas \in Seq(Deltas)
           /\ o.kind = "report" => o.result \in Results
  BY DEF Asks

LEMMA MergeMade ==
    ASSUME NEW s \in State, NEW d \in State
    PROVE  /\ Merge(s, d) \in State /\ Merge(s, d).ver = d.ver
           /\ Merge(s, d).pend = s.pend /\ Merge(s, d).told = d.told \cup s.told
  BY DEF Merge, State

LEMMA EditMade ==
    ASSUME NEW s \in State, NEW o \in Asks, InPlace(o)
    PROVE  /\ Edit(s, o) \in State /\ Edit(s, o).ver = s.ver
           /\ o.kind = "deliver" => /\ Edit(s, o).pend = {}
                                    /\ Edit(s, o).told = s.told \cup s.pend
           /\ o.kind = "report" =>
                 /\ Edit(s, o).told = s.told
                 /\ Edit(s, o).pend = IF o.result \in s.told THEN s.pend
                                      ELSE s.pend \cup {o.result}
<1>1. CASE o.kind = "deliver"
  BY <1>1 DEF Edit, State
<1>2. CASE o.kind = "report"
  <2>1. o.result \in Results
    BY <1>2, AskShape
  <2> QED
    BY <1>2, <2>1 DEF Edit, State
<1> QED
  BY <1>1, <1>2 DEF InPlace

LEMMA ReplySays ==
    ASSUME NEW s \in State \cup {None}, NEW o \in Asks
    PROVE  /\ Reply(s, o) \in {"ok", "full", "error"}
           /\ Reply(s, o) = "ok" => o.kind = "full" \/ s \in State
           /\ Reply(s, o) = "full" => o.kind = "deltas"
  BY AskShape DEF Reply

LEMMA OutcomeTyped ==
    ASSUME NEW s \in State \cup {None}, NEW o \in Asks, Reply(s, o) = "ok"
    PROVE  Outcome(s, o) \in State
<1>1. CASE o.kind = "full"
  <2>1. o.whole \in State
    BY <1>1, AskShape
  <2> QED
    BY <1>1, <2>1, MergeMade DEF Outcome
<1>2. CASE o.kind = "deltas"
  <2>1. PICK ds \in Seq(Deltas) : ds = o.deltas
    BY <1>2, AskShape
  <2>2. s \in State
    BY <1>2, ReplySays
  <2>3. Len(ds) \in 0..Len(ds)
    BY <2>1
  <2>4. Chain(s, ds)[Len(ds)] \in State
    BY <2>2, <2>3, ChainUnrolled
  <2> QED
    BY <1>2, <2>1, <2>4 DEF Outcome
<1>3. CASE InPlace(o)
  <2>1. s \in State
    BY <1>3, ReplySays DEF InPlace
  <2> QED
    BY <1>3, <2>1, EditMade DEF Outcome, InPlace
<1> QED
  BY <1>1, <1>2, <1>3, AskShape DEF InPlace

\* A delta joins the batch at the end of the queue, or begins one.
LEMMA SubmitTyped ==
    ASSUME StateTypeInv, NEW delta \in Deltas, Submit(delta)
    PROVE  /\ queue' \in Seq(Asks) /\ open' = TRUE /\ queue' # <<>>
           /\ queue'[Len(queue')].kind = "deltas"
           /\ \/ queue' = Append(queue, [kind |-> "deltas", deltas |-> <<delta>>])
              \/ /\ queue # <<>> /\ Len(queue') = Len(queue)
                 /\ queue[Len(queue)].kind = "deltas"
                 /\ \A n \in 1..(Len(queue) - 1) : queue'[n] = queue[n]
                 /\ queue'[Len(queue)].deltas = Append(queue[Len(queue)].deltas, delta)
<1>1. CASE open
  <2>1. PICK N \in Nat : N = Len(queue) /\ N > 0
    BY <1>1 DEF StateTypeInv
  <2>2. PICK q \in Asks : q = queue[N] /\ q.kind = "deltas"
    BY <1>1, <2>1 DEF StateTypeInv
  <2>3. q \in [kind : {"deltas"}, deltas : Seq(Deltas)]
    BY <2>2 DEF Asks
  <2>4. PICK r : r = [q EXCEPT !.deltas = Append(@, delta)]
    OBVIOUS
  <2>5. r \in [kind : {"deltas"}, deltas : Seq(Deltas)] /\ r.deltas = Append(q.deltas, delta)
    BY <2>3, <2>4
  <2>6. r \in Asks /\ r.kind = "deltas"
    BY <2>5 DEF Asks
  <2>7. queue' = [queue EXCEPT ![N] = r] /\ open'
    BY <1>1, <2>1, <2>2, <2>4 DEF Submit
  <2>8. queue' \in Seq(Asks) /\ Len(queue') = N /\ queue'[N] = r
        /\ \A n \in 1..(N - 1) : queue'[n] = queue[n]
    BY <2>1, <2>6, <2>7 DEF StateTypeInv
  <2> QED
    BY <1>1, <2>1, <2>2, <2>5, <2>6, <2>7, <2>8 DEF StateTypeInv
<1>2. CASE ~open
  <2>1. PICK r : r = [kind |-> "deltas", deltas |-> <<delta>>]
    OBVIOUS
  <2>2. r \in Asks /\ r.kind = "deltas"
    BY <2>1 DEF Asks
  <2>3. queue' = Append(queue, r) /\ open'
    BY <1>2, <2>1 DEF Submit
  <2>4. queue \in Seq(Asks)
    BY DEF StateTypeInv
  <2> QED
    BY <2>1, <2>2, <2>3, <2>4
<1> QED
  BY <1>1, <1>2

LEMMA EnqueueTyped ==
    ASSUME StateTypeInv, NEW o \in Asks, Enqueue(o)
    PROVE  queue' \in Seq(Asks) /\ open' = FALSE /\ queue' = Append(queue, o)
  BY DEF Enqueue, StateTypeInv

LEMMA ChangedTyped ==
    ASSUME StateTypeInv, sent \in State
    PROVE  [changed |-> Changed(sent), whole |-> win, of |-> object] \in Deltas
<1>1. Changed(sent) \in SUBSET (Items \cup {Assistant})
  BY DEF Changed
<1> QED
  BY <1>1 DEF StateTypeInv, Deltas

-------------------------------------------------------------------------------
LEMMA OwesTyped ==
    ASSUME StateTypeInv, op.at = "answer", op.reply = "ok", NEW a \in Promises
    PROVE  Owes(a, op.ask) \in Promises
<1>1. op.state \in State /\ op.ask \in Asks
  BY OpShape DEF StateTypeInv, Idle
<1>2. op.state.told \in SUBSET Results
  BY <1>1 DEF State
<1>3. op.ask.kind = "report" => op.ask.result \in Results
  BY <1>1, AskShape
<1> QED
  BY <1>2, <1>3 DEF Owes, Promises

LEMMA WithoutOne ==
    ASSUME NEW S, NEW s \in Seq(S), NEW n \in 1..Len(s)
    PROVE  LET t == SubSeq(s, 1, n - 1) \o SubSeq(s, n + 1, Len(s))
           IN  /\ t \in Seq(S)
               /\ \A i \in 1..Len(t) : \E j \in 1..Len(s) : t[i] = s[j]
<1>1. PICK N \in Nat : N = Len(s)
  OBVIOUS
<1>2. \A i \in 1..N : s[i] \in S
  BY <1>1
<1>3. PICK a : a = SubSeq(s, 1, n - 1)
  OBVIOUS
<1>4. PICK b : b = SubSeq(s, n + 1, N)
  OBVIOUS
<1>5. a \in Seq(S) /\ Len(a) = n - 1 /\ \A i \in 1..(n - 1) : a[i] = s[i]
  BY <1>1, <1>2, <1>3
<1>6. b \in Seq(S) /\ Len(b) = N - n /\ \A i \in 1..(N - n) : b[i] = s[n + i]
  BY <1>1, <1>2, <1>4
<1>7. PICK t : t = a \o b
  OBVIOUS
<1>8. t \in Seq(S) /\ Len(t) = N - 1
      /\ \A i \in 1..(N - 1) : t[i] = IF i <= n - 1 THEN a[i] ELSE b[i - (n - 1)]
  <2>1. n - 1 \in Nat /\ N - n \in Nat /\ N \in Nat
    BY <1>1
  <2>2. /\ t \in Seq(S) /\ Len(t) = Len(a) + Len(b)
        /\ \A i \in 1..(Len(a) + Len(b)) : t[i] = IF i <= Len(a) THEN a[i] ELSE b[i - Len(a)]
    BY <1>5, <1>6, <1>7, ConcatProperties
  <2> QED
    BY <1>5, <1>6, <2>1, <2>2
<1>9. ASSUME NEW i \in 1..Len(t) PROVE \E j \in 1..N : t[i] = s[j]
  <2>1. CASE i <= n - 1
    BY <1>1, <1>5, <1>8, <2>1
  <2>2. CASE i > n - 1
    <3>1. i - (n - 1) \in 1..(N - n) /\ i + 1 \in 1..N /\ n + (i - (n - 1)) = i + 1
      BY <1>1, <1>8, <2>2
    <3>2. i \in 1..(N - 1) /\ ~(i <= n - 1)
      BY <1>1, <1>8, <2>2
    <3>3. t[i] = b[i - (n - 1)]
      BY <1>8, <3>2
    <3>4. t[i] = s[i + 1]
      BY <1>6, <3>1, <3>3
    <3> QED
      BY <3>1, <3>4
  <2> QED
    BY <1>1, <1>8, <2>1, <2>2
<1> QED
  BY <1>1, <1>3, <1>4, <1>7, <1>8, <1>9

LEMMA FullSaveTyped == ASSUME StateTypeInv PROVE FullSave \in Saves /\ FullSave \in Asks
  BY DEF FullSave, StateTypeInv, Saves, Asks

LEMMA WindowTyped ==
    ASSUME StateTypeInv, op.at = "answer", WindowHears(op.ask, op.reply)
    PROVE  /\ win' \in State /\ sent' \in State \cup {None} /\ syncing' \in Seq(Saves)
           /\ object' \in Nat
<1>1. /\ op.ask \in Asks /\ win \in State /\ sent \in State \cup {None}
      /\ syncing \in Seq(Saves) /\ object \in Nat
  BY OpShape DEF StateTypeInv, Idle
<1>2. op.reply = "ok" => op.state \in State
  BY OpShape DEF StateTypeInv
<1>3. op.reply = "full" => op.ask.kind = "deltas"
  BY DEF StateTypeInv
<1>4. CASE op.reply = "ok" /\ op.ask.kind = "full"
  <2>1. op.ask.whole \in State
    BY <1>1, <1>4, AskShape
  <2> QED
    BY <1>1, <1>4, <2>1 DEF WindowHears
<1>5. CASE op.reply = "ok" /\ op.ask.kind = "deltas"
  <2>1. PICK ds \in Seq(Deltas) : ds = op.ask.deltas
    BY <1>1, <1>5, AskShape
  <2>2. sent' = IF sent = None THEN None ELSE Described(ds)
    BY <1>5, <2>1 DEF WindowHears
  <2>3. sent \in State => Described(ds) \in State
    BY KnownFrom, DescribedKnown
  <2>4. UNCHANGED <<win, object, syncing>>
    BY <1>5 DEF WindowHears
  <2> QED
    BY <1>1, <2>2, <2>3, <2>4
<1>6. CASE op.reply = "full"
  <2>1. PICK ds \in Seq(Deltas) : ds = op.ask.deltas
    BY <1>1, <1>3, <1>6, AskShape
  <2>2. /\ sent' = None /\ syncing' = syncing \o [n \in DOMAIN ds |-> FullSave]
        /\ UNCHANGED <<win, object>>
    BY <1>6, <2>1 DEF WindowHears
  <2>3. PICK t : t = [n \in DOMAIN ds |-> FullSave]
    OBVIOUS
  <2>4. DOMAIN ds = 1..Len(ds) /\ Len(ds) \in Nat
    BY <2>1
  <2>5. t \in Seq(Saves)
    BY <2>3, <2>4, FullSaveTyped
  <2> QED
    BY <1>1, <2>2, <2>3, <2>5
<1>7. CASE op.reply = "ok" /\ op.ask.kind = "deliver"
  BY <1>1, <1>2, <1>7 DEF WindowHears, State
<1>8. CASE \/ op.reply = "ok" /\ op.ask.kind = "report"
           \/ op.reply \notin {"ok", "full"}
  BY <1>1, <1>8 DEF WindowHears, window
<1> QED
  BY <1>1, <1>4, <1>5, <1>6, <1>7, <1>8, AskShape

-------------------------------------------------------------------------------
LEMMA TypeAsking ==
    ASSUME StateTypeInv,
           WindowSaves \/ SyncDone \/ (\E i \in Items : WindowEdits(i))
             \/ (\E r \in Results : Report(r)) \/ DeliveryTick
    PROVE  StateTypeInv'
<1>1. CASE WindowSaves
  <2>1. CASE sent = None
    BY <1>1, <2>1, FullSaveTyped DEF WindowSaves, StateTypeInv, onDisk, window
  <2>2. CASE sent # None
    <3>1. sent \in State
      BY <2>2 DEF StateTypeInv
    <3>2. PICK delta \in Deltas : delta = [changed |-> Changed(sent), whole |-> win, of |-> object]
      BY <3>1, ChangedTyped
    <3>3. UNCHANGED <<onDisk, load, op, win, sent, object, reader, delivering, acked, replaced>>
      BY <1>1 DEF WindowSaves
    <3>4. CASE Settings \in delta.changed
      <4>1. /\ syncing' = Append(syncing, [kind |-> "delta", delta |-> delta])
            /\ UNCHANGED <<queue, open, overtaken>>
        BY <1>1, <2>2, <3>2, <3>4 DEF WindowSaves
      <4>2. [kind |-> "delta", delta |-> delta] \in Saves
        BY DEF Saves
      <4> QED
        BY <3>3, <4>1, <4>2 DEF StateTypeInv, onDisk
    <3>5. CASE Settings \notin delta.changed
      <4>1. Submit(delta) /\ UNCHANGED syncing /\ overtaken' \in BOOLEAN
        BY <1>1, <2>2, <3>2, <3>5 DEF WindowSaves
      <4> QED
        BY <3>3, <4>1, SubmitTyped DEF StateTypeInv, onDisk
    <3> QED
      BY <3>4, <3>5
  <2> QED
    BY <2>1, <2>2
<1>2. CASE SyncDone
  <2>1. PICK n \in DOMAIN syncing :
          /\ syncing' = SubSeq(syncing, 1, n - 1) \o SubSeq(syncing, n + 1, Len(syncing))
          /\ IF syncing[n].kind = "full" THEN Enqueue(syncing[n]) ELSE Submit(syncing[n].delta)
    BY <1>2 DEF SyncDone
  <2>2. n \in 1..Len(syncing) /\ syncing[n] \in Saves
    BY DEF StateTypeInv
  <2>3. syncing' \in Seq(Saves)
    BY <2>1, <2>2, WithoutOne DEF StateTypeInv
  <2>4. /\ UNCHANGED <<onDisk, load, op, win, sent, object, reader, delivering, acked, replaced>>
        /\ overtaken' \in BOOLEAN
    BY <1>2 DEF SyncDone
  <2>5. CASE syncing[n].kind = "full"
    <3>1. PICK o \in Asks : o = syncing[n]
      BY <2>2, <2>5 DEF Saves, Asks
    <3>2. Enqueue(o)
      BY <2>1, <2>5, <3>1
    <3> QED
      BY <2>3, <2>4, <3>2, EnqueueTyped DEF StateTypeInv, onDisk
  <2>6. CASE syncing[n].kind # "full"
    <3>1. PICK delta \in Deltas : delta = syncing[n].delta
      BY <2>2, <2>6 DEF Saves
    <3>2. Submit(delta)
      BY <2>1, <2>6, <3>1
    <3> QED
      BY <2>3, <2>4, <3>2, SubmitTyped DEF StateTypeInv, onDisk
  <2> QED
    BY <2>5, <2>6
<1>3. CASE \E i \in Items : WindowEdits(i)
  <2>1. PICK i \in Items : WindowEdits(i)
    BY <1>3
  <2>2. win \in State
    BY DEF StateTypeInv
  <2>3. PICK ver : ver = [win.ver EXCEPT ![i] = @ + 1]
    OBVIOUS
  <2>4. ver \in [Items -> Nat]
    BY <2>2, <2>3 DEF State
  <2>5. win' = [win EXCEPT !.ver = ver]
    BY <2>1, <2>3 DEF WindowEdits
  <2>6. win' \in State
    BY <2>2, <2>4, <2>5 DEF State
  <2> QED
    BY <2>1, <2>6 DEF WindowEdits, StateTypeInv, onDisk
<1>4. CASE \E r \in Results : Report(r)
  <2>1. PICK r \in Results : Report(r)
    BY <1>4
  <2>2. PICK o \in Asks : o = [kind |-> "report", result |-> r]
    BY DEF Asks
  <2>3. Enqueue(o)
    BY <2>1, <2>2 DEF Report
  <2> QED
    BY <2>1, <2>3, EnqueueTyped DEF Report, StateTypeInv, onDisk, window
<1>5. CASE DeliveryTick
  <2>1. PICK o \in Asks : o = [kind |-> "deliver"]
    BY DEF Asks
  <2>2. Enqueue(o)
    BY <1>5, <2>1 DEF DeliveryTick
  <2> QED
    BY <1>5, <2>2, EnqueueTyped DEF DeliveryTick, StateTypeInv, onDisk, window
<1> QED
  BY <1>1, <1>2, <1>3, <1>4, <1>5

LEMMA JoinTyped ==
    ASSUME StateTypeInv, JoinLoad
    PROVE  /\ load' \in Loads /\ (load'.at = "parse" <=> load.at = "parse")
           /\ load # Idle => load' = load
           /\ load = Idle => load'.at = "begin"
  BY DEF JoinLoad, StateTypeInv, Loads, Idle

LEMMA TypeReading ==
    ASSUME StateTypeInv,
           StartOp \/ Read \/ Snapshot \/ ReadGoes \/ Return \/ LoadBegins \/ LoadStat
    PROVE  StateTypeInv'
<1>1. CASE StartOp
  <2>1. Head(queue) \in Asks /\ Tail(queue) \in Seq(Asks)
    BY <1>1 DEF StartOp, StateTypeInv
  <2>2. op' \in Operations /\ op'.at = "load"
    BY <1>1, <2>1 DEF StartOp, Operations
  <2>3. open' => Tail(queue) # <<>> /\ Tail(queue)[Len(Tail(queue))] = queue[Len(queue)]
    <3>1. SUFFICES ASSUME Len(queue) > 1
                   PROVE  Tail(queue) # <<>> /\ Tail(queue)[Len(Tail(queue))] = queue[Len(queue)]
      BY <1>1 DEF StartOp
    <3>2. queue \in Seq(Asks) /\ queue # <<>> /\ Len(queue) \in Nat
      BY <1>1 DEF StartOp, StateTypeInv
    <3>3. /\ Len(Tail(queue)) = Len(queue) - 1
          /\ \A i \in 1..Len(Tail(queue)) : Tail(queue)[i] = queue[i + 1]
      BY <3>2, HeadTailProperties
    <3>4. Tail(queue)[Len(queue) - 1] = queue[Len(queue)]
      BY <3>1, <3>2, <3>3
    <3>5. PICK t : t = Tail(queue)
      OBVIOUS
    <3>6. Len(t) = Len(queue) - 1 /\ t[Len(queue) - 1] = queue[Len(queue)]
      BY <3>3, <3>4, <3>5
    <3>7. t # <<>>
      BY <3>1, <3>2, <3>6
    <3> QED
      BY <3>5, <3>6, <3>7
  <2> QED
    BY <1>1, <2>1, <2>2, <2>3, JoinTyped DEF StartOp, StateTypeInv, onDisk, window
<1>2. CASE Read
  <2>1. reader' \in Readers
    BY <1>2 DEF Read, StateTypeInv, Readers
  <2> QED
    BY <1>2, <2>1 DEF Read, StateTypeInv, onDisk, window
<1>3. CASE Snapshot
  <2>1. reader' \in Readers
    BY <1>3 DEF Snapshot, StateTypeInv, Readers
  <2> QED
    BY <1>3, <2>1, JoinTyped DEF Snapshot, StateTypeInv, onDisk, window
<1>4. CASE ReadGoes
  <2>1. reader' \in Readers
    BY <1>4, ReaderShape DEF ReadGoes, StateTypeInv, Readers
  <2> QED
    BY <1>4, <2>1, JoinTyped DEF ReadGoes, StateTypeInv, onDisk, window
<1>5. CASE Return
  BY <1>5 DEF Return, StateTypeInv, Readers, onDisk, window
<1>6. CASE LoadBegins
  BY <1>6 DEF LoadBegins, StateTypeInv, Loads, onDisk, window
<1>7. CASE LoadStat
  <2>1. Stamp \in Stamps
    BY DEF Stamp, Stamps, StateTypeInv, Stamped
  <2>2. load' \in Loads
    BY <1>7, <2>1, LoadShape DEF LoadStat, Loads, StateTypeInv
  <2> QED
    BY <1>7, <2>2 DEF LoadStat, StateTypeInv, onDisk, window
<1> QED
  BY <1>1, <1>2, <1>3, <1>4, <1>5, <1>6, <1>7

\* What a reading gives the operation that waits for it.
LEMMA FoundOp ==
    ASSUME StateTypeInv, NEW s \in State \cup {None}, NEW held, Found(s, held), op.at = "load"
    PROVE  /\ op.ask \in Asks /\ op' \in Operations /\ op'.ask = op.ask /\ op'.reply = Reply(s, op.ask)
           /\ Reply(s, op.ask) = "ok" =>
                 /\ op'.at = "write" /\ op'.state = Outcome(s, op.ask) /\ op'.state \in State
           /\ Reply(s, op.ask) # "ok" => op'.at = "answer" /\ op'.state = None
           /\ op'.at = "answer" /\ op'.reply = "full" => op'.ask.kind = "deltas"
<1>1. PICK o \in Asks : o = op.ask
  BY OpShape DEF StateTypeInv, Idle
<1>2. PICK r \in {"ok", "full", "error"} : r = Reply(s, o)
  BY ReplySays
<1>3. CASE r = "ok"
  <2>1. PICK t \in State : t = Outcome(s, o)
    BY <1>2, <1>3, OutcomeTyped
  <2>2. op' = [at |-> "write", ask |-> o, state |-> t, reply |-> "ok"]
    BY <1>1, <1>2, <1>3, <2>1 DEF Found
  <2> QED
    BY <1>1, <1>2, <1>3, <2>1, <2>2 DEF Operations
<1>4. CASE r # "ok"
  <2>1. op' = [at |-> "answer", ask |-> o, state |-> None, reply |-> r]
    BY <1>1, <1>2, <1>4 DEF Found
  <2>2. r = "full" => o.kind = "deltas"
    BY <1>2, ReplySays
  <2> QED
    BY <1>1, <1>2, <1>4, <2>1, <2>2 DEF Operations
<1> QED
  BY <1>3, <1>4

LEMMA FoundTyped ==
    ASSUME StateTypeInv, NEW s \in State \cup {None}, NEW held \in Stamped \cup {None},
           Found(s, held), s # None \/ held = cache
    PROVE  StateTypeInv'
<1>1. load' \in Loads
  BY DEF Found, Loads
<1>2. /\ op' \in Operations
      /\ op'.at = "answer" /\ op'.reply = "full" => op'.ask.kind = "deltas"
  <2>1. CASE op.at = "load"
    BY <2>1, FoundOp
  <2>2. CASE op.at # "load"
    BY <2>2 DEF Found, StateTypeInv
  <2> QED
    BY <2>1, <2>2
<1>3. bytes' \in State \cup {None}
  BY DEF Found, StateTypeInv
<1>4. cache' \in Stamped \cup {None}
  <2>1. CASE op.at = "load" /\ Reply(s, op.ask) = "ok" /\ InPlace(op.ask) /\ held # None
    <3>1. PICK t \in State : t = Outcome(s, op.ask)
      BY <2>1, FoundOp
    <3>2. cache' = [held EXCEPT !.content = t]
      BY <2>1, <3>1 DEF Found
    <3> QED
      BY <2>1, <3>2 DEF Stamped
  <2>2. CASE ~(op.at = "load" /\ Reply(s, op.ask) = "ok" /\ InPlace(op.ask) /\ held # None)
    <3>1. cache' = held
      BY <2>2 DEF Found
    <3> QED
      BY <3>1
  <2> QED
    BY <2>1, <2>2
<1>5. reader' \in Readers
  <2>1. CASE reader.at = "load"
    <3>1. reader.ahead \in Nat /\ reader.owed \in Promises
      BY <2>1, ReaderShape DEF StateTypeInv, Idle
    <3> QED
      BY <2>1, <3>1 DEF Found, Readers
  <2>2. CASE reader.at # "load"
    BY <2>2 DEF Found, StateTypeInv
  <2> QED
    BY <2>1, <2>2
<1>6. UNCHANGED <<file, revision, queue, open, window, delivering, history>>
  BY DEF Found
<1> QED
  BY <1>1, <1>2, <1>3, <1>4, <1>5, <1>6 DEF StateTypeInv, window

LEMMA TypeLoading ==
    ASSUME StateTypeInv, LoadCheck \/ LoadParse
    PROVE  StateTypeInv'
<1>1. CASE LoadCheck
  <2>1. CASE load.revision # revision
    BY <1>1, <2>1 DEF LoadCheck, StateTypeInv, Loads, onDisk, window
  <2>2. CASE load.revision = revision /\ load.stamp # None /\ cache # None
              /\ cache.stamp = load.stamp
    <3>1. cache \in Stamped /\ cache.content \in State
      BY <2>2 DEF StateTypeInv, Stamped
    <3>2. Found(cache.content, cache)
      BY <1>1, <2>2 DEF LoadCheck
    <3> QED
      BY <3>1, <3>2, FoundTyped
  <2>3. CASE load.revision = revision
              /\ ~(load.stamp # None /\ cache # None /\ cache.stamp = load.stamp)
    <3>1. load.stamp \in Stamps
      BY <1>1, LoadShape DEF LoadCheck, StateTypeInv
    <3>2. /\ load' = [at |-> "parse", stamp |-> load.stamp]
          /\ cache' = None /\ bytes' = None
          /\ UNCHANGED <<file, revision, queue, open, op, window, reader, delivering, history,
                         used>>
      BY <1>1, <2>3 DEF LoadCheck
    <3>3. load' \in Loads
      BY <3>1, <3>2 DEF Loads
    <3> QED
      BY <3>2, <3>3 DEF StateTypeInv, window
  <2> QED
    BY <2>1, <2>2, <2>3
<1>2. CASE LoadParse
  <2>1. CASE load.stamp = None \/ file = None
    BY <1>2, <2>1, FoundTyped DEF LoadParse, StateTypeInv
  <2>2. CASE ~(load.stamp = None \/ file = None)
    <3>1. file.content \in State /\ load.stamp \in Nat
      BY <1>2, <2>2, LoadShape DEF LoadParse, StateTypeInv, Stamped, Stamps
    <3>2. PICK held \in Stamped : held = [content |-> file.content, stamp |-> load.stamp]
      BY <3>1 DEF Stamped
    <3>3. Found(file.content, held)
      BY <1>2, <2>2, <3>2 DEF LoadParse
    <3>4. file.content # None
      BY <3>1, SavedStateAssumption
    <3> QED
      BY <3>1, <3>3, <3>4, FoundTyped
  <2> QED
    BY <2>1, <2>2
<1> QED
  BY <1>1, <1>2

LEMMA TypeWriting ==
    ASSUME StateTypeInv, WriteTemp \/ WriteFails \/ Rename \/ Published
    PROVE  StateTypeInv'
<1>1. CASE WriteTemp
  <2>1. op \in [at : {"write", "rename", "published"}, ask : Asks, state : State, reply : {"ok"}]
    BY <1>1, OpShape DEF WriteTemp, StateTypeInv
  <2>2. Written \in State
    BY <2>1 DEF Written, StateTypeInv
  <2>3. op' \in Operations /\ op'.at = "rename"
    BY <1>1, <2>1, <2>2 DEF WriteTemp, Operations
  <2> QED
    BY <1>1, <2>3 DEF WriteTemp, StateTypeInv, onDisk, window
<1>2. CASE WriteFails
  <2>1. op \in [at : {"write", "rename", "published"}, ask : Asks, state : State, reply : {"ok"}]
    BY <1>2, OpShape DEF WriteFails, StateTypeInv
  <2>2. op' \in Operations /\ op'.reply = "error"
    BY <1>2, <2>1 DEF WriteFails, Operations
  <2> QED
    BY <1>2, <2>2 DEF WriteFails, StateTypeInv, window
<1>3. CASE Rename
  <2>1. op \in [at : {"write", "rename", "published"}, ask : Asks, state : State, reply : {"ok"}]
    BY <1>3, OpShape DEF Rename, StateTypeInv
  <2>2. op' \in Operations /\ op'.at = "published"
    BY <1>3, <2>1 DEF Rename, Operations
  <2>3. file' \in Stamped
    BY <1>3, <2>1 DEF Rename, StateTypeInv, Stamped
  <2> QED
    BY <1>3, <2>2, <2>3 DEF Rename, StateTypeInv, window
<1>4. CASE Published
  <2>1. op \in [at : {"write", "rename", "published"}, ask : Asks, state : State, reply : {"ok"}]
    BY <1>4, OpShape DEF Published, StateTypeInv
  <2>2. op' \in Operations /\ op'.reply = "ok"
    BY <1>4, <2>1 DEF Published, Operations
  <2>3. cache' \in Stamped \cup {None} /\ bytes' \in State /\ revision' \in Nat
    BY <1>4, <2>1 DEF Published, StateTypeInv, Stamped
  <2> QED
    BY <1>4, <2>2, <2>3 DEF Published, StateTypeInv, window
<1> QED
  BY <1>1, <1>2, <1>3, <1>4

LEMMA BlankTyped == Blank \in State
  BY DEF Blank, State

LEMMA TypeEnding ==
    ASSUME StateTypeInv, Answer \/ Relaunch \/ ForeignWrite
    PROVE  StateTypeInv'
<1>1. CASE Answer
  <2>1. op.at = "answer" /\ WindowHears(op.ask, op.reply)
    BY <1>1 DEF Answer
  <2>2. acked' \in Promises
    BY <1>1, <2>1, OwesTyped DEF Answer, StateTypeInv
  <2>3. reader' \in Readers
    <3>1. CASE reader = Idle \/ reader.ahead = 0
      BY <1>1, <3>1 DEF Answer, StateTypeInv
    <3>2. CASE ~(reader = Idle \/ reader.ahead = 0)
      <4>1. reader.ahead - 1 \in Nat /\ reader.owed \in Promises
        BY <3>2, ReaderShape DEF StateTypeInv
      <4>2. PICK owed \in Promises :
              owed = IF op.reply = "ok" THEN Owes(reader.owed, op.ask) ELSE reader.owed
        BY <2>1, <4>1, OwesTyped
      <4>3. reader' = [reader EXCEPT !.ahead = @ - 1, !.owed = owed]
        BY <1>1, <3>2, <4>2 DEF Answer
      <4> QED
        BY <3>2, <4>1, <4>3, ReaderShape DEF StateTypeInv, Readers
    <3> QED
      BY <3>1, <3>2
  <2>4. op' \in Operations /\ op'.at = "idle"
    BY <1>1 DEF Answer, Operations, Idle
  <2>5. delivering' \in BOOLEAN /\ UNCHANGED <<onDisk, load, queue, open, replaced, overtaken, used>>
    BY <1>1 DEF Answer
  <2> QED
    BY <2>1, <2>2, <2>3, <2>4, <2>5, WindowTyped DEF StateTypeInv, onDisk
<1>2. CASE Relaunch
  <2>1. win' \in State
    BY <1>2, BlankTyped DEF Relaunch, StateTypeInv, Stamped
  <2>2. load' \in Loads /\ op' \in Operations /\ op'.at = "idle" /\ reader' \in Readers
    BY <1>2 DEF Relaunch, Loads, Operations, Readers, Idle
  <2> QED
    <3>1. queue' \in Seq(Asks) /\ syncing' \in Seq(Saves)
      BY <1>2 DEF Relaunch
    <3>2. ~open' /\ open' \in BOOLEAN
      BY <1>2 DEF Relaunch
    <3>3. /\ cache' = None /\ bytes' = None /\ sent' = None /\ object' = 0
          /\ delivering' = FALSE /\ UNCHANGED <<file, revision, acked, replaced, overtaken>>
      BY <1>2 DEF Relaunch
    <3> QED
      BY <2>1, <2>2, <3>1, <3>2, <3>3 DEF StateTypeInv
<1>3. CASE ForeignWrite
  <2>1. file' \in Stamped
    BY <1>3, BlankTyped DEF ForeignWrite, StateTypeInv, Stamped
  <2> QED
    BY <1>3, <2>1 DEF ForeignWrite, StateTypeInv, window
<1> QED
  BY <1>1, <1>2, <1>3

LEMMA StateTypeInit == StateInit => StateTypeInv
<1> SUFFICES ASSUME StateInit PROVE StateTypeInv
  OBVIOUS
<1>1. file \in Stamped \cup {None} /\ sent \in State \cup {None}
  BY BlankTyped DEF StateInit, Stamped
<1>2. load \in Loads /\ op \in Operations /\ op.at = "idle" /\ reader \in Readers
  BY DEF StateInit, Loads, Operations, Readers, Idle
<1>3. acked \in Promises
  BY DEF StateInit, Promises, Nothing
<1>4. queue \in Seq(Asks) /\ syncing \in Seq(Saves) /\ ~open /\ open \in BOOLEAN
  <2>1. queue = <<>> /\ syncing = <<>>
    BY DEF StateInit
  <2>2. open = FALSE
    BY DEF StateInit
  <2>3. queue \in Seq(Asks) /\ syncing \in Seq(Saves)
    BY <2>1
  <2> QED
    BY <2>2, <2>3
<1>5. /\ cache = file /\ bytes = None /\ revision = 0 /\ win = Blank /\ object = 0
      /\ delivering = FALSE /\ replaced = FALSE /\ overtaken = FALSE
  BY DEF StateInit
<1> QED
  <2>1. cache \in Stamped \cup {None} /\ bytes \in State \cup {None} /\ win \in State
    BY <1>1, <1>5, BlankTyped
  <2>2. /\ revision \in Nat /\ object \in Nat /\ delivering \in BOOLEAN
        /\ replaced \in BOOLEAN /\ overtaken \in BOOLEAN
    BY <1>5
  <2>3. op.at # "answer"
    BY <1>2
  <2> QED
    BY <1>1, <1>2, <1>3, <1>4, <2>1, <2>2, <2>3 DEF StateTypeInv

LEMMA StateTypeStep == StateTypeInv /\ [StateNext]_stateVars => StateTypeInv'
<1> SUFFICES ASSUME StateTypeInv, [StateNext]_stateVars PROVE StateTypeInv'
  OBVIOUS
<1>1. CASE StateNext
  BY <1>1, TypeAsking, TypeReading, TypeLoading, TypeWriting, TypeEnding DEF StateNext, Work
<1>2. CASE UNCHANGED stateVars
  BY <1>2 DEF stateVars, StateTypeInv
<1> QED
  BY <1>1, <1>2

THEOREM StateTypeCorrect == StateSpec => []StateTypeOK
<1>1. StateTypeInv => StateTypeOK
  BY OpShape, LoadShape DEF StateTypeInv, StateTypeOK, Stamped
<1> QED
  BY <1>1, StateTypeInit, StateTypeStep, PTL DEF StateSpec

-------------------------------------------------------------------------------
\* The inductive invariant.  All of it but the types ends with a foreign write.

Told == IF file = None THEN {} ELSE file.content.told

\* Nothing has been saved, as far as the operation that comes next can know.
Fresh == file = None \/ (load.at = "parse" /\ load.stamp = None)
Waits == IF Fresh THEN {} ELSE Results

\* What a window has seen told is told on disk.
CopyIn(s, told, pend) == s.told \subseteq told /\ s.pend \subseteq pend
DeltasIn(ds, told, pend) == \A n \in 1..Len(ds) : CopyIn(ds[n].whole, told, pend)
AskIn(o, told, pend) ==
    /\ o.kind = "full" => CopyIn(o.whole, told, pend)
    /\ o.kind = "deltas" => DeltasIn(o.deltas, told, pend)
SaveIn(v, told, pend) ==
    /\ v.kind = "full" => CopyIn(v.whole, told, pend)
    /\ v.kind = "delta" => CopyIn(v.delta.whole, told, pend)
AsksIn(q, told, pend) == \A n \in 1..Len(q) : AskIn(q[n], told, pend)
SavesIn(q, told, pend) == \A n \in 1..Len(q) : SaveIn(q[n], told, pend)

Copies ==
    /\ CopyIn(win, Told, Waits) /\ (sent # None => CopyIn(sent, Told, Waits))
    /\ AsksIn(queue, Told, Waits) /\ (op # Idle => AskIn(op.ask, Told, Waits))
    /\ SavesIn(syncing, Told, Waits)

\* A state that may be written over another: no result is lost, or told twice.
Untold(s) == s.pend = {} /\ s.told = {}
Follows(s, f) ==
    /\ s.pend \cap s.told = {}
    /\ f # None => /\ f.told \subseteq s.told /\ f.pend \subseteq s.pend \cup s.told
                   /\ s.pend \cap f.told = {}

OnDiskInv ==
    /\ file # None => file.content.pend \cap file.content.told = {}
    /\ Fresh => acked = Nothing /\ (file # None => Untold(file.content))
    /\ Holds(Content, acked)

\* A remembered copy whose stamp is that of the file may be ahead of it, by an edit in
\* place that was not written.
CacheInv ==
    cache # None =>
      /\ file # None /\ cache.stamp <= file.stamp
      /\ cache.stamp = file.stamp =>
            Follows(cache.content, file.content) /\ cache.content.ver = file.content.ver

LoadInv ==
    /\ load.at \in {"stat", "stamped"} => load.revision <= revision
    /\ load.at = "stamped" /\ load.revision = revision /\ op.at # "published" =>
          load.stamp = Stamp
    /\ load.at \in {"stamped", "parse"} /\ load.stamp # None =>
          file # None /\ load.stamp <= file.stamp

\* What the operation in progress has made, and then written, of the state it found.
Begun == op.at \in {"write", "rename"}
Stored == op.at = "published" \/ (op.at = "answer" /\ op.reply = "ok")
Serves(o, s) ==
    /\ o.kind = "report" => o.result \in s.pend \cup s.told
    /\ o.kind = "full" => s.ver = o.whole.ver
    /\ InPlace(o) => file # None /\ s.ver = file.content.ver
OpInv ==
    /\ Begun => Follows(op.state, Content)
    /\ op.at = "write" /\ InPlace(op.ask) => bytes = None
    /\ Stored => file # None /\ file.content = op.state
    /\ Begun \/ Stored => (Fresh => Untold(op.state)) /\ Serves(op.ask, op.state)

\* A window that takes something for described has been answered.
SentInv == sent # None => file # None

ReaderInv ==
    reader # Idle =>
      /\ reader.owed.pend \subseteq acked.pend /\ reader.owed.told \subseteq acked.told
      /\ reader.at # "wait" => reader.ahead = 0
      /\ reader.at = "answered" => Holds(reader.result, reader.owed)

Kept == OnDiskInv /\ Copies /\ CacheInv /\ LoadInv /\ OpInv /\ SentInv /\ ReaderInv
SavedInv == StateTypeInv /\ (replaced \/ Kept)

-------------------------------------------------------------------------------
\* Copies stay good while the turns on disk only grow in number.

LEMMA CopyGrows ==
    ASSUME NEW s, NEW t, NEW p, NEW t2, NEW p2, t \subseteq t2, p \subseteq p2, CopyIn(s, t, p)
    PROVE  CopyIn(s, t2, p2)
  BY DEF CopyIn

LEMMA AskGrows ==
    ASSUME NEW o, NEW t, NEW p, NEW t2, NEW p2, t \subseteq t2, p \subseteq p2, AskIn(o, t, p)
    PROVE  AskIn(o, t2, p2)
<1>1. ASSUME NEW ds, DeltasIn(ds, t, p) PROVE DeltasIn(ds, t2, p2)
  BY <1>1, CopyGrows DEF DeltasIn
<1> QED
  BY <1>1, CopyGrows DEF AskIn

LEMMA CopiesGrow ==
    ASSUME NEW q, NEW v, NEW t, NEW p, NEW t2, NEW p2, t \subseteq t2, p \subseteq p2
    PROVE  /\ AsksIn(q, t, p) => AsksIn(q, t2, p2)
           /\ SavesIn(v, t, p) => SavesIn(v, t2, p2)
<1>1. ASSUME NEW n, SaveIn(v[n], t, p) PROVE SaveIn(v[n], t2, p2)
  BY <1>1, CopyGrows DEF SaveIn
<1> QED
  BY <1>1, AskGrows DEF AsksIn, SavesIn

LEMMA CopiesKept ==
    ASSUME StateTypeInv, Copies, Told \subseteq Told', Waits \subseteq Waits',
           UNCHANGED <<win, sent, queue, syncing>>,
           op' = Idle \/ (op # Idle /\ op'.ask = op.ask)
    PROVE  Copies'
<1>1. CopyIn(win, Told, Waits)' /\ (sent # None => CopyIn(sent, Told, Waits))'
  BY CopyGrows DEF Copies
<1>2. AsksIn(queue, Told, Waits)' /\ SavesIn(syncing, Told, Waits)'
  BY CopiesGrow DEF Copies
<1>3. (op # Idle => AskIn(op.ask, Told, Waits))'
  <2>1. SUFFICES ASSUME op' # Idle PROVE AskIn(op'.ask, Told', Waits')
    OBVIOUS
  <2>2. PICK o : o = op.ask /\ op'.ask = o
    BY <2>1
  <2>3. AskIn(o, Told, Waits)
    BY <2>1, <2>2 DEF Copies
  <2> QED
    BY <2>2, <2>3, AskGrows
<1> QED
  BY <1>1, <1>2, <1>3 DEF Copies

LEMMA EnqueueIn ==
    ASSUME StateTypeInv, NEW o \in Asks, Enqueue(o), NEW t, NEW p, AsksIn(queue, t, p), AskIn(o, t, p)
    PROVE  AsksIn(queue', t, p)
<1>1. queue \in Seq(Asks) /\ queue' = Append(queue, o)
  BY DEF StateTypeInv, Enqueue
<1>2. ASSUME NEW n \in 1..Len(queue') PROVE AskIn(queue'[n], t, p)
  <2>1. CASE n = Len(queue) + 1
    BY <1>1, <2>1
  <2>2. CASE n # Len(queue) + 1
    <3>1. n \in 1..Len(queue) /\ queue'[n] = queue[n]
      BY <1>1, <2>2
    <3> QED
      BY <3>1 DEF AsksIn
  <2> QED
    BY <2>1, <2>2
<1> QED
  BY <1>2 DEF AsksIn

LEMMA SubmitIn ==
    ASSUME StateTypeInv, NEW delta \in Deltas, Submit(delta), NEW t, NEW p,
           AsksIn(queue, t, p), CopyIn(delta.whole, t, p)
    PROVE  AsksIn(queue', t, p)
<1>1. queue \in Seq(Asks) /\ queue' \in Seq(Asks) /\ Len(queue) \in Nat
  <2>1. queue' \in Seq(Asks)
    BY SubmitTyped
  <2> QED
    BY <2>1 DEF StateTypeInv
<1>2. CASE queue' = Append(queue, [kind |-> "deltas", deltas |-> <<delta>>])
  <2>1. PICK o : o = [kind |-> "deltas", deltas |-> <<delta>>]
    OBVIOUS
  <2>2. AskIn(o, t, p)
    <3>1. DeltasIn(<<delta>>, t, p)
      BY DEF DeltasIn
    <3> QED
      BY <2>1, <3>1 DEF AskIn
  <2>3. ASSUME NEW n \in 1..Len(queue') PROVE AskIn(queue'[n], t, p)
    <3>1. CASE n = Len(queue) + 1
      BY <1>1, <1>2, <2>1, <2>2, <3>1
    <3>2. CASE n # Len(queue) + 1
      <4>1. n \in 1..Len(queue) /\ queue'[n] = queue[n]
        BY <1>1, <1>2, <3>2
      <4> QED
        BY <4>1 DEF AsksIn
    <3> QED
      BY <3>1, <3>2
  <2> QED
    BY <2>3 DEF AsksIn
<1>3. CASE /\ queue # <<>> /\ Len(queue') = Len(queue)
           /\ queue[Len(queue)].kind = "deltas"
           /\ \A n \in 1..(Len(queue) - 1) : queue'[n] = queue[n]
           /\ queue'[Len(queue)].deltas = Append(queue[Len(queue)].deltas, delta)
  <2>1. PICK N \in Nat : N = Len(queue) /\ N > 0
    BY <1>1, <1>3
  <2>2. PICK ds \in Seq(Deltas) : ds = queue[N].deltas
    <3>1. queue[N] \in Asks
      BY <1>1, <2>1
    <3> QED
      BY <1>3, <2>1, <3>1, AskShape
  <2>3. DeltasIn(ds, t, p)
    <3>1. PICK o : o = queue[N]
      OBVIOUS
    <3>2. AskIn(o, t, p)
      BY <2>1, <3>1 DEF AsksIn
    <3>3. o.kind = "deltas" /\ o.deltas = ds
      BY <1>3, <2>1, <2>2, <3>1
    <3> QED
      BY <3>2, <3>3 DEF AskIn
  <2>4. PICK es \in Seq(Deltas) : es = Append(ds, delta)
    <3>1. Append(ds, delta) \in Seq(Deltas)
      OBVIOUS
    <3> QED
      BY <3>1
  <2>5. ASSUME NEW n \in 1..Len(es) PROVE CopyIn(es[n].whole, t, p)
    <3>1. CASE n = Len(ds) + 1
      BY <2>4, <3>1
    <3>2. CASE n # Len(ds) + 1
      <4>1. n \in 1..Len(ds) /\ es[n] = ds[n]
        BY <2>4, <3>2
      <4> QED
        BY <2>3, <4>1 DEF DeltasIn
    <3> QED
      BY <3>1, <3>2
  <2>6. ASSUME NEW n \in 1..Len(queue') PROVE AskIn(queue'[n], t, p)
    <3>1. CASE n = N
      <4>1. queue'[n].kind = "deltas" /\ queue'[n].deltas = es
        BY <1>3, <2>1, <2>2, <2>4, <3>1, SubmitTyped
      <4> QED
        BY <2>5, <4>1 DEF AskIn, DeltasIn
    <3>2. CASE n # N
      <4>1. n \in 1..N /\ n \in 1..(N - 1) /\ queue'[n] = queue[n]
        BY <1>3, <2>1, <3>2
      <4> QED
        BY <2>1, <4>1 DEF AsksIn
    <3> QED
      BY <3>1, <3>2
  <2> QED
    BY <2>6 DEF AsksIn
<1> QED
  BY <1>2, <1>3, SubmitTyped

-------------------------------------------------------------------------------
\* What a part of the invariant does not speak of does not disturb it.
LEMMA Frames ==
    ASSUME StateTypeInv, Kept
    PROVE  /\ UNCHANGED <<file, acked>> /\ (Fresh' => Fresh) => OnDiskInv'
           /\ UNCHANGED <<file, cache>> => CacheInv'
           /\ UNCHANGED <<load, revision, op, file>> => LoadInv'
           /\ UNCHANGED <<op, file, bytes, sent>> /\ (Fresh' => Fresh) => OpInv'
           /\ UNCHANGED <<sent, op, file>> => SentInv'
           /\ UNCHANGED <<reader, acked>> => ReaderInv'
           /\ UNCHANGED file /\ (Fresh' => Fresh) => Told' = Told /\ Waits \subseteq Waits'
<1>1. ASSUME UNCHANGED <<file, acked>>, Fresh' => Fresh PROVE OnDiskInv'
  <2>1. Content' = Content
    BY <1>1 DEF Content
  <2>2. Holds(Content, acked)'
    BY <1>1, <2>1 DEF Kept, OnDiskInv, Holds
  <2> QED
    BY <1>1, <2>2 DEF Kept, OnDiskInv
<1>2. ASSUME UNCHANGED <<file, cache>> PROVE CacheInv'
  BY <1>2 DEF Kept, CacheInv
<1>3. ASSUME UNCHANGED <<load, revision, op, file>> PROVE LoadInv'
  BY <1>3 DEF Kept, LoadInv, Stamp
<1>4. ASSUME UNCHANGED <<op, file, bytes, sent>>, Fresh' => Fresh PROVE OpInv'
  <2>1. Content' = Content
    BY <1>4 DEF Content
  <2>2. (Begun <=> Begun') /\ (Stored <=> Stored')
    BY <1>4 DEF Begun, Stored
  <2>3. Begun' => Follows(op.state, Content)'
    BY <1>4, <2>1, <2>2 DEF Kept, OpInv
  <2>4. Begun' \/ Stored' => Serves(op.ask, op.state)'
    BY <1>4, <2>2 DEF Kept, OpInv, Serves
  <2> QED
    BY <1>4, <2>2, <2>3, <2>4 DEF Kept, OpInv
<1>5. ASSUME UNCHANGED <<sent, op, file>> PROVE SentInv'
  BY <1>5 DEF Kept, SentInv, Stored
<1>6. ASSUME UNCHANGED <<reader, acked>> PROVE ReaderInv'
  BY <1>6 DEF Kept, ReaderInv
<1>7. ASSUME UNCHANGED file, Fresh' => Fresh PROVE Told' = Told /\ Waits \subseteq Waits'
  BY <1>7 DEF Told, Waits
<1> QED
  BY <1>1, <1>2, <1>3, <1>4, <1>5, <1>6, <1>7

LEMMA FreshStays ==
    ASSUME StateTypeInv, UNCHANGED file, UNCHANGED load \/ JoinLoad \/ load'.at # "parse"
    PROVE  Fresh' => Fresh
  BY JoinTyped DEF Fresh

LEMMA KeptAsking ==
    ASSUME StateTypeInv, Kept,
           WindowSaves \/ SyncDone \/ (\E i \in Items : WindowEdits(i))
             \/ (\E r \in Results : Report(r)) \/ DeliveryTick
    PROVE  Kept'
<1>1. /\ UNCHANGED <<file, cache, bytes, revision, load, op, sent, reader, acked>>
      /\ (\E i \in Items : WindowEdits(i)) \/ UNCHANGED win
  BY DEF WindowSaves, SyncDone, WindowEdits, Report, DeliveryTick, onDisk, window
<1>2. Fresh' => Fresh
  BY <1>1, FreshStays
<1>3. OnDiskInv' /\ CacheInv' /\ LoadInv' /\ OpInv' /\ SentInv' /\ ReaderInv'
  BY <1>1, <1>2, Frames
<1>4. /\ CopyIn(win, Told, Waits) /\ AsksIn(queue, Told, Waits) /\ SavesIn(syncing, Told, Waits)
      /\ syncing \in Seq(Saves)
  BY DEF Kept, Copies, StateTypeInv
<1>5. /\ CopyIn(win', Told, Waits) /\ AsksIn(queue', Told, Waits)
      /\ SavesIn(syncing', Told, Waits)
  <2>1. CASE WindowSaves
    <3>1. UNCHANGED win
      BY <2>1 DEF WindowSaves
    <3>2. CASE sent = None
      <4>1. PICK v : v = FullSave
        OBVIOUS
      <4>2. syncing' = Append(syncing, v) /\ UNCHANGED queue
        BY <2>1, <3>2, <4>1 DEF WindowSaves
      <4>3. SaveIn(v, Told, Waits)
        BY <1>4, <4>1 DEF SaveIn, FullSave
      <4>4. ASSUME NEW n \in 1..Len(syncing') PROVE SaveIn(syncing'[n], Told, Waits)
        <5>1. CASE n = Len(syncing) + 1
          BY <1>4, <4>2, <4>3, <5>1
        <5>2. CASE n # Len(syncing) + 1
          <6>1. n \in 1..Len(syncing) /\ syncing'[n] = syncing[n]
            BY <1>4, <4>2, <5>2
          <6> QED
            BY <1>4, <6>1 DEF SavesIn
        <5> QED
          BY <5>1, <5>2
      <4> QED
        BY <1>4, <3>1, <4>2, <4>4 DEF SavesIn
    <3>3. CASE sent # None
      <4>1. sent \in State
        BY <3>3 DEF StateTypeInv
      <4>2. PICK delta \in Deltas : delta = [changed |-> Changed(sent), whole |-> win, of |-> object]
        BY <4>1, ChangedTyped
      <4>3. CopyIn(delta.whole, Told, Waits)
        BY <1>4, <4>2
      <4>4. CASE Settings \in delta.changed
        <5>1. PICK v : v = [kind |-> "delta", delta |-> delta]
          OBVIOUS
        <5>2. syncing' = Append(syncing, v) /\ UNCHANGED queue
          BY <2>1, <3>3, <4>2, <4>4, <5>1 DEF WindowSaves
        <5>3. SaveIn(v, Told, Waits)
          BY <4>3, <5>1 DEF SaveIn
        <5>4. ASSUME NEW n \in 1..Len(syncing') PROVE SaveIn(syncing'[n], Told, Waits)
          <6>1. CASE n = Len(syncing) + 1
            BY <1>4, <5>2, <5>3, <6>1
          <6>2. CASE n # Len(syncing) + 1
            <7>1. n \in 1..Len(syncing) /\ syncing'[n] = syncing[n]
              BY <1>4, <5>2, <6>2
            <7> QED
              BY <1>4, <7>1 DEF SavesIn
          <6> QED
            BY <6>1, <6>2
        <5> QED
          BY <1>4, <3>1, <5>2, <5>4 DEF SavesIn
      <4>5. CASE Settings \notin delta.changed
        <5>1. Submit(delta) /\ UNCHANGED syncing
          BY <2>1, <3>3, <4>2, <4>5 DEF WindowSaves
        <5> QED
          BY <1>4, <3>1, <4>3, <5>1, SubmitIn
      <4> QED
        BY <4>4, <4>5
    <3> QED
      BY <3>2, <3>3
  <2>2. CASE SyncDone
    <3>1. PICK n \in DOMAIN syncing :
            /\ syncing' = SubSeq(syncing, 1, n - 1) \o SubSeq(syncing, n + 1, Len(syncing))
            /\ IF syncing[n].kind = "full" THEN Enqueue(syncing[n]) ELSE Submit(syncing[n].delta)
      BY <2>2 DEF SyncDone
    <3>2. n \in 1..Len(syncing) /\ syncing[n] \in Saves
      BY <1>4
    <3>3. \A i \in 1..Len(syncing') : \E j \in 1..Len(syncing) : syncing'[i] = syncing[j]
      BY <1>4, <3>1, <3>2, WithoutOne
    <3>4. SavesIn(syncing', Told, Waits)
      BY <1>4, <3>3 DEF SavesIn
    <3>5. UNCHANGED win
      BY <2>2 DEF SyncDone
    <3>6. PICK v \in Saves : v = syncing[n] /\ SaveIn(v, Told, Waits)
      BY <1>4, <3>2 DEF SavesIn
    <3>7. CASE v.kind = "full"
      <4>1. v \in Asks /\ AskIn(v, Told, Waits)
        BY <3>6, <3>7 DEF Saves, Asks, SaveIn, AskIn
      <4>2. Enqueue(v)
        BY <3>1, <3>6, <3>7
      <4> QED
        BY <1>4, <3>4, <3>5, <4>1, <4>2, EnqueueIn
    <3>8. CASE v.kind # "full"
      <4>1. v.kind = "delta" /\ v.delta \in Deltas
        BY <3>6, <3>8 DEF Saves
      <4>2. PICK delta \in Deltas : delta = v.delta
        BY <4>1
      <4>3. CopyIn(delta.whole, Told, Waits) /\ Submit(delta)
        BY <3>1, <3>6, <3>8, <4>1, <4>2 DEF SaveIn
      <4> QED
        BY <1>4, <3>4, <3>5, <4>3, SubmitIn
    <3> QED
      BY <3>7, <3>8
  <2>3. CASE \E i \in Items : WindowEdits(i)
    <3>1. /\ win'.told = win.told /\ win'.pend = win.pend
          /\ UNCHANGED <<queue, syncing>>
      BY <2>3 DEF WindowEdits, StateTypeInv, State
    <3> QED
      BY <1>4, <3>1 DEF CopyIn
  <2>4. CASE \E r \in Results : Report(r)
    <3>1. PICK r \in Results : Report(r)
      BY <2>4
    <3>2. PICK o \in Asks : o = [kind |-> "report", result |-> r]
      BY DEF Asks
    <3>3. Enqueue(o) /\ UNCHANGED <<win, syncing>>
      BY <3>1, <3>2 DEF Report, window
    <3>4. AskIn(o, Told, Waits)
      BY <3>2 DEF AskIn
    <3> QED
      BY <1>4, <3>3, <3>4, EnqueueIn
  <2>5. CASE DeliveryTick
    <3>1. PICK o \in Asks : o = [kind |-> "deliver"]
      BY DEF Asks
    <3>2. Enqueue(o) /\ UNCHANGED <<win, syncing>>
      BY <2>5, <3>1 DEF DeliveryTick, window
    <3>3. AskIn(o, Told, Waits)
      BY <3>1 DEF AskIn
    <3> QED
      BY <1>4, <3>2, <3>3, EnqueueIn
  <2> QED
    BY <2>1, <2>2, <2>3, <2>4, <2>5
<1>6. Told' = Told /\ Waits' = Waits
  BY <1>1 DEF Told, Waits, Fresh
<1>7. Copies'
  <2>1. (sent # None => CopyIn(sent, Told, Waits))'
    BY <1>1, <1>6 DEF Kept, Copies
  <2>2. (op # Idle => AskIn(op.ask, Told, Waits))'
    BY <1>1, <1>6 DEF Kept, Copies
  <2> QED
    BY <1>5, <1>6, <2>1, <2>2 DEF Copies
<1> QED
  BY <1>3, <1>7 DEF Kept

LEMMA KeptReading ==
    ASSUME StateTypeInv, Kept,
           StartOp \/ Read \/ Snapshot \/ ReadGoes \/ Return \/ LoadBegins \/ LoadStat
    PROVE  Kept'
<1>1. /\ UNCHANGED <<file, cache, bytes, revision, sent, acked, win, syncing>>
      /\ UNCHANGED load \/ JoinLoad \/ load'.at # "parse"
  BY DEF StartOp, Read, Snapshot, ReadGoes, Return, LoadBegins, LoadStat, onDisk, window
<1>2. Fresh' => Fresh
  BY <1>1, FreshStays
<1>3. OnDiskInv' /\ CacheInv' /\ Told' = Told /\ Waits \subseteq Waits'
  BY <1>1, <1>2, Frames
<1>4. CASE StartOp
  <2>1. /\ op = Idle /\ op.at = "idle" /\ op' = [at |-> "load", ask |-> Head(queue)]
        /\ queue # <<>> /\ queue' = Tail(queue) /\ JoinLoad /\ UNCHANGED reader
    BY <1>4 DEF StartOp, Idle
  <2>2. PICK q \in Seq(Asks) : q = queue /\ q # <<>> /\ AsksIn(q, Told, Waits)
    BY <2>1 DEF StateTypeInv, Kept, Copies
  <2>3. PICK o : o = Head(q) /\ op'.ask = o
    BY <2>1, <2>2
  <2>4. PICK t \in Seq(Asks) : /\ t = Tail(q) /\ Len(t) = Len(q) - 1
                               /\ \A n \in 1..Len(t) : t[n] = q[n + 1]
    BY <2>2, HeadTailProperties
  <2>5. AskIn(o, Told, Waits)
    <3>1. o = q[1] /\ 1 \in 1..Len(q)
      BY <2>2, <2>3
    <3> QED
      BY <2>2, <3>1 DEF AsksIn
  <2>6. AsksIn(t, Told, Waits)
    <3>1. ASSUME NEW n \in 1..Len(t) PROVE AskIn(t[n], Told, Waits)
      <4>1. n + 1 \in 1..Len(q) /\ t[n] = q[n + 1]
        BY <2>2, <2>4
      <4> QED
        BY <2>2, <4>1 DEF AsksIn
    <3> QED
      BY <3>1 DEF AsksIn
  <2>7. Copies'
    <3>1. CopyIn(win, Told, Waits) /\ (sent # None => CopyIn(sent, Told, Waits))
          /\ SavesIn(syncing, Told, Waits)
      BY DEF Kept, Copies
    <3>2. CopyIn(win', Told', Waits') /\ (sent' # None => CopyIn(sent', Told', Waits'))
      BY <1>1, <1>3, <3>1, CopyGrows
    <3>3. SavesIn(syncing', Told', Waits') /\ AsksIn(queue', Told', Waits')
      BY <1>1, <1>3, <2>1, <2>2, <2>4, <2>6, <3>1, CopiesGrow
    <3>4. AskIn(op'.ask, Told', Waits')
      BY <1>3, <2>3, <2>5, AskGrows
    <3> QED
      BY <3>2, <3>3, <3>4 DEF Copies
  <2>8. LoadInv'
    BY <1>1, <2>1, JoinTyped, LoadShape DEF Kept, LoadInv, StateTypeInv, Stamp
  <2>9. OpInv' /\ SentInv'
    BY <1>1, <2>1 DEF Kept, OpInv, SentInv, Begun, Stored
  <2>10. ReaderInv'
    BY <1>1, <2>1, Frames
  <2> QED
    BY <1>3, <2>7, <2>8, <2>9, <2>10 DEF Kept
<1>5. CASE Read \/ Snapshot \/ ReadGoes \/ Return
  <2>1. /\ UNCHANGED <<op, queue>>
        /\ UNCHANGED load \/ JoinLoad
    BY <1>5 DEF Read, Snapshot, ReadGoes, Return
  <2>2. OpInv' /\ SentInv'
    BY <1>1, <1>2, <2>1, Frames
  <2>3. Copies'
    BY <1>1, <1>3, <2>1, CopiesKept DEF Kept
  <2>4. LoadInv'
    <3>1. CASE UNCHANGED load
      BY <1>1, <2>1, <3>1, Frames
    <3>2. CASE JoinLoad
      BY <1>1, <2>1, <3>2, JoinTyped, LoadShape DEF Kept, LoadInv, StateTypeInv, Stamp
    <3> QED
      BY <2>1, <3>1, <3>2
  <2>5. ReaderInv'
    <3>1. CASE Read \/ Snapshot
      <4>1. reader'.owed = acked /\ reader'.at # "answered"
            /\ (reader'.at # "wait" => reader'.ahead = 0)
        BY <3>1 DEF Read, Snapshot
      <4> QED
        BY <1>1, <4>1 DEF ReaderInv
    <3>2. CASE ReadGoes
      <4>1. reader # Idle /\ reader.ahead = 0
            /\ reader \in [at : {"wait", "load"}, ahead : Nat, owed : Promises]
        BY <3>2, ReaderShape DEF ReadGoes, StateTypeInv
      <4>2. reader'.owed = reader.owed /\ reader'.ahead = 0 /\ reader'.at = "load"
        BY <3>2, <4>1 DEF ReadGoes
      <4> QED
        BY <1>1, <4>1, <4>2 DEF Kept, ReaderInv
    <3>3. CASE Return
      BY <3>3 DEF Return, ReaderInv
    <3> QED
      BY <1>5, <3>1, <3>2, <3>3
  <2> QED
    BY <1>3, <2>2, <2>3, <2>4, <2>5 DEF Kept
<1>6. CASE LoadBegins \/ LoadStat
  <2>1. UNCHANGED <<op, queue, reader>>
    BY <1>6 DEF LoadBegins, LoadStat
  <2>2. OpInv' /\ SentInv' /\ ReaderInv'
    BY <1>1, <1>2, <2>1, Frames
  <2>3. Copies'
    BY <1>1, <1>3, <2>1, CopiesKept DEF Kept
  <2>4. LoadInv'
    <3>1. CASE LoadBegins
      BY <1>1, <3>1 DEF LoadBegins, LoadInv, StateTypeInv
    <3>2. CASE LoadStat
      <4>1. load.revision <= revision
        BY <3>2 DEF LoadStat, Kept, LoadInv
      <4>2. Stamp # None => file # None /\ Stamp = file.stamp /\ Stamp \in Nat
        BY DEF Stamp, StateTypeInv, Stamped
      <4>3. Stamp' = Stamp
        BY <1>1 DEF Stamp
      <4>4. /\ load'.at = "stamped" /\ load'.revision = load.revision
            /\ load'.stamp = Stamp
        BY <3>2 DEF LoadStat
      <4> QED
        BY <1>1, <4>1, <4>2, <4>3, <4>4 DEF LoadInv
    <3> QED
      BY <1>6, <3>1, <3>2
  <2> QED
    BY <1>3, <2>2, <2>3, <2>4 DEF Kept
<1> QED
  BY <1>4, <1>5, <1>6

\* What an operation makes of a state that follows the file follows it too, and serves
\* what was asked for.
LEMMA OutcomeFollows ==
    ASSUME StateTypeInv, Kept, op.at = "load", NEW s \in State, file # None,
           Follows(s, file.content), s.ver = file.content.ver,
           NEW o, o = op.ask, Reply(s, o) = "ok"
    PROVE  Follows(Outcome(s, o), file.content) /\ Serves(o, Outcome(s, o))
<1>1. o \in Asks /\ AskIn(o, Told, Waits) /\ file.content \in State
  BY OpShape DEF Kept, Copies, StateTypeInv, Stamped, Idle
<1>2. Told \subseteq s.told
  BY <1>1, SavedStateAssumption DEF Told, Follows
<1>3. CASE o.kind = "full"
  <2>1. PICK d \in State : d = o.whole
    BY <1>1, <1>3, AskShape
  <2>2. d.told \subseteq s.told
    BY <1>1, <1>2, <1>3, <2>1 DEF AskIn, CopyIn
  <2>3. PICK n : n = Merge(s, d)
    OBVIOUS
  <2>4. n.ver = d.ver /\ n.pend = s.pend /\ n.told = s.told
    <3>1. n.ver = d.ver /\ n.pend = s.pend /\ n.told = d.told \cup s.told
      BY <2>3, MergeMade
    <3>2. d.told \cup s.told = s.told
      BY <2>2
    <3> QED
      BY <3>1, <3>2
  <2>5. Outcome(s, o) = n
    BY <1>3, <2>1, <2>3, SavedStateAssumption DEF Outcome
  <2>6. Follows(n, file.content)
    BY <2>4 DEF Follows
  <2>7. Serves(o, n)
    BY <1>3, <2>1, <2>4 DEF Serves, InPlace
  <2> QED
    BY <2>5, <2>6, <2>7
<1>4. CASE o.kind = "deltas"
  <2>1. PICK ds \in Seq(Deltas) : ds = o.deltas
    BY <1>1, <1>4, AskShape
  <2>2. ASSUME NEW i \in 1..Len(ds) PROVE ds[i].whole.told \subseteq s.told
    <3>1. DeltasIn(ds, Told, Waits)
      BY <1>1, <1>4, <2>1 DEF AskIn
    <3> QED
      BY <1>2, <3>1 DEF DeltasIn, CopyIn
  <2>3. PICK n : n = Chain(s, ds)[Len(ds)]
    OBVIOUS
  <2>4. n.pend = s.pend /\ n.told = s.told
    BY <2>2, <2>3, ChainKeeps
  <2>5. Outcome(s, o) = n
    BY <1>4, <2>1, <2>3 DEF Outcome
  <2>6. Follows(n, file.content)
    BY <2>4 DEF Follows
  <2>7. Serves(o, n)
    BY <1>4 DEF Serves, InPlace
  <2> QED
    BY <2>5, <2>6, <2>7
<1>5. CASE InPlace(o)
  <2>1. PICK n : n = Edit(s, o)
    OBVIOUS
  <2>2. Outcome(s, o) = n
    BY <1>5, <2>1 DEF Outcome, InPlace
  <2>3. n.ver = s.ver
    BY <1>1, <1>5, <2>1, EditMade
  <2>4. CASE o.kind = "deliver"
    <3>1. n.pend = {} /\ n.told = s.told \cup s.pend
      BY <1>1, <1>5, <2>1, <2>4, EditMade
    <3>2. Follows(n, file.content)
      BY <3>1 DEF Follows
    <3>3. Serves(o, n)
      BY <2>3, <2>4 DEF Serves, InPlace
    <3> QED
      BY <2>2, <3>2, <3>3
  <2>5. CASE o.kind = "report"
    <3>1. /\ n.told = s.told
          /\ n.pend = IF o.result \in s.told THEN s.pend ELSE s.pend \cup {o.result}
      BY <1>1, <1>5, <2>1, <2>5, EditMade
    <3>2. Follows(n, file.content)
      BY <3>1 DEF Follows
    <3>3. Serves(o, n)
      BY <2>3, <2>5, <3>1 DEF Serves, InPlace
    <3> QED
      BY <2>2, <3>2, <3>3
  <2> QED
    BY <1>5, <2>4, <2>5 DEF InPlace
<1> QED
  BY <1>1, <1>3, <1>4, <1>5, AskShape DEF InPlace

\* Where nothing has been saved, only a window that describes everything goes on.
LEMMA FirstOutcome ==
    ASSUME StateTypeInv, Kept, op.at = "load", Fresh, NEW o, o = op.ask, Reply(None, o) = "ok"
    PROVE  /\ o.kind = "full" /\ Outcome(None, o) = o.whole
           /\ Untold(o.whole) /\ Follows(o.whole, Content) /\ Serves(o, o.whole)
<1>1. o \in Asks /\ AskIn(o, Told, Waits)
  BY OpShape DEF Kept, Copies, StateTypeInv, Idle
<1>2. o.kind = "full" /\ Outcome(None, o) = o.whole
  <2>1. Reply(None, o) = "ok" => o.kind = "full" \/ None \in State
    BY <1>1, ReplySays
  <2> QED
    BY <2>1, SavedStateAssumption DEF Outcome
<1>3. Told = {} /\ Waits = {}
  BY DEF Told, Waits, Kept, OnDiskInv, Untold
<1>4. Untold(o.whole)
  <2>1. CopyIn(o.whole, Told, Waits)
    BY <1>1, <1>2 DEF AskIn
  <2> QED
    BY <1>3, <2>1 DEF CopyIn, Untold
<1>5. Follows(o.whole, Content)
  BY <1>4 DEF Follows, Untold, Content, Kept, OnDiskInv
<1>6. Serves(o, o.whole)
  BY <1>2 DEF Serves, InPlace
<1> QED
  BY <1>2, <1>4, <1>5, <1>6

\* A reading finds nothing where nothing has been saved, or a state that follows the file.
LEMMA KeptFound ==
    ASSUME StateTypeInv, Kept, NEW s \in State \cup {None}, NEW held \in Stamped \cup {None},
           Found(s, held), load # Idle,
           s = None => Fresh /\ held = cache,
           s # None => /\ file # None /\ ~Fresh /\ Follows(s, file.content)
                       /\ s.ver = file.content.ver
                       /\ held # None /\ held.content = s /\ held.stamp <= file.stamp
    PROVE  Kept'
<1>1. /\ UNCHANGED <<file, revision, queue, win, sent, syncing, acked>>
      /\ load' = Idle /\ load'.at = "idle"
  BY DEF Found, window, Idle
<1>2. Fresh' => Fresh
  BY <1>1, FreshStays
<1>3. OnDiskInv' /\ Told' = Told /\ Waits \subseteq Waits'
  BY <1>1, <1>2, Frames
<1>4. op' = op \/ (op.at = "load" /\ op'.ask = op.ask)
  BY FoundOp DEF Found
<1>5. Copies'
  <2>1. op' = Idle \/ (op # Idle /\ op'.ask = op.ask)
    BY <1>4 DEF Idle
  <2> QED
    BY <1>1, <1>3, <2>1, CopiesKept DEF Kept
<1>6. LoadInv'
  BY <1>1 DEF LoadInv
<1> DEFINE edits == op.at = "load" /\ Reply(s, op.ask) = "ok" /\ InPlace(op.ask)
<1>7. ASSUME edits PROVE CacheInv' /\ OpInv' /\ SentInv'
  <2>1. PICK o : o = op.ask
    OBVIOUS
  <2>2. s # None
    <3>1. s = None => Reply(None, o) = "ok" /\ Fresh
      BY <1>7, <2>1
    <3> QED
      BY <1>7, <2>1, <3>1, FirstOutcome DEF InPlace
  <2>3. PICK n : n = Outcome(s, o)
    OBVIOUS
  <2>4. Follows(n, file.content) /\ Serves(o, n)
    BY <1>7, <2>1, <2>2, <2>3, OutcomeFollows
  <2>5. /\ op'.ask = o /\ op'.at = "write" /\ op'.state = n /\ n \in State
    BY <1>7, <2>1, <2>3, FoundOp
  <2>6. cache' = [held EXCEPT !.content = n] /\ bytes' = None
    BY <1>7, <2>1, <2>2, <2>3 DEF Found
  <2>7. n.ver = file.content.ver /\ file # None
    BY <1>7, <2>1, <2>4 DEF Serves
  <2>8. CacheInv'
    <3>1. cache'.content = n /\ cache'.stamp = held.stamp
      BY <2>2, <2>6 DEF Stamped
    <3> QED
      BY <1>1, <2>2, <2>4, <2>7, <3>1 DEF CacheInv
  <2>9. OpInv'
    <3>1. Content' = file.content
      BY <1>1, <2>7 DEF Content
    <3>2. Follows(op'.state, Content')
      BY <2>4, <2>5, <3>1
    <3>3. ~Fresh'
      BY <1>2, <2>2
    <3>4. Serves(op.ask, op.state)'
      BY <1>1, <2>4, <2>5 DEF Serves
    <3>5. op'.at = "write" /\ bytes' = None
      BY <2>5, <2>6
    <3> QED
      BY <3>2, <3>3, <3>4, <3>5 DEF OpInv, Stored
  <2>10. SentInv'
    BY <1>1, <1>7, <2>5 DEF Kept, SentInv, Stored
  <2> QED
    BY <2>8, <2>9, <2>10
<1>8. ASSUME op.at = "load", Reply(s, op.ask) = "ok", ~InPlace(op.ask) PROVE OpInv' /\ SentInv'
  <2>1. PICK o : o = op.ask
    OBVIOUS
  <2>2. PICK n : n = Outcome(s, o)
    OBVIOUS
  <2>3. op'.ask = o /\ op'.at = "write" /\ op'.state = n /\ n \in State
    BY <1>8, <2>1, <2>2, FoundOp
  <2>4. Follows(n, Content) /\ Serves(o, n) /\ (Fresh => Untold(n))
    <3>1. CASE s = None
      <4>1. Reply(None, o) = "ok" /\ Fresh
        BY <1>8, <2>1, <3>1
      <4>2. n = o.whole /\ Untold(o.whole) /\ Follows(o.whole, Content) /\ Serves(o, o.whole)
        BY <1>8, <2>1, <2>2, <3>1, <4>1, FirstOutcome
      <4> QED
        BY <4>2
    <3>2. CASE s # None
      <4>1. Content = file.content /\ ~Fresh
        BY <3>2 DEF Content
      <4>2. Follows(n, file.content) /\ Serves(o, n)
        BY <1>8, <2>1, <2>2, <3>2, OutcomeFollows
      <4> QED
        BY <4>1, <4>2
    <3> QED
      BY <3>1, <3>2
  <2>5. OpInv'
    <3>1. Content' = Content
      BY <1>1 DEF Content
    <3>2. Follows(op'.state, Content')
      BY <2>3, <2>4, <3>1
    <3>3. Fresh' => Untold(op'.state)
      BY <1>2, <2>3, <2>4
    <3>4. Serves(op.ask, op.state)'
      BY <1>1, <2>3, <2>4 DEF Serves
    <3>5. op'.at = "write" /\ ~InPlace(op'.ask)
      BY <1>8, <2>1, <2>3
    <3> QED
      BY <3>2, <3>3, <3>4, <3>5 DEF OpInv, Stored
  <2>6. SentInv'
    BY <1>1, <1>8, <2>3 DEF Kept, SentInv, Stored
  <2> QED
    BY <2>5, <2>6
<1>9. ASSUME op.at = "load", Reply(s, op.ask) # "ok" PROVE OpInv' /\ SentInv'
  <2>1. op'.at = "answer" /\ op'.reply # "ok"
    BY <1>9, FoundOp
  <2>2. OpInv'
    BY <2>1 DEF OpInv, Begun, Stored
  <2>3. SentInv'
    BY <1>1, <1>9, <2>1 DEF Kept, SentInv, Stored
  <2> QED
    BY <2>2, <2>3
<1>10. ASSUME op.at # "load" PROVE OpInv' /\ SentInv'
  <2>1. op' = op /\ bytes' \in {bytes, None}
    BY <1>10 DEF Found
  <2>2. SentInv'
    BY <1>1, <2>1, Frames
  <2>3. OpInv'
    <3>1. CASE bytes' = bytes
      BY <1>1, <1>2, <2>1, <3>1, Frames
    <3>2. CASE bytes' = None
      <4>1. Content' = Content
        BY <1>1 DEF Content
      <4>2. (Begun <=> Begun') /\ (Stored <=> Stored')
        BY <2>1 DEF Begun, Stored
      <4>3. Begun' => Follows(op.state, Content)'
        BY <2>1, <4>1, <4>2 DEF Kept, OpInv
      <4>4. Begun' \/ Stored' => Serves(op.ask, op.state)'
        BY <1>1, <2>1, <4>2 DEF Kept, OpInv, Serves
      <4> QED
        BY <1>1, <1>2, <2>1, <3>2, <4>2, <4>3, <4>4 DEF Kept, OpInv
    <3> QED
      BY <2>1, <3>1, <3>2
  <2> QED
    BY <2>2, <2>3
<1>11. ASSUME ~edits PROVE CacheInv'
  <2>1. cache' = held
    BY <1>11 DEF Found
  <2> QED
    BY <1>1, <2>1 DEF Kept, CacheInv
<1>12. CacheInv' /\ OpInv' /\ SentInv'
  <2>1. OpInv' /\ SentInv'
    BY <1>7, <1>8, <1>9, <1>10
  <2> QED
    BY <1>7, <1>11, <2>1
<1>13. ReaderInv'
  <2>1. CASE reader.at = "load"
    <3>1. reader # Idle /\ reader.ahead = 0 /\ reader.owed \in Promises
          /\ reader.owed.pend \subseteq acked.pend /\ reader.owed.told \subseteq acked.told
      BY <2>1, ReaderShape DEF Kept, ReaderInv, StateTypeInv
    <3>2. reader' = [at |-> "answered", ahead |-> reader.ahead, owed |-> reader.owed, result |-> s]
      BY <2>1 DEF Found
    <3>3. Holds(s, reader.owed)
      <4>1. CASE s = None
        <5>1. acked = Nothing
          BY <4>1 DEF Kept, OnDiskInv
        <5>2. reader.owed.pend = {} /\ reader.owed.told = {}
          BY <3>1, <5>1 DEF Nothing
        <5>3. reader.owed = Nothing
          BY <3>1, <5>2 DEF Promises, Nothing
        <5> QED
          BY <4>1, <5>3 DEF Holds
      <4>2. CASE s # None
        <5>1. file.content # None /\ Content = file.content
          BY <4>2, SavedStateAssumption DEF StateTypeInv, Stamped, Content
        <5>2. acked.pend \subseteq file.content.pend \cup file.content.told
              /\ acked.told \subseteq file.content.told
          BY <5>1 DEF Kept, OnDiskInv, Holds
        <5>3. file.content.told \subseteq s.told /\ file.content.pend \subseteq s.pend \cup s.told
          BY <4>2, <5>1 DEF Follows
        <5> QED
          BY <3>1, <4>2, <5>2, <5>3 DEF Holds
      <4> QED
        BY <4>1, <4>2
    <3>4. Holds(reader'.result, reader'.owed)
      BY <3>2, <3>3
    <3>5. reader'.owed = reader.owed /\ reader'.ahead = 0
      BY <3>1, <3>2
    <3> QED
      BY <1>1, <3>1, <3>4, <3>5 DEF ReaderInv
  <2>2. CASE reader.at # "load"
    BY <1>1, <2>2, Frames DEF Found
  <2> QED
    BY <2>1, <2>2
<1> QED
  BY <1>3, <1>5, <1>6, <1>12, <1>13 DEF Kept

LEMMA KeptLoading ==
    ASSUME StateTypeInv, Kept, LoadCheck \/ LoadParse
    PROVE  Kept'
<1>1. CASE LoadCheck
  <2>1. load.at = "stamped" /\ op.at # "published" /\ load # Idle
    BY <1>1 DEF LoadCheck, Publishing, Idle
  <2>2. CASE load.revision = revision /\ load.stamp # None /\ cache # None
              /\ cache.stamp = load.stamp
    <3>1. cache \in Stamped /\ cache.content \in State
      BY <2>2 DEF StateTypeInv, Stamped
    <3>2. PICK s \in State : s = cache.content
      BY <3>1
    <3>3. Found(s, cache)
      BY <1>1, <2>2, <3>2 DEF LoadCheck
    <3>4. load.stamp = Stamp
      BY <2>1, <2>2 DEF Kept, LoadInv
    <3>5. file # None /\ cache.stamp = file.stamp /\ ~Fresh
      BY <2>1, <2>2, <3>4 DEF Stamp, Fresh
    <3>6. Follows(s, file.content) /\ s.ver = file.content.ver /\ cache.stamp <= file.stamp
      BY <2>2, <3>2, <3>5 DEF Kept, CacheInv
    <3>7. s # None
      BY SavedStateAssumption
    <3> QED
      BY <2>1, <2>2, <3>1, <3>2, <3>3, <3>5, <3>6, <3>7, KeptFound
  <2>3. CASE ~(load.revision = revision /\ load.stamp # None /\ cache # None
               /\ cache.stamp = load.stamp)
    <3>1. /\ UNCHANGED <<file, revision, queue, op, win, sent, syncing, reader, acked>>
          /\ \/ load' = [at |-> "begin"] /\ UNCHANGED <<cache, bytes>>
             \/ /\ load.revision = revision /\ load' = [at |-> "parse", stamp |-> load.stamp]
                /\ cache' = None /\ bytes' = None
      BY <1>1, <2>3 DEF LoadCheck, onDisk, window
    <3>2. load.revision = revision => load.stamp = Stamp
      BY <2>1 DEF Kept, LoadInv
    <3>3. Fresh' => Fresh
      BY <3>1, <3>2, SavedStateAssumption DEF Fresh, Stamp, StateTypeInv, Stamped
    <3>4. OnDiskInv' /\ SentInv' /\ ReaderInv' /\ Told' = Told /\ Waits \subseteq Waits'
      BY <3>1, <3>3, Frames
    <3>5. Copies'
      BY <3>1, <3>4, CopiesKept DEF Kept
    <3>6. CacheInv'
      BY <3>1 DEF Kept, CacheInv
    <3>7. LoadInv'
      BY <2>1, <3>1 DEF Kept, LoadInv
    <3>8. OpInv'
      <4>1. CASE bytes' = bytes
        BY <3>1, <3>3, <4>1, Frames
      <4>2. CASE bytes' = None
        <5>1. Content' = Content
          BY <3>1 DEF Content
        <5>2. (Begun <=> Begun') /\ (Stored <=> Stored')
          BY <3>1 DEF Begun, Stored
        <5>3. Begun' => Follows(op.state, Content)'
          BY <3>1, <5>1, <5>2 DEF Kept, OpInv
        <5>4. Begun' \/ Stored' => Serves(op.ask, op.state)'
          BY <3>1, <5>2 DEF Kept, OpInv, Serves
        <5> QED
          BY <3>1, <3>3, <4>2, <5>2, <5>3, <5>4 DEF Kept, OpInv
      <4> QED
        BY <3>1, <4>1, <4>2
    <3> QED
      BY <3>4, <3>5, <3>6, <3>7, <3>8 DEF Kept
  <2> QED
    BY <2>2, <2>3
<1>2. CASE LoadParse
  <2>1. load.at = "parse" /\ load # Idle
    BY <1>2 DEF LoadParse, Idle
  <2>2. CASE load.stamp = None \/ file = None
    <3>1. Found(None, cache) /\ Fresh
      BY <1>2, <2>1, <2>2 DEF LoadParse, Fresh
    <3>2. cache \in Stamped \cup {None}
      BY DEF StateTypeInv
    <3> QED
      BY <2>1, <3>1, <3>2, KeptFound
  <2>3. CASE ~(load.stamp = None \/ file = None)
    <3>1. load.stamp \in Nat /\ load.stamp <= file.stamp
      BY <2>1, <2>3, LoadShape DEF StateTypeInv, Stamps, Kept, LoadInv
    <3>2. PICK s \in State : s = file.content
      BY <2>3 DEF StateTypeInv, Stamped
    <3>3. PICK held \in Stamped : held = [content |-> s, stamp |-> load.stamp]
      BY <3>1 DEF Stamped
    <3>4. Found(s, held)
      BY <1>2, <2>3, <3>2, <3>3 DEF LoadParse
    <3>5. s # None /\ held # None /\ held.content = s /\ held.stamp <= file.stamp
      BY <3>1, <3>3, SavedStateAssumption DEF Stamped
    <3>6. Follows(s, file.content) /\ ~Fresh
      BY <2>3, <3>2 DEF Follows, Fresh, Kept, OnDiskInv
    <3> QED
      BY <2>1, <2>3, <3>2, <3>3, <3>4, <3>5, <3>6, KeptFound
  <2> QED
    BY <2>2, <2>3
<1> QED
  BY <1>1, <1>2

LEMMA KeptWriting ==
    ASSUME StateTypeInv, Kept, WriteTemp \/ WriteFails \/ Published
    PROVE  Kept'
<1>1. UNCHANGED <<file, load, queue, win, sent, syncing, reader, acked>>
  BY DEF WriteTemp, WriteFails, Published, onDisk, window
<1>2. Fresh' <=> Fresh
  BY <1>1 DEF Fresh
<1>3. OnDiskInv' /\ ReaderInv' /\ Told' = Told /\ Waits \subseteq Waits' /\ Content' = Content
  BY <1>1, <1>2, Frames DEF Content
<1>4. op # Idle /\ op'.ask = op.ask
      /\ op \in [at : {"write", "rename", "published"}, ask : Asks, state : State, reply : {"ok"}]
  BY OpShape DEF WriteTemp, WriteFails, Published, StateTypeInv, Idle
<1>5. Copies'
  BY <1>1, <1>3, <1>4, CopiesKept DEF Kept
<1>6. ASSUME WriteTemp PROVE CacheInv' /\ LoadInv' /\ OpInv' /\ SentInv'
  <2>1. op.at = "write" /\ UNCHANGED <<cache, bytes, revision>>
    BY <1>6 DEF WriteTemp, onDisk
  <2>2. Written = op.state
    BY <2>1 DEF Written, Kept, OpInv
  <2>3. op' = [op EXCEPT !.at = "rename", !.state = op.state]
    BY <1>6, <2>2 DEF WriteTemp
  <2>4. op'.at = "rename" /\ op'.state = op.state /\ op'.ask = op.ask /\ op'.reply = op.reply
    BY <1>4, <2>3
  <2>5. CacheInv'
    BY <1>1, <2>1, Frames
  <2>6. LoadInv'
    BY <1>1, <2>1, <2>4 DEF Kept, LoadInv, Stamp
  <2>7. Serves(op.ask, op.state)'
    BY <1>1, <2>1, <2>4 DEF Kept, OpInv, Begun, Serves
  <2>8. Follows(op'.state, Content')
    BY <1>3, <2>1, <2>4 DEF Kept, OpInv, Begun
  <2>9. Fresh' => Untold(op'.state)
    BY <1>2, <2>1, <2>4 DEF Kept, OpInv, Begun
  <2>10. OpInv'
    BY <2>4, <2>7, <2>8, <2>9 DEF OpInv, Stored
  <2>11. SentInv'
    BY <1>1, <2>1, <2>4 DEF Kept, SentInv, Stored
  <2> QED
    BY <2>5, <2>6, <2>10, <2>11
<1>7. ASSUME WriteFails PROVE CacheInv' /\ LoadInv' /\ OpInv' /\ SentInv'
  <2>1. op.at \in {"write", "rename"} /\ UNCHANGED <<cache, revision>>
        /\ op' = [op EXCEPT !.at = "answer", !.reply = "error"]
    BY <1>7 DEF WriteFails
  <2>2. op'.at = "answer" /\ op'.reply = "error"
    BY <1>4, <2>1
  <2>3. CacheInv'
    BY <1>1, <2>1, Frames
  <2>4. LoadInv'
    BY <1>1, <2>1, <2>2 DEF Kept, LoadInv, Stamp
  <2>5. OpInv'
    BY <2>2 DEF OpInv, Begun, Stored
  <2>6. SentInv'
    BY <1>1, <2>1, <2>2 DEF Kept, SentInv, Stored
  <2> QED
    BY <2>3, <2>4, <2>5, <2>6
<1>8. ASSUME Published PROVE CacheInv' /\ LoadInv' /\ OpInv' /\ SentInv'
  <2>1. op.at = "published" /\ Stored
    BY <1>8 DEF Published, Stored
  <2>2. file # None /\ file.content = op.state /\ file \in Stamped
    BY <2>1 DEF Kept, OpInv, StateTypeInv
  <2>3. op' = [op EXCEPT !.at = "answer"]
    BY <1>8 DEF Published
  <2>4. op'.at = "answer" /\ op'.state = op.state /\ op'.ask = op.ask /\ op'.reply = "ok"
    BY <1>4, <2>3
  <2>5. /\ cache' = [content |-> op.state, stamp |-> file.stamp]
        /\ revision' = revision + 1
    BY <1>8, <2>2 DEF Published
  <2>6. CacheInv'
    <3>1. op.state.pend \cap op.state.told = {}
      BY <2>2 DEF Kept, OnDiskInv
    <3>2. cache'.content = op.state /\ cache'.stamp = file.stamp /\ file.stamp \in Nat
      BY <2>2, <2>5 DEF Stamped
    <3>3. Follows(op.state, file.content)
      BY <2>2, <3>1 DEF Follows
    <3> QED
      BY <1>1, <2>2, <3>2, <3>3 DEF CacheInv
  <2>7. LoadInv'
    <3>1. /\ load.at \in {"stat", "stamped"} => load.revision <= revision
          /\ load.at \in {"stat", "stamped"} => load.revision \in Nat
          /\ revision \in Nat
      BY LoadShape DEF Kept, LoadInv, StateTypeInv
    <3>2. /\ load.at \in {"stat", "stamped"} => load.revision <= revision + 1
          /\ load.at = "stamped" => load.revision # revision + 1
      BY <3>1
    <3> QED
      BY <1>1, <2>5, <3>2 DEF Kept, LoadInv
  <2>8. OpInv'
    <3>1. Serves(op.ask, op.state)'
      BY <1>1, <2>1, <2>4 DEF Kept, OpInv, Serves
    <3>2. Fresh' => Untold(op'.state)
      BY <1>2, <2>1, <2>4 DEF Kept, OpInv
    <3> QED
      BY <1>1, <2>2, <2>4, <3>1, <3>2 DEF OpInv, Begun
  <2>9. SentInv'
    <3>1. Stored'
      BY <2>4 DEF Stored
    <3>2. InPlace(op.ask)' <=> InPlace(op.ask)
      BY <2>4 DEF InPlace
    <3> QED
      BY <1>1, <2>1, <3>1, <3>2 DEF Kept, SentInv
  <2> QED
    BY <2>6, <2>7, <2>8, <2>9
<1> QED
  BY <1>3, <1>5, <1>6, <1>7, <1>8 DEF Kept

LEMMA KeptRename ==
    ASSUME StateTypeInv, Kept, Rename
    PROVE  Kept'
<1>1. /\ op.at = "rename" /\ op' = [op EXCEPT !.at = "published"]
      /\ UNCHANGED <<cache, revision, load, queue, win, sent, syncing, reader, acked>>
  BY DEF Rename, window
<1>2. PICK n \in State : n = op.state
  BY <1>1, OpShape DEF StateTypeInv
<1>3. /\ op # Idle /\ op'.ask = op.ask /\ op'.state = n /\ op'.at = "published"
  BY <1>1, <1>2, OpShape DEF StateTypeInv, Idle
<1>4. PICK stamp \in Nat :
        /\ file' = [content |-> n, stamp |-> stamp]
        /\ file # None => stamp = file.stamp + 1
  <2>1. (IF file = None THEN 1 ELSE file.stamp + 1) \in Nat
    BY DEF StateTypeInv, Stamped
  <2> QED
    BY <1>2, <2>1 DEF Rename
<1>5. file' \in Stamped /\ file'.content = n /\ file'.stamp = stamp
  BY <1>4 DEF Stamped
<1>6. file' # None /\ n # None
  BY <1>5, SavedStateAssumption DEF Stamped
<1>7. Follows(n, Content) /\ (Fresh => Untold(n)) /\ Serves(op.ask, n)
  BY <1>1, <1>2 DEF Kept, OpInv, Begun
<1>8. Fresh' => Fresh
  BY <1>1, <1>6 DEF Fresh
<1>9. Content' = n
  BY <1>5, <1>6 DEF Content
<1>10. file # None => Content = file.content /\ file.content # None /\ file.stamp \in Nat
  BY SavedStateAssumption DEF Content, StateTypeInv, Stamped
<1>11. Told \subseteq Told' /\ Waits \subseteq Waits'
  BY <1>5, <1>6, <1>7, <1>8, <1>10 DEF Told, Waits, Follows
<1>12. OnDiskInv'
  <2>1. file'.content.pend \cap file'.content.told = {}
    BY <1>5, <1>7 DEF Follows
  <2>2. Fresh' => acked' = Nothing /\ Untold(file'.content)
    BY <1>1, <1>5, <1>7, <1>8 DEF Kept, OnDiskInv
  <2>3. Holds(n, acked)
    <3>1. CASE file = None
      <4>1. acked = Nothing
        BY <3>1 DEF Kept, OnDiskInv, Fresh
      <4>2. acked.pend = {} /\ acked.told = {}
        BY <4>1 DEF Nothing
      <4> QED
        BY <1>6, <4>2 DEF Holds
    <3>2. CASE file # None
      BY <1>6, <1>7, <1>10, <3>2 DEF Follows, Holds, Kept, OnDiskInv
    <3> QED
      BY <3>1, <3>2
  <2>4. Holds(Content, acked)'
    BY <1>1, <1>9, <2>3 DEF Holds
  <2> QED
    BY <2>1, <2>2, <2>4 DEF OnDiskInv
<1>13. Copies'
  BY <1>1, <1>3, <1>11, CopiesKept DEF Kept
<1>14. CacheInv'
  <2>1. cache # None => file # None /\ cache.stamp <= file.stamp /\ cache.stamp \in Nat
    BY DEF Kept, CacheInv, StateTypeInv, Stamped
  <2>2. cache # None => cache.stamp <= stamp /\ cache.stamp # stamp
    BY <1>4, <1>10, <2>1
  <2> QED
    BY <1>1, <1>5, <1>6, <2>2 DEF CacheInv
<1>15. LoadInv'
  <2>1. load.at \in {"stamped", "parse"} /\ load.stamp # None => load.stamp <= stamp
    <3>1. SUFFICES ASSUME load.at \in {"stamped", "parse"}, load.stamp # None
                   PROVE  load.stamp <= stamp
      OBVIOUS
    <3>2. load.stamp \in Nat
      BY <3>1, LoadShape DEF StateTypeInv, Stamps
    <3>3. file # None /\ load.stamp <= file.stamp
      BY <3>1 DEF Kept, LoadInv
    <3> QED
      BY <1>4, <1>10, <3>2, <3>3
  <2> QED
    BY <1>1, <1>3, <1>5, <1>6, <2>1 DEF Kept, LoadInv
<1>16. OpInv'
  <2>1. Serves(op.ask, op.state)'
    BY <1>1, <1>3, <1>5, <1>6, <1>7 DEF Serves
  <2>2. Fresh' => Untold(op'.state)
    BY <1>3, <1>7, <1>8
  <2> QED
    BY <1>3, <1>5, <1>6, <2>1, <2>2 DEF OpInv, Begun
<1>17. SentInv'
  BY <1>6 DEF SentInv
<1>18. ReaderInv'
  BY <1>1, Frames
<1> QED
  BY <1>12, <1>13, <1>14, <1>15, <1>16, <1>17, <1>18 DEF Kept

\* What the window makes of an answer is a copy of what the file says.
LEMMA AnswerCopied ==
    ASSUME StateTypeInv, Kept, Answer
    PROVE  /\ CopyIn(win', Told, Waits) /\ (sent' # None => CopyIn(sent', Told, Waits))
           /\ SavesIn(syncing', Told, Waits)
<1>1. op.at = "answer" /\ op # Idle /\ WindowHears(op.ask, op.reply)
  BY DEF Answer, Idle
<1>2. /\ CopyIn(win, Told, Waits) /\ (sent # None => CopyIn(sent, Told, Waits))
      /\ SavesIn(syncing, Told, Waits) /\ AskIn(op.ask, Told, Waits)
      /\ syncing \in Seq(Saves) /\ op.ask \in Asks
  BY <1>1, OpShape DEF Kept, Copies, StateTypeInv
<1>3. CASE op.reply = "ok" /\ op.ask.kind = "full"
  <2>1. sent' = op.ask.whole /\ UNCHANGED <<win, syncing>>
    BY <1>1, <1>3 DEF WindowHears
  <2>2. CopyIn(op.ask.whole, Told, Waits)
    BY <1>2, <1>3 DEF AskIn
  <2> QED
    BY <1>2, <2>1, <2>2
<1>4. CASE op.reply = "ok" /\ op.ask.kind = "deltas"
  <2>1. PICK ds \in Seq(Deltas) : ds = op.ask.deltas
    BY <1>2, <1>4, AskShape
  <2>2. DeltasIn(ds, Told, Waits)
    BY <1>2, <1>4, <2>1 DEF AskIn
  <2>3. UNCHANGED <<win, syncing>> /\ sent' = IF sent = None THEN None ELSE Described(ds)
    BY <1>1, <1>4, <2>1 DEF WindowHears
  <2>4. ASSUME sent # None PROVE CopyIn(sent', Told, Waits)
    <3>1. PICK w \in State : w = sent /\ CopyIn(w, Told, Waits)
      BY <1>2, <2>4 DEF StateTypeInv
    <3>2. PICK k : k = Known(w, object, ds) /\ sent' = k
      BY <2>3, <2>4, <3>1, DescribedKnown
    <3>3. \/ k.told = w.told /\ k.pend = w.pend
          \/ \E n \in 1..Len(ds) : k.told = ds[n].whole.told /\ k.pend = ds[n].whole.pend
      BY <3>2, KnownFrom
    <3>4. CASE k.told = w.told /\ k.pend = w.pend
      BY <3>1, <3>2, <3>4 DEF CopyIn
    <3>5. CASE \E n \in 1..Len(ds) : k.told = ds[n].whole.told /\ k.pend = ds[n].whole.pend
      <4>1. PICK n \in 1..Len(ds) : k.told = ds[n].whole.told /\ k.pend = ds[n].whole.pend
        BY <3>5
      <4>2. CopyIn(ds[n].whole, Told, Waits)
        BY <2>2 DEF DeltasIn
      <4> QED
        BY <3>2, <4>1, <4>2 DEF CopyIn
    <3> QED
      BY <3>3, <3>4, <3>5
  <2> QED
    BY <1>2, <2>3, <2>4
<1>5. CASE op.reply = "full"
  <2>1. op.ask.kind = "deltas"
    BY <1>1, <1>5 DEF StateTypeInv
  <2>2. PICK ds \in Seq(Deltas) : ds = op.ask.deltas
    BY <1>2, <2>1, AskShape
  <2>3. PICK v \in Saves : v = FullSave
    BY FullSaveTyped
  <2>4. sent' = None /\ syncing' = syncing \o [n \in DOMAIN ds |-> v] /\ UNCHANGED win
    BY <1>1, <1>5, <2>2, <2>3 DEF WindowHears
  <2>5. SaveIn(v, Told, Waits)
    BY <1>2, <2>3 DEF SaveIn, FullSave
  <2>6. PICK t : t = [n \in DOMAIN ds |-> v]
    OBVIOUS
  <2>7. DOMAIN ds = 1..Len(ds) /\ Len(ds) \in Nat
    BY <2>2
  <2>8. t \in Seq(Saves) /\ Len(t) = Len(ds) /\ \A n \in 1..Len(t) : t[n] = v
    BY <2>6, <2>7
  <2>9. syncing' = syncing \o t
    BY <2>4, <2>6
  <2>10. Len(syncing') = Len(syncing) + Len(t)
         /\ \A n \in 1..(Len(syncing) + Len(t)) :
               syncing'[n] = IF n <= Len(syncing) THEN syncing[n] ELSE t[n - Len(syncing)]
    BY <1>2, <2>8, <2>9, ConcatProperties
  <2>11. ASSUME NEW n \in 1..Len(syncing') PROVE SaveIn(syncing'[n], Told, Waits)
    <3>1. Len(syncing) \in Nat /\ Len(t) \in Nat
      BY <1>2, <2>8
    <3>2. CASE n <= Len(syncing)
      <4>1. n \in 1..Len(syncing) /\ syncing'[n] = syncing[n]
        BY <2>10, <3>1, <3>2
      <4> QED
        BY <1>2, <4>1 DEF SavesIn
    <3>3. CASE n > Len(syncing)
      <4>1. n - Len(syncing) \in 1..Len(t) /\ syncing'[n] = t[n - Len(syncing)]
        BY <2>10, <3>1, <3>3
      <4> QED
        BY <2>5, <2>8, <4>1
    <3> QED
      BY <2>10, <3>1, <3>2, <3>3
  <2> QED
    BY <1>2, <2>4, <2>11 DEF SavesIn
<1>6. CASE op.reply = "ok" /\ op.ask.kind = "deliver"
  <2>1. /\ win' = [win EXCEPT !.told = @ \cup op.state.told, !.pend = op.state.pend]
        /\ UNCHANGED <<sent, syncing>>
    BY <1>1, <1>6 DEF WindowHears
  <2>2. win'.told = win.told \cup op.state.told /\ win'.pend = op.state.pend
    BY <2>1 DEF StateTypeInv, State
  <2>3. Stored /\ op.state \in State
    BY <1>1, <1>6, OpShape DEF Stored, StateTypeInv
  <2>4. file # None /\ file.content = op.state /\ (Fresh => Untold(op.state))
    BY <2>3 DEF Kept, OpInv
  <2>5. op.state.told \subseteq Told /\ op.state.pend \subseteq Waits
    BY <2>3, <2>4 DEF Told, Waits, Untold, State
  <2>6. CopyIn(win', Told, Waits)
    BY <1>2, <2>2, <2>5 DEF CopyIn
  <2> QED
    BY <1>2, <2>1, <2>6
<1>7. CASE \/ op.reply = "ok" /\ op.ask.kind = "report"
           \/ op.reply \notin {"ok", "full"}
  BY <1>1, <1>2, <1>7 DEF WindowHears, window
<1> QED
  BY <1>2, <1>3, <1>4, <1>5, <1>6, <1>7, AskShape

\* What an answer promises is on disk when it is given.
LEMMA OwesHolds ==
    ASSUME StateTypeInv, Kept, op.at = "answer", op.reply = "ok", NEW a \in Promises,
           Holds(Content, a)
    PROVE  Holds(Content, Owes(a, op.ask)) /\ (Fresh /\ a = Nothing => Owes(a, op.ask) = Nothing)
<1>1. /\ Stored /\ op.state \in State /\ op.ask \in Asks
  BY OpShape DEF Stored, StateTypeInv, Idle
<1>2. /\ file # None /\ file.content = op.state /\ (Fresh => Untold(op.state))
      /\ Serves(op.ask, op.state)
  BY <1>1 DEF Kept, OpInv
<1>3. Content = op.state /\ op.state # None
  BY <1>1, <1>2, SavedStateAssumption DEF Content
<1>4. a.pend \subseteq op.state.pend \cup op.state.told /\ a.told \subseteq op.state.told
  BY <1>3 DEF Holds
<1>5. PICK b : b = Owes(a, op.ask)
  OBVIOUS
<1>6. CASE op.ask.kind = "report"
  <2>1. b.pend = a.pend \cup {op.ask.result} /\ b.told = a.told
    BY <1>5, <1>6 DEF Owes, Promises
  <2>2. op.ask.result \in op.state.pend \cup op.state.told
    BY <1>2, <1>6 DEF Serves
  <2>3. ~Fresh
    BY <1>2, <2>2 DEF Untold
  <2>4. Holds(Content, b)
    BY <1>3, <1>4, <2>1, <2>2 DEF Holds
  <2> QED
    BY <1>5, <2>3, <2>4
<1>7. CASE op.ask.kind = "deliver"
  <2>1. b = [a EXCEPT !.told = @ \cup op.state.told]
    BY <1>5, <1>7 DEF Owes
  <2>2. b.pend = a.pend /\ b.told = a.told \cup op.state.told
    BY <2>1 DEF Promises
  <2>3. Holds(Content, b)
    BY <1>3, <1>4, <2>2 DEF Holds
  <2>4. Fresh /\ a = Nothing => b = Nothing
    BY <1>2, <2>1 DEF Nothing, Untold
  <2> QED
    BY <1>5, <2>3, <2>4
<1>8. CASE op.ask.kind \in {"full", "deltas"}
  BY <1>8 DEF Owes
<1> QED
  BY <1>1, <1>6, <1>7, <1>8, AskShape

LEMMA KeptAnswer ==
    ASSUME StateTypeInv, Kept, Answer
    PROVE  Kept'
<1>1. /\ op.at = "answer" /\ op # Idle /\ op' = Idle /\ op'.at = "idle"
      /\ UNCHANGED <<file, cache, bytes, revision, load, queue>>
      /\ acked' = IF op.reply = "ok" THEN Owes(acked, op.ask) ELSE acked
      /\ WindowHears(op.ask, op.reply)
  BY DEF Answer, onDisk, Idle
<1>2. op.ask \in Asks /\ acked \in Promises
  BY <1>1, OpShape DEF StateTypeInv
<1>3. Told' = Told /\ Waits' = Waits /\ Content' = Content /\ (Fresh' <=> Fresh)
  BY <1>1 DEF Told, Waits, Fresh, Content
<1>4. OnDiskInv'
  <2>1. Holds(Content, acked) /\ (Fresh => acked = Nothing)
    BY DEF Kept, OnDiskInv
  <2>2. Holds(Content, acked') /\ (Fresh => acked' = Nothing)
    <3>1. CASE op.reply = "ok"
      BY <1>1, <1>2, <2>1, <3>1, OwesHolds
    <3>2. CASE op.reply # "ok"
      BY <1>1, <2>1, <3>2
    <3> QED
      BY <3>1, <3>2
  <2>3. Holds(Content, acked)'
    BY <1>3, <2>2 DEF Holds
  <2> QED
    BY <1>1, <1>3, <2>2, <2>3 DEF Kept, OnDiskInv
<1>5. Copies'
  <2>1. AsksIn(queue', Told', Waits')
    BY <1>1, <1>3 DEF Kept, Copies
  <2> QED
    BY <1>1, <1>3, <2>1, AnswerCopied DEF Copies
<1>6. CacheInv'
  BY <1>1, Frames
<1>7. LoadInv'
  BY <1>1 DEF Kept, LoadInv, Stamp
<1>8. OpInv'
  BY <1>1 DEF OpInv, Begun, Stored
<1>9. SentInv'
  <2>1. SUFFICES ASSUME sent' # None, sent = None PROVE file # None
    BY <1>1 DEF Kept, SentInv
  <2>2. op.reply = "ok" /\ op.ask.kind = "full"
    BY <1>1, <1>2, <2>1, AskShape DEF WindowHears, window
  <2> QED
    BY <1>1, <2>2 DEF Stored, Kept, OpInv
<1>10. ReaderInv'
  <2>1. CASE reader = Idle \/ reader.ahead = 0
    <3>1. reader' = reader
      BY <2>1 DEF Answer
    <3>2. acked.pend \subseteq acked'.pend /\ acked.told \subseteq acked'.told
      BY <1>1, <1>2 DEF Owes, Promises
    <3> QED
      BY <3>1, <3>2 DEF Kept, ReaderInv
  <2>2. CASE ~(reader = Idle \/ reader.ahead = 0)
    <3>1. /\ reader \in [at : {"wait", "load"}, ahead : Nat, owed : Promises]
          /\ reader.at = "wait"
          /\ reader.owed.pend \subseteq acked.pend /\ reader.owed.told \subseteq acked.told
      BY <2>2, ReaderShape DEF Kept, ReaderInv, StateTypeInv
    <3>2. PICK a \in Promises : a = reader.owed
      BY <3>1
    <3>3. PICK owed : owed = IF op.reply = "ok" THEN Owes(a, op.ask) ELSE a
      OBVIOUS
    <3>4. reader' = [reader EXCEPT !.ahead = @ - 1, !.owed = owed]
      BY <2>2, <3>2, <3>3 DEF Answer
    <3>5. reader'.at = "wait" /\ reader'.owed = owed
      BY <3>1, <3>4
    <3>6. owed.pend \subseteq acked'.pend /\ owed.told \subseteq acked'.told
      BY <1>1, <1>2, <3>1, <3>2, <3>3 DEF Owes, Promises
    <3> QED
      BY <3>5, <3>6 DEF ReaderInv
  <2> QED
    BY <2>1, <2>2
<1> QED
  BY <1>4, <1>5, <1>6, <1>7, <1>8, <1>9, <1>10 DEF Kept

LEMMA KeptRelaunch ==
    ASSUME StateTypeInv, Kept, Relaunch
    PROVE  Kept'
<1>1. /\ cache' = None /\ load' = Idle /\ op' = Idle /\ queue' = <<>> /\ syncing' = <<>>
      /\ win' = (IF file = None THEN Blank ELSE file.content) /\ sent' = None /\ reader' = Idle
      /\ UNCHANGED <<file, revision, acked>>
  BY DEF Relaunch
<1>2. load'.at = "idle" /\ op'.at = "idle"
  BY <1>1 DEF Idle
<1>3. Fresh' => Fresh
  BY <1>1, <1>2, FreshStays
<1>4. OnDiskInv'
  BY <1>1, <1>3, Frames
<1>5. CopyIn(win', Told', Waits')
  <2>1. CASE file = None
    BY <1>1, <2>1 DEF CopyIn, Blank
  <2>2. CASE file # None
    <3>1. ~Fresh' /\ Told' = file.content.told
      BY <1>1, <1>2, <2>2 DEF Fresh, Told
    <3>2. file.content.pend \subseteq Results
      BY <2>2 DEF StateTypeInv, Stamped, State
    <3> QED
      BY <1>1, <2>2, <3>1, <3>2 DEF CopyIn, Waits
  <2> QED
    BY <2>1, <2>2
<1>6. AsksIn(queue', Told', Waits') /\ SavesIn(syncing', Told', Waits')
  BY <1>1 DEF AsksIn, SavesIn
<1>7. Copies'
  BY <1>1, <1>5, <1>6 DEF Copies
<1>8. CacheInv' /\ LoadInv' /\ OpInv' /\ SentInv' /\ ReaderInv'
  BY <1>1, <1>2 DEF CacheInv, LoadInv, OpInv, Begun, Stored, SentInv, ReaderInv
<1> QED
  BY <1>4, <1>7, <1>8 DEF Kept

LEMMA KeptInit == StateInit => Kept
<1> SUFFICES ASSUME StateInit PROVE Kept
  OBVIOUS
<1>1. /\ cache = file /\ load = Idle /\ op = Idle /\ queue = <<>> /\ syncing = <<>>
      /\ win = Blank /\ reader = Idle /\ acked = Nothing
  BY DEF StateInit
<1>2. load.at = "idle" /\ op.at = "idle"
  BY <1>1 DEF Idle
<1>3. \/ file = None /\ sent = None
      \/ file = [content |-> Blank, stamp |-> 0] /\ sent = Blank
  BY DEF StateInit
<1>4. Blank.pend = {} /\ Blank.told = {} /\ Blank # None /\ [content |-> Blank, stamp |-> 0] # None
  BY BlankTyped, SavedStateAssumption DEF Blank
<1>5. file # None => file.content = Blank /\ file.stamp = 0 /\ sent = Blank
  BY <1>3
<1>6. OnDiskInv
  BY <1>1, <1>4, <1>5 DEF OnDiskInv, Untold, Holds, Content, Nothing
<1>7. Copies
  <2>1. CopyIn(win, Told, Waits) /\ (sent # None => CopyIn(sent, Told, Waits))
    BY <1>1, <1>3, <1>4 DEF CopyIn
  <2>2. AsksIn(queue, Told, Waits) /\ SavesIn(syncing, Told, Waits)
    BY <1>1 DEF AsksIn, SavesIn
  <2> QED
    BY <1>1, <2>1, <2>2 DEF Copies
<1>8. CacheInv
  BY <1>1, <1>4, <1>5 DEF CacheInv, Follows
<1>9. LoadInv /\ OpInv /\ ReaderInv
  BY <1>1, <1>2 DEF LoadInv, OpInv, Begun, Stored, ReaderInv
<1>10. SentInv
  BY <1>3, <1>4, <1>5 DEF SentInv
<1> QED
  BY <1>6, <1>7, <1>8, <1>9, <1>10 DEF Kept

LEMMA SavedInvStep == SavedInv /\ [StateNext]_stateVars => SavedInv'
<1> SUFFICES ASSUME SavedInv, [StateNext]_stateVars PROVE SavedInv'
  OBVIOUS
<1>1. StateTypeInv /\ StateTypeInv'
  BY StateTypeStep DEF SavedInv
<1>2. CASE replaced
  <2>1. replaced'
    <3>1. CASE UNCHANGED stateVars
      BY <1>2, <3>1 DEF stateVars
    <3>2. CASE StateNext
      BY <1>2, <3>2 DEF StateNext, Work, SyncDone, StartOp, ReadGoes, Return, LoadBegins,
           LoadStat, LoadCheck, LoadParse, Found, WriteTemp, Rename, Published, Answer,
           WindowSaves, WindowEdits, Report, DeliveryTick, Read, Snapshot, WriteFails, Relaunch,
           ForeignWrite
    <3> QED
      BY <3>1, <3>2
  <2> QED
    BY <1>1, <2>1 DEF SavedInv
<1>3. CASE ~replaced
  <2>1. Kept
    BY <1>3 DEF SavedInv
  <2>2. ASSUME UNCHANGED stateVars PROVE Kept'
    <3>1. UNCHANGED <<file, cache, bytes, revision, load, queue, op, win, sent, syncing, reader, acked>>
      BY <2>2 DEF stateVars
    <3>2. Fresh' => Fresh
      BY <3>1 DEF Fresh
    <3>3. op' = Idle \/ (op # Idle /\ op'.ask = op.ask)
      BY <3>1
    <3> QED
      BY <1>1, <2>1, <3>1, <3>2, <3>3, Frames, CopiesKept DEF Kept
  <2>3. CASE ForeignWrite
    BY <1>1, <2>3 DEF ForeignWrite, SavedInv
  <2>4. ASSUME StateNext, ~ForeignWrite PROVE Kept'
    BY <1>1, <2>1, <2>4, KeptAsking, KeptReading, KeptLoading, KeptWriting, KeptRename,
       KeptAnswer, KeptRelaunch DEF StateNext, Work
  <2> QED
    BY <1>1, <2>2, <2>3, <2>4 DEF SavedInv
<1> QED
  BY <1>2, <1>3

LEMMA SavedInvariance == StateSpec => []SavedInv
<1>1. StateInit => SavedInv
  BY StateTypeInit, KeptInit DEF SavedInv
<1> QED
  BY <1>1, SavedInvStep, PTL DEF StateSpec

-------------------------------------------------------------------------------
\* The properties of the saved state.

\* What the service has told a client is saved stays on disk, through failing writes,
\* restarts, batches and whatever a window sends that has not heard of it.
THEOREM AnsweredStays == StateSpec => []AnsweredIsOnDisk
<1>1. SavedInv => AnsweredIsOnDisk
  BY DEF SavedInv, Kept, OnDiskInv, AnsweredIsOnDisk
<1> QED
  BY <1>1, SavedInvariance, PTL

\* A reader is given what was answered before it asked, and read() also what was asked for
\* before, whoever began the reading that it shares.
THEOREM ReadersAreCurrent == StateSpec => []ReadIsCurrent
<1>1. SavedInv => ReadIsCurrent
  BY DEF SavedInv, Kept, ReaderInv, ReadIsCurrent, Idle
<1> QED
  BY <1>1, SavedInvariance, PTL

\* A result that is a turn of the assistant on disk remains one and does not wait for its
\* delivery again.
THEOREM ResultsToldOnce == StateSpec => ToldOnce
<1> DEFINE Once == replaced' \/ file = None
                   \/ /\ file.content.told \subseteq file'.content.told
                      /\ file'.content.pend \cap file.content.told = {}
<1>1. SavedInv /\ [StateNext]_stateVars => [Once]_file
  <2> SUFFICES ASSUME SavedInv, [StateNext]_stateVars, file' # file, ~replaced', file # None
               PROVE  Once
    OBVIOUS
  <2>1. CASE Rename
    <3>1. StateTypeInv /\ Kept
      BY <2>1 DEF SavedInv, Rename
    <3>2. Follows(op.state, Content) /\ file'.content = op.state
      BY <2>1, <3>1 DEF Rename, Kept, OpInv, Begun
    <3>3. Content = file.content /\ Content # None
      BY <3>1, SavedStateAssumption DEF Content, StateTypeInv, Stamped
    <3> QED
      BY <3>2, <3>3 DEF Follows
  <2>2. CASE ForeignWrite
    BY <2>2 DEF ForeignWrite
  <2>3. ASSUME ~Rename, ~ForeignWrite PROVE FALSE
    <3>1. StateNext
      BY DEF stateVars
    <3> QED
      BY <2>3, <3>1 DEF StateNext, Work, SyncDone, StartOp, ReadGoes, Return, LoadBegins,
           LoadStat, LoadCheck, LoadParse, Found, WriteTemp, Published, Answer, WindowSaves,
           WindowEdits, Report, DeliveryTick, Read, Snapshot, WriteFails, Relaunch, onDisk
  <2> QED
    BY <2>1, <2>2, <2>3
<1> QED
  BY <1>1, SavedInvariance, PTL DEF StateSpec, ToldOnce

-------------------------------------------------------------------------------
\* What a window has described (DescribedIsTrue).  Saves reach the store in an order of their
\* own; where none has overtaken an older delta of another object, whatever is ahead of a
\* delta and speaks of another object is older than it.

UpTo(s) == {w \in State : \A i \in Items : w.ver[i] <= s.ver[i]}
Agreeing(d) == {x \in Deltas : x.of # d.of => x.whole \in UpTo(d.whole)}

\* The saves that have reached the store, and those that wait for the lock, speak of full
\* states in F and of deltas in S.
AskWithin(o, F, S) ==
    /\ o.kind = "full" => o.whole \in F
    /\ o.kind = "deltas" => \A n \in 1..Len(o.deltas) : o.deltas[n] \in S
LineWithin(F, S) ==
    /\ op # Idle => AskWithin(op.ask, F, S)
    /\ \A n \in 1..Len(queue) : AskWithin(queue[n], F, S)
LockWithin(F, S) ==
    \A n \in 1..Len(syncing) : /\ syncing[n].kind = "full" => syncing[n].whole \in F
                               /\ syncing[n].kind = "delta" => syncing[n].delta \in S

\* Every save is a former copy of the window, compared with an object that there has been.
MadeBy(w, n) == {d \in Deltas : d.of <= n /\ d.whole \in UpTo(w)}
Former == LineWithin(UpTo(win), MadeBy(win, object)) /\ LockWithin(UpTo(win), MadeBy(win, object))

\* What is described is older than a delta of an object that has been replaced.
LaterThan(s, n) == {d \in Deltas : d.of # n => s \in UpTo(d.whole)}
Outlived == sent # None => /\ LineWithin(State, LaterThan(sent, object))
                           /\ LockWithin(State, LaterThan(sent, object))

\* What waits for the lock is behind everything that has reached the store, and behind what
\* waits longer.
Whole(v) == IF v.kind = "full" THEN v.whole ELSE v.delta.whole
Behind ==
    \A n \in 1..Len(syncing) :
      /\ syncing[n].kind = "delta" =>
            LineWithin(UpTo(syncing[n].delta.whole), Agreeing(syncing[n].delta))
      /\ \A m \in 1..(n - 1) : Whole(syncing[m]) \in UpTo(Whole(syncing[n]))

\* The same of the saves that have reached the store.
Follow(o, p) ==
    p.kind = "deltas" =>
      \A n \in 1..Len(p.deltas) : AskWithin(o, UpTo(p.deltas[n].whole), Agreeing(p.deltas[n]))
Batched(o) ==
    o.kind = "deltas" =>
      \A n \in 1..Len(o.deltas) : \A m \in 1..(n - 1) : o.deltas[m] \in Agreeing(o.deltas[n])
InLine ==
    /\ op # Idle => Batched(op.ask)
    /\ \A n \in 1..Len(queue) :
          /\ Batched(queue[n]) /\ (op # Idle => Follow(op.ask, queue[n]))
          /\ \A m \in 1..(n - 1) : Follow(queue[m], queue[n])

\* What is described is in the file, unless the window has something newer to send.
Stands(k, s) == \A i \in Items : k.ver[i] = s.ver[i] \/ k.ver[i] < win.ver[i]
DescribedInv ==
    sent # None =>
      /\ ~(Stored /\ ~InPlace(op.ask)) => Stands(sent, file.content)
      /\ (Begun \/ Stored) /\ op.ask.kind = "deltas" =>
            Stands(Known(sent, object, op.ask.deltas), op.state)

Ordered == Former /\ Outlived /\ Behind /\ InLine /\ DescribedInv
OrderInv == replaced \/ overtaken \/ Ordered

LEMMA UpToOrder ==
    ASSUME NEW s \in State
    PROVE  /\ s \in UpTo(s)
           /\ \A t \in State : s \in UpTo(t) => UpTo(s) \subseteq UpTo(t)
<1>1. \A t \in State, i \in Items : t.ver[i] \in Nat
  BY DEF State
<1> QED
  BY <1>1 DEF UpTo

LEMMA AskWidens ==
    ASSUME NEW o, NEW F, NEW S, NEW F2, NEW S2, F \subseteq F2, S \subseteq S2, AskWithin(o, F, S)
    PROVE  AskWithin(o, F2, S2)
  BY DEF AskWithin

LEMMA LineWidens ==
    ASSUME NEW F, NEW S, NEW F2, NEW S2, F \subseteq F2, S \subseteq S2
    PROVE  /\ LineWithin(F, S) => LineWithin(F2, S2)
           /\ LockWithin(F, S) => LockWithin(F2, S2)
  BY AskWidens DEF LineWithin, LockWithin

LEMMA LineKept ==
    ASSUME NEW F, NEW S, LineWithin(F, S), UNCHANGED queue,
           op' = Idle \/ (op # Idle /\ op'.ask = op.ask)
    PROVE  LineWithin(F, S)'
<1>1. op' # Idle => AskWithin(op'.ask, F, S)
  BY DEF LineWithin
<1> QED
  BY <1>1 DEF LineWithin

LEMMA LineStarts ==
    ASSUME StateTypeInv, StartOp, NEW F, NEW S, LineWithin(F, S)
    PROVE  LineWithin(F, S)'
<1>1. PICK q \in Seq(Asks) : q = queue /\ q # <<>>
  BY DEF StartOp, StateTypeInv
<1>2. op'.ask = Head(q) /\ queue' = Tail(q)
  BY <1>1 DEF StartOp
<1>3. Head(q) = q[1] /\ 1 \in 1..Len(q) /\ Len(Tail(q)) = Len(q) - 1
      /\ \A n \in 1..Len(Tail(q)) : Tail(q)[n] = q[n + 1] /\ n + 1 \in 1..Len(q)
  BY <1>1, HeadTailProperties
<1>4. \A n \in 1..Len(q) : AskWithin(q[n], F, S)
  BY <1>1 DEF LineWithin
<1>5. PICK h, t : h = Head(q) /\ t = Tail(q)
  OBVIOUS
<1>6. AskWithin(h, F, S) /\ \A n \in 1..Len(t) : AskWithin(t[n], F, S)
  BY <1>3, <1>4, <1>5
<1> QED
  BY <1>2, <1>5, <1>6 DEF LineWithin

LEMMA LineEnqueued ==
    ASSUME StateTypeInv, NEW o \in Asks, Enqueue(o), UNCHANGED op, NEW F, NEW S,
           LineWithin(F, S), AskWithin(o, F, S)
    PROVE  LineWithin(F, S)'
<1>1. queue \in Seq(Asks) /\ queue' = Append(queue, o)
  BY DEF Enqueue, StateTypeInv
<1>2. ASSUME NEW n \in 1..Len(queue') PROVE AskWithin(queue'[n], F, S)
  <2>1. CASE n = Len(queue) + 1
    BY <1>1, <2>1
  <2>2. CASE n # Len(queue) + 1
    <3>1. n \in 1..Len(queue) /\ queue'[n] = queue[n]
      BY <1>1, <2>2
    <3> QED
      BY <3>1 DEF LineWithin
  <2> QED
    BY <2>1, <2>2
<1> QED
  BY <1>2 DEF LineWithin

LEMMA BatchGrows ==
    ASSUME NEW ds \in Seq(Deltas), NEW delta \in Deltas, NEW n \in 1..Len(Append(ds, delta))
    PROVE  \/ n = Len(ds) + 1 /\ Append(ds, delta)[n] = delta
           \/ n \in 1..Len(ds) /\ Append(ds, delta)[n] = ds[n]
  OBVIOUS

\* How a delta joins the line: in a batch of its own, or at the end of the last one.
LEMMA SubmitLast ==
    ASSUME StateTypeInv, NEW delta \in Deltas, Submit(delta)
    PROVE  \E N \in 1..Len(queue'), ds \in Seq(Deltas) :
             /\ Len(queue') = N /\ Len(queue) \in {N - 1, N} /\ queue' \in Seq(Asks)
             /\ \A n \in 1..(N - 1) : queue'[n] = queue[n]
             /\ queue'[N].kind = "deltas" /\ queue'[N].deltas = Append(ds, delta)
             /\ \/ ds = <<>> /\ Len(queue) = N - 1
                \/ Len(queue) = N /\ queue[N].kind = "deltas" /\ queue[N].deltas = ds
<1>1. queue \in Seq(Asks) /\ queue' \in Seq(Asks) /\ Len(queue) \in Nat /\ queue' # <<>>
      /\ queue'[Len(queue')].kind = "deltas"
  <2>1. queue' \in Seq(Asks) /\ queue' # <<>> /\ queue'[Len(queue')].kind = "deltas"
    BY SubmitTyped
  <2> QED
    BY <2>1 DEF StateTypeInv
<1>2. CASE queue' = Append(queue, [kind |-> "deltas", deltas |-> <<delta>>])
  <2>1. PICK o : o = [kind |-> "deltas", deltas |-> <<delta>>]
    OBVIOUS
  <2>2. PICK N : N = Len(queue) + 1
    OBVIOUS
  <2>3. /\ N \in 1..Len(queue') /\ Len(queue') = N /\ Len(queue) = N - 1 /\ queue'[N] = o
        /\ \A n \in 1..(N - 1) : queue'[n] = queue[n]
    BY <1>1, <1>2, <2>1, <2>2
  <2>4. <<>> \in Seq(Deltas) /\ Append(<<>>, delta) = <<delta>>
    OBVIOUS
  <2>5. PICK none \in Seq(Deltas) : none = <<>> /\ Append(none, delta) = <<delta>>
    BY <2>4
  <2>6. queue'[N].kind = "deltas" /\ queue'[N].deltas = Append(none, delta)
    BY <2>1, <2>3, <2>5
  <2> WITNESS N \in 1..Len(queue'), none \in Seq(Deltas)
  <2> QED
    BY <1>1, <2>3, <2>5, <2>6
<1>3. CASE /\ queue # <<>> /\ Len(queue') = Len(queue)
           /\ queue[Len(queue)].kind = "deltas"
           /\ \A n \in 1..(Len(queue) - 1) : queue'[n] = queue[n]
           /\ queue'[Len(queue)].deltas = Append(queue[Len(queue)].deltas, delta)
  <2>1. PICK N \in Nat : N = Len(queue) /\ N > 0
    BY <1>1, <1>3
  <2>2. PICK ds \in Seq(Deltas) : ds = queue[N].deltas
    <3>1. queue[N] \in Asks
      BY <1>1, <2>1
    <3> QED
      BY <1>3, <2>1, <3>1, AskShape
  <2>3. /\ Len(queue') = N /\ queue'[N].kind = "deltas"
        /\ queue'[N].deltas = Append(ds, delta)
        /\ \A n \in 1..(N - 1) : queue'[n] = queue[n]
        /\ queue[N].kind = "deltas"
    BY <1>1, <1>3, <2>1, <2>2
  <2>4. N \in 1..Len(queue')
    BY <2>1, <2>3
  <2> WITNESS N \in 1..Len(queue'), ds \in Seq(Deltas)
  <2> QED
    BY <1>1, <2>1, <2>2, <2>3
<1> QED
  BY <1>2, <1>3, SubmitTyped

LEMMA LineSubmitted ==
    ASSUME StateTypeInv, NEW delta \in Deltas, Submit(delta), UNCHANGED op, NEW F, NEW S,
           LineWithin(F, S), delta \in S
    PROVE  LineWithin(F, S)'
<1>1. PICK N \in 1..Len(queue'), ds \in Seq(Deltas) :
        /\ Len(queue') = N /\ Len(queue) \in {N - 1, N} /\ queue' \in Seq(Asks)
        /\ \A n \in 1..(N - 1) : queue'[n] = queue[n]
        /\ queue'[N].kind = "deltas" /\ queue'[N].deltas = Append(ds, delta)
        /\ \/ ds = <<>> /\ Len(queue) = N - 1
           \/ Len(queue) = N /\ queue[N].kind = "deltas" /\ queue[N].deltas = ds
  BY SubmitLast
<1>2. \A n \in 1..Len(ds) : ds[n] \in S
  <2>1. CASE ds = <<>>
    BY <2>1
  <2>2. CASE Len(queue) = N /\ queue[N].kind = "deltas" /\ queue[N].deltas = ds
    <3>1. AskWithin(queue[N], F, S)
      BY <1>1, <2>2 DEF LineWithin
    <3> QED
      BY <2>2, <3>1 DEF AskWithin
  <2> QED
    BY <1>1, <2>1, <2>2
<1>3. AskWithin(queue'[N], F, S)
  <2>1. \A n \in 1..Len(Append(ds, delta)) : Append(ds, delta)[n] \in S
    BY <1>2, BatchGrows
  <2> QED
    BY <1>1, <2>1 DEF AskWithin
<1>4. ASSUME NEW n \in 1..Len(queue') PROVE AskWithin(queue'[n], F, S)
  <2>1. CASE n = N
    BY <1>3, <2>1
  <2>2. CASE n # N
    <3>1. n \in 1..(N - 1) /\ n \in 1..Len(queue) /\ queue'[n] = queue[n]
      BY <1>1, <2>2
    <3> QED
      BY <3>1 DEF LineWithin
  <2> QED
    BY <2>1, <2>2
<1> QED
  BY <1>4 DEF LineWithin

LEMMA InLineSubmitted ==
    ASSUME StateTypeInv, InLine, NEW delta \in Deltas, Submit(delta), UNCHANGED op,
           LineWithin(UpTo(delta.whole), Agreeing(delta))
    PROVE  InLine'
<1>1. PICK N \in 1..Len(queue'), ds \in Seq(Deltas) :
        /\ Len(queue') = N /\ Len(queue) \in {N - 1, N} /\ queue' \in Seq(Asks)
        /\ \A n \in 1..(N - 1) : queue'[n] = queue[n]
        /\ queue'[N].kind = "deltas" /\ queue'[N].deltas = Append(ds, delta)
        /\ \/ ds = <<>> /\ Len(queue) = N - 1
           \/ Len(queue) = N /\ queue[N].kind = "deltas" /\ queue[N].deltas = ds
  BY SubmitLast
<1>2. PICK last, es : last = queue'[N] /\ es = Append(ds, delta)
  OBVIOUS
<1>3. /\ es = last.deltas /\ last.kind = "deltas"
      /\ \A n \in 1..Len(es) : \/ n = Len(ds) + 1 /\ es[n] = delta
                               \/ n \in 1..Len(ds) /\ es[n] = ds[n]
  BY <1>1, <1>2, BatchGrows
<1>4. ASSUME NEW o, AskWithin(o, UpTo(delta.whole), Agreeing(delta)),
             Len(queue) = N => Follow(o, queue[N])
      PROVE  Follow(o, last)
  <2>1. \A n \in 1..Len(ds) : AskWithin(o, UpTo(ds[n].whole), Agreeing(ds[n]))
    BY <1>1, <1>4 DEF Follow
  <2>2. \A n \in 1..Len(es) : AskWithin(o, UpTo(es[n].whole), Agreeing(es[n]))
    BY <1>3, <1>4, <2>1
  <2> QED
    BY <1>3, <2>2 DEF Follow
<1>5. Batched(last)
  <2>1. \A n \in 1..Len(ds) : \A m \in 1..(n - 1) : ds[m] \in Agreeing(ds[n])
    <3>1. CASE ds = <<>>
      BY <3>1
    <3>2. CASE Len(queue) = N /\ queue[N].kind = "deltas" /\ queue[N].deltas = ds
      BY <1>1, <3>2 DEF InLine, Batched
    <3> QED
      BY <1>1, <3>1, <3>2
  <2>2. \A m \in 1..Len(ds) : ds[m] \in Agreeing(delta)
    <3>1. CASE ds = <<>>
      BY <3>1
    <3>2. CASE Len(queue) = N /\ queue[N].kind = "deltas" /\ queue[N].deltas = ds
      <4>1. AskWithin(queue[N], UpTo(delta.whole), Agreeing(delta))
        BY <1>1, <3>2 DEF LineWithin
      <4> QED
        BY <3>2, <4>1 DEF AskWithin
    <3> QED
      BY <1>1, <3>1, <3>2
  <2>3. ASSUME NEW n \in 1..Len(es), NEW m \in 1..(n - 1) PROVE es[m] \in Agreeing(es[n])
    <3>1. n \in Nat /\ Len(ds) \in Nat /\ Len(es) = Len(ds) + 1
      BY <1>2
    <3>2. m \in 1..Len(ds) /\ m \in 1..Len(es) /\ m # Len(ds) + 1
      BY <3>1
    <3>3. es[m] = ds[m]
      BY <1>3, <3>2
    <3>4. CASE n = Len(ds) + 1 /\ es[n] = delta
      BY <2>2, <3>2, <3>3, <3>4
    <3>5. CASE n \in 1..Len(ds) /\ es[n] = ds[n]
      BY <2>1, <3>3, <3>5
    <3> QED
      BY <1>3, <3>4, <3>5
  <2> QED
    BY <1>3, <2>3 DEF Batched
<1>6. op # Idle => Batched(op.ask) /\ Follow(op.ask, last)
  <2>1. SUFFICES ASSUME op # Idle PROVE Batched(op.ask) /\ Follow(op.ask, last)
    OBVIOUS
  <2>2. AskWithin(op.ask, UpTo(delta.whole), Agreeing(delta))
    BY <2>1 DEF LineWithin
  <2>3. Len(queue) = N => Follow(op.ask, queue[N])
    BY <1>1, <2>1 DEF InLine
  <2> QED
    BY <1>4, <2>1, <2>2, <2>3 DEF InLine
<1>7. ASSUME NEW m \in 1..(N - 1) PROVE Follow(queue[m], last)
  <2>1. m \in 1..Len(queue)
    BY <1>1
  <2>2. AskWithin(queue[m], UpTo(delta.whole), Agreeing(delta))
    BY <2>1 DEF LineWithin
  <2>3. Len(queue) = N => Follow(queue[m], queue[N])
    BY <1>1, <1>7 DEF InLine
  <2> QED
    BY <1>4, <2>2, <2>3
<1>8. ASSUME NEW n \in 1..Len(queue')
      PROVE  /\ Batched(queue'[n]) /\ (op # Idle => Follow(op.ask, queue'[n]))
             /\ \A m \in 1..(n - 1) : Follow(queue'[m], queue'[n])
  <2>1. CASE n = N
    <3>1. \A m \in 1..(N - 1) : queue'[m] = queue[m]
      BY <1>1
    <3> QED
      BY <1>2, <1>5, <1>6, <1>7, <2>1, <3>1
  <2>2. CASE n # N
    <3>1. n \in 1..(N - 1) /\ n \in 1..Len(queue) /\ queue'[n] = queue[n]
      BY <1>1, <2>2
    <3>2. \A m \in 1..(n - 1) : m \in 1..(N - 1) /\ queue'[m] = queue[m]
      BY <1>1, <3>1
    <3> QED
      BY <3>1, <3>2 DEF InLine
  <2> QED
    BY <2>1, <2>2
<1> QED
  BY <1>6, <1>8 DEF InLine

LEMMA InLineEnqueued ==
    ASSUME StateTypeInv, InLine, NEW o \in Asks, o.kind # "deltas", Enqueue(o), UNCHANGED op
    PROVE  InLine'
<1>1. queue \in Seq(Asks) /\ queue' = Append(queue, o)
  BY DEF Enqueue, StateTypeInv
<1>2. Batched(o) /\ \A x : Follow(x, o)
  BY DEF Batched, Follow
<1>3. ASSUME NEW n \in 1..Len(queue')
      PROVE  /\ Batched(queue'[n]) /\ (op # Idle => Follow(op.ask, queue'[n]))
             /\ \A m \in 1..(n - 1) : Follow(queue'[m], queue'[n])
  <2>1. CASE n = Len(queue) + 1
    <3>1. queue'[n] = o
      BY <1>1, <2>1
    <3> QED
      BY <1>2, <3>1
  <2>2. CASE n # Len(queue) + 1
    <3>1. n \in 1..Len(queue) /\ queue'[n] = queue[n] /\ \A m \in 1..(n - 1) : queue'[m] = queue[m]
      BY <1>1, <2>2
    <3> QED
      BY <3>1 DEF InLine
  <2> QED
    BY <2>1, <2>2
<1> QED
  BY <1>3 DEF InLine

LEMMA InLineKept ==
    ASSUME InLine, UNCHANGED queue, op' = Idle \/ (op # Idle /\ op'.ask = op.ask)
    PROVE  InLine'
<1>1. op' # Idle => Batched(op'.ask) /\ \A n \in 1..Len(queue) : Follow(op'.ask, queue[n])
  BY DEF InLine
<1> QED
  BY <1>1 DEF InLine

LEMMA InLineStarts ==
    ASSUME StateTypeInv, InLine, StartOp
    PROVE  InLine'
<1>1. PICK q \in Seq(Asks) : q = queue /\ q # <<>>
  BY DEF StartOp, StateTypeInv
<1>2. op'.ask = Head(q) /\ queue' = Tail(q)
  BY <1>1 DEF StartOp
<1>3. PICK h, t : h = Head(q) /\ t = Tail(q)
  OBVIOUS
<1>4. Len(t) \in Nat /\ h = q[1] /\ 1 \in 1..Len(q) /\ Len(t) = Len(q) - 1
      /\ \A n \in 1..Len(t) : t[n] = q[n + 1] /\ n + 1 \in 1..Len(q)
  BY <1>1, <1>3, HeadTailProperties
<1>5. \A n \in 1..Len(q) : Batched(q[n]) /\ \A m \in 1..(n - 1) : Follow(q[m], q[n])
  BY <1>1 DEF InLine
<1>6. Batched(h)
  BY <1>4, <1>5
<1>7. ASSUME NEW n \in 1..Len(t)
      PROVE  Batched(t[n]) /\ Follow(h, t[n]) /\ \A m \in 1..(n - 1) : Follow(t[m], t[n])
  <2>1. t[n] = q[n + 1] /\ n + 1 \in 1..Len(q) /\ 1 \in 1..((n + 1) - 1)
    BY <1>4
  <2>2. \A m \in 1..(n - 1) : t[m] = q[m + 1] /\ m + 1 \in 1..((n + 1) - 1)
    BY <1>4
  <2> QED
    BY <1>4, <1>5, <2>1, <2>2
<1> QED
  BY <1>2, <1>3, <1>6, <1>7 DEF InLine

LEMMA KnownUpTo ==
    ASSUME NEW w \in State, NEW obj, NEW ds \in Seq(Deltas), NEW t \in State, w \in UpTo(t),
           \A n \in 1..Len(ds) : ds[n].of = obj => ds[n].whole \in UpTo(t)
    PROVE  Known(w, obj, ds) \in UpTo(t)
<1> DEFINE N == Len(ds)
<1>1. PICK k \in [0..N -> State] :
        /\ k[0] = w /\ Known(w, obj, ds) = k[N]
        /\ \A n \in 1..N : k[n] = After(ds[n], k[n - 1], obj)
  BY KnownUnrolled
<1>0. N \in Nat
  OBVIOUS
<1> DEFINE T == {n \in 0..N : k[n] \in UpTo(t)}
<1>2. 0 \in T
  BY <1>0, <1>1
<1>3. ASSUME NEW n \in 1..N, n - 1 \in T PROVE n \in T
  <2>1. n \in 0..N /\ n - 1 \in 0..N
    BY <1>0
  <2>2. PICK x \in State, d \in Deltas, y \in State :
          /\ x = k[n - 1] /\ x \in UpTo(t) /\ d = ds[n] /\ y = k[n] /\ y = After(d, x, obj)
          /\ d.of = obj => d.whole \in UpTo(t)
    BY <1>1, <1>3, <2>1
  <2>3. CASE d.of # obj
    BY <2>1, <2>2, <2>3 DEF After
  <2>4. CASE d.of = obj
    <3>1. y.ver = VerBy(d, x.ver)
      BY <2>2, <2>4 DEF After
    <3>2. \A i \in Items : y.ver[i] \in {d.whole.ver[i], x.ver[i]}
      BY <3>1 DEF VerBy
    <3>3. y \in UpTo(t)
      BY <2>2, <2>4, <3>2 DEF UpTo
    <3> QED
      BY <2>1, <2>2, <3>3
  <2> QED
    BY <2>3, <2>4
<1> HIDE DEF T, N
<1>4. 0..N \subseteq T
  BY <1>0, <1>2, <1>3, Climb
<1>5. N \in T
  BY <1>0, <1>4
<1> QED
  BY <1>1, <1>5 DEF T, N

\* The store and the window make of a batch states that agree, if theirs agreed before it: what
\* a delta of another object changes in the store is newer than what the window knows.
LEMMA BatchStands ==
    ASSUME NEW s \in State, NEW w \in State, NEW obj, NEW ds \in Seq(Deltas), win \in State,
           Stands(w, s),
           \A n \in 1..Len(ds) :
              /\ ds[n].whole \in UpTo(win)
              /\ ds[n].of # obj => w \in UpTo(ds[n].whole)
              /\ \A m \in 1..(n - 1) : ds[m] \in Agreeing(ds[n])
    PROVE  Stands(Known(w, obj, ds), Chain(s, ds)[Len(ds)])
<1> DEFINE N == Len(ds)
           g == Chain(s, ds)
<1>1. /\ N \in Nat /\ g \in [0..N -> State] /\ g[0] = s
      /\ \A n \in 1..N : g[n] = ApplyDelta(g[n - 1], ds[n]) /\ ds[n] \in Deltas
  BY ChainUnrolled
<1>2. PICK k \in [0..N -> State] :
        /\ k[0] = w /\ Known(w, obj, ds) = k[N]
        /\ \A n \in 1..N : k[n] = After(ds[n], k[n - 1], obj)
  BY KnownUnrolled
<1> DEFINE Later(n) == \A j \in (n + 1)..N : ds[j].of # obj => k[n] \in UpTo(ds[j].whole)
           T == {n \in 0..N : Stands(k[n], g[n]) /\ Later(n)}
<1> HIDE DEF g
<1>3. 0 \in T
  <2>1. Stands(k[0], g[0])
    BY <1>1, <1>2
  <2>2. Later(0)
    BY <1>1, <1>2
  <2> QED
    BY <1>1, <2>1, <2>2
<1>4. ASSUME NEW n \in 1..N, n - 1 \in T PROVE n \in T
  <2>1. n \in 0..N /\ n - 1 \in 0..N /\ n \in ((n - 1) + 1)..N
        /\ \A j \in (n + 1)..N : j \in 1..N /\ j \in ((n - 1) + 1)..N /\ n \in 1..(j - 1)
    BY <1>1
  <2>2. PICK x \in State, d \in Deltas, y \in State :
          /\ x = k[n - 1] /\ d = ds[n] /\ y = k[n] /\ y = After(d, x, obj)
    BY <1>1, <1>2, <2>1
  <2>3. PICK a \in State, b \in State : /\ a = g[n - 1] /\ b = g[n] /\ b = ApplyDelta(a, d)
                                        /\ b.ver = VerBy(d, a.ver)
    <3>1. PICK a \in State, b \in State : a = g[n - 1] /\ b = g[n] /\ b = ApplyDelta(a, d)
      BY <1>1, <2>1, <2>2
    <3>2. b.ver = VerBy(d, a.ver)
      BY <3>1, DeltaApplied
    <3> QED
      BY <3>1, <3>2
  <2>4. Stands(x, a) /\ (d.of # obj => x \in UpTo(d.whole)) /\ d.whole \in UpTo(win)
    BY <1>4, <2>1, <2>2, <2>3
  <2>5. Stands(y, b)
    <3>1. SUFFICES ASSUME NEW i \in Items PROVE y.ver[i] = b.ver[i] \/ y.ver[i] < win.ver[i]
      BY DEF Stands
    <3>2. /\ x.ver[i] \in Nat /\ a.ver[i] \in Nat /\ d.whole.ver[i] \in Nat /\ win.ver[i] \in Nat
          /\ d.whole.ver[i] <= win.ver[i]
          /\ x.ver[i] = a.ver[i] \/ x.ver[i] < win.ver[i]
          /\ b.ver[i] = IF i \in d.changed \/ d.whole.ver[i] = 0 THEN d.whole.ver[i] ELSE a.ver[i]
      BY <2>3, <2>4 DEF State, Deltas, Stands, UpTo, VerBy
    <3>3. CASE d.of # obj
      <4>1. y = x /\ x.ver[i] <= d.whole.ver[i]
        BY <2>2, <2>4, <3>3 DEF After, UpTo
      <4> QED
        BY <3>2, <4>1
    <3>4. CASE d.of = obj
      <4>1. y.ver = VerBy(d, x.ver)
        BY <2>2, <3>4 DEF After
      <4>2. y.ver[i] = IF i \in d.changed \/ d.whole.ver[i] = 0 THEN d.whole.ver[i] ELSE x.ver[i]
        BY <4>1 DEF VerBy
      <4> QED
        BY <3>2, <4>2
    <3> QED
      BY <3>3, <3>4
  <2>6. ASSUME NEW j \in (n + 1)..N, ds[j].of # obj PROVE y \in UpTo(ds[j].whole)
    <3>1. PICK e \in Deltas : /\ e = ds[j] /\ x \in UpTo(e.whole) /\ d \in Agreeing(e)
      BY <1>1, <1>4, <2>1, <2>2, <2>6
    <3>2. CASE d.of # obj
      BY <2>2, <3>1, <3>2 DEF After
    <3>3. CASE d.of = obj
      <4>1. d.whole \in UpTo(e.whole)
        BY <2>6, <3>1, <3>3 DEF Agreeing
      <4>2. y.ver = VerBy(d, x.ver)
        BY <2>2, <3>3 DEF After
      <4>3. \A i \in Items : y.ver[i] \in {d.whole.ver[i], x.ver[i]}
        BY <4>2 DEF VerBy
      <4> QED
        BY <2>2, <3>1, <4>1, <4>3 DEF UpTo
    <3> QED
      BY <3>2, <3>3
  <2>7. Later(n)
    BY <2>2, <2>6
  <2> QED
    BY <2>1, <2>2, <2>3, <2>5, <2>7
<1> HIDE DEF T, N
<1>5. 0..N \subseteq T
  BY <1>1, <1>3, <1>4, Climb
<1>6. N \in T
  BY <1>1, <1>5
<1> QED
  BY <1>2, <1>6 DEF T, N, g

LEMMA WithoutOneInOrder ==
    ASSUME NEW S, NEW s \in Seq(S), NEW n \in 1..Len(s)
    PROVE  LET t == SubSeq(s, 1, n - 1) \o SubSeq(s, n + 1, Len(s))
           IN  /\ Len(t) = Len(s) - 1
               /\ \A i \in 1..Len(t) : t[i] = s[IF i < n THEN i ELSE i + 1]
<1>1. PICK N \in Nat : N = Len(s)
  OBVIOUS
<1>2. \A i \in 1..N : s[i] \in S
  BY <1>1
<1>3. PICK a : a = SubSeq(s, 1, n - 1)
  OBVIOUS
<1>4. PICK b : b = SubSeq(s, n + 1, N)
  OBVIOUS
<1>5. a \in Seq(S) /\ Len(a) = n - 1 /\ \A i \in 1..(n - 1) : a[i] = s[i]
  BY <1>1, <1>2, <1>3
<1>6. b \in Seq(S) /\ Len(b) = N - n /\ \A i \in 1..(N - n) : b[i] = s[n + i]
  BY <1>1, <1>2, <1>4
<1>7. PICK t : t = a \o b
  OBVIOUS
<1>8. n - 1 \in Nat /\ N - n \in Nat /\ N \in Nat
  BY <1>1
<1>9. /\ t \in Seq(S) /\ Len(t) = Len(a) + Len(b)
      /\ \A i \in 1..(Len(a) + Len(b)) : t[i] = IF i <= Len(a) THEN a[i] ELSE b[i - Len(a)]
  BY <1>5, <1>6, <1>7, ConcatProperties
<1>10. ASSUME NEW i \in 1..Len(t) PROVE t[i] = s[IF i < n THEN i ELSE i + 1]
  <2>1. CASE i < n
    <3>1. i \in 1..(n - 1) /\ i <= Len(a) /\ i \in 1..(Len(a) + Len(b))
      BY <1>5, <1>6, <1>8, <1>9, <2>1
    <3> QED
      BY <1>5, <1>9, <2>1, <3>1
  <2>2. CASE ~(i < n)
    <3>1. i - (n - 1) \in 1..(N - n) /\ n + (i - (n - 1)) = i + 1 /\ ~(i <= Len(a))
          /\ i \in 1..(Len(a) + Len(b)) /\ i - Len(a) = i - (n - 1)
      BY <1>5, <1>6, <1>8, <1>9, <2>2
    <3>2. t[i] = b[i - (n - 1)]
      BY <1>9, <3>1
    <3>3. t[i] = s[i + 1]
      BY <1>6, <3>1, <3>2
    <3> QED
      BY <2>2, <3>3
  <2> QED
    BY <2>1, <2>2
<1>11. Len(t) = N - 1
  BY <1>5, <1>6, <1>8, <1>9
<1> QED
  BY <1>1, <1>3, <1>4, <1>7, <1>10, <1>11

\* A save that is asked for, or goes on from the lock, keeps the order.
LEMMA OrderedSaves ==
    ASSUME StateTypeInv, Ordered, WindowSaves, ~overtaken'
    PROVE  Ordered'
<1>1. /\ UNCHANGED <<file, op, win, sent, object>> /\ win \in State /\ object \in Nat
      /\ syncing \in Seq(Saves)
  BY DEF WindowSaves, StateTypeInv, onDisk
<1>2. UpTo(win)' = UpTo(win) /\ MadeBy(win, object)' = MadeBy(win, object)
      /\ LaterThan(sent, object)' = LaterThan(sent, object)
  BY <1>1 DEF UpTo, MadeBy, LaterThan
<1>3. win \in UpTo(win) /\ \A t \in State : win \in UpTo(t) => UpTo(win) \subseteq UpTo(t)
  BY <1>1, UpToOrder
<1>4. DescribedInv'
  BY <1>1 DEF Ordered, DescribedInv, Stored, Begun, Stands
<1>5. \* A save with settings waits for the lock.
  ASSUME NEW v \in Saves, syncing' = Append(syncing, v), UNCHANGED queue, Whole(v) = win,
         v.kind = "delta" => v.delta.of = object /\ sent # None
  PROVE  Ordered'
  <2>1. /\ v.kind \in {"full", "delta"} /\ (v.kind = "full" => v.whole = win)
        /\ v.kind = "delta" => /\ v.delta \in MadeBy(win, object) /\ v.delta.whole = win
                               /\ v.delta \in LaterThan(sent, object)
    <3>1. CASE v.kind = "full"
      BY <1>5, <3>1 DEF Whole
    <3>2. CASE v.kind # "full"
      <4>1. v.kind = "delta" /\ v.delta \in Deltas /\ v.delta.whole = win
        BY <1>5, <3>2 DEF Whole, Saves
      <4> QED
        BY <1>1, <1>3, <1>5, <4>1 DEF MadeBy, LaterThan
    <3> QED
      BY <3>1, <3>2
  <2>2. ASSUME NEW n \in 1..Len(syncing')
        PROVE  \/ n = Len(syncing) + 1 /\ syncing'[n] = v
               \/ n \in 1..Len(syncing) /\ syncing'[n] = syncing[n]
    BY <1>1, <1>5
  <2>3. \A F, S : LineWithin(F, S) => LineWithin(F, S)'
    BY <1>1, <1>5 DEF LineWithin
  <2>4. LineWithin(UpTo(win), MadeBy(win, object)) /\ LockWithin(UpTo(win), MadeBy(win, object))
    BY DEF Ordered, Former
  <2>5. Former'
    <3>1. LockWithin(UpTo(win), MadeBy(win, object))'
      BY <1>2, <1>3, <2>1, <2>2, <2>4 DEF LockWithin
    <3>2. LineWithin(UpTo(win), MadeBy(win, object))'
      BY <1>2, <1>5, <1>1, <2>4 DEF LineWithin
    <3> QED
      BY <3>1, <3>2 DEF Former
  <2>6. Outlived'
    <3>1. SUFFICES ASSUME sent # None
                   PROVE  /\ LineWithin(State, LaterThan(sent, object))'
                          /\ LockWithin(State, LaterThan(sent, object))'
      BY <1>1 DEF Outlived
    <3>2. LineWithin(State, LaterThan(sent, object)) /\ LockWithin(State, LaterThan(sent, object))
      BY <3>1 DEF Ordered, Outlived
    <3>3. LineWithin(State, LaterThan(sent, object))'
      BY <1>1, <1>2, <1>5, <3>2 DEF LineWithin
    <3>4. LockWithin(State, LaterThan(sent, object))'
      BY <1>1, <1>2, <2>1, <2>2, <3>2 DEF LockWithin
    <3> QED
      BY <3>3, <3>4
  <2>7. ASSUME NEW n \in 1..Len(syncing'), NEW e, e = syncing'[n]
        PROVE  /\ e.kind = "delta" => LineWithin(UpTo(e.delta.whole), Agreeing(e.delta))'
               /\ \A m \in 1..(n - 1) : Whole(syncing'[m]) \in UpTo(Whole(e))
    <3>1. CASE n = Len(syncing) + 1 /\ syncing'[n] = v
      <4>1. ASSUME v.kind = "delta"
            PROVE  LineWithin(UpTo(v.delta.whole), Agreeing(v.delta))
        <5>1. MadeBy(win, object) \subseteq Agreeing(v.delta) /\ v.delta.whole = win
          BY <2>1, <4>1 DEF MadeBy, Agreeing
        <5> QED
          BY <2>4, <5>1, LineWidens
      <4>2. ASSUME NEW m \in 1..(n - 1) PROVE Whole(syncing'[m]) \in UpTo(Whole(v))
        <5>1. m \in 1..Len(syncing) /\ syncing'[m] = syncing[m] /\ syncing[m] \in Saves
          BY <1>1, <1>5, <3>1
        <5>2. Whole(syncing[m]) \in UpTo(win)
          BY <2>4, <5>1 DEF LockWithin, Whole, MadeBy, Saves
        <5> QED
          BY <1>5, <5>1, <5>2
      <4>3. e.kind = "delta" => LineWithin(UpTo(e.delta.whole), Agreeing(e.delta))'
        BY <2>3, <2>7, <3>1, <4>1
      <4> QED
        BY <2>7, <3>1, <4>2, <4>3
    <3>2. CASE n \in 1..Len(syncing) /\ syncing'[n] = syncing[n]
      <4>1. \A m \in 1..(n - 1) : syncing'[m] = syncing[m]
        BY <1>1, <1>5, <3>2
      <4>2. /\ e.kind = "delta" => LineWithin(UpTo(e.delta.whole), Agreeing(e.delta))
            /\ \A m \in 1..(n - 1) : Whole(syncing[m]) \in UpTo(Whole(e))
        BY <2>7, <3>2 DEF Ordered, Behind
      <4>3. e.kind = "delta" => LineWithin(UpTo(e.delta.whole), Agreeing(e.delta))'
        BY <2>3, <4>2
      <4> QED
        BY <4>1, <4>2, <4>3
    <3> QED
      BY <2>2, <3>1, <3>2
  <2>8. Behind'
    BY <2>7 DEF Behind, LineWithin
  <2>9. InLine'
    BY <1>1, <1>5, InLineKept DEF Ordered
  <2> QED
    BY <1>4, <2>5, <2>6, <2>8, <2>9 DEF Ordered
<1>6. CASE sent = None
  <2>1. FullSave \in Saves /\ Whole(FullSave) = win /\ FullSave.kind = "full"
    BY FullSaveTyped DEF FullSave, Whole
  <2>2. syncing' = Append(syncing, FullSave) /\ UNCHANGED queue
    BY <1>6 DEF WindowSaves
  <2> QED
    BY <1>5, <2>1, <2>2
<1>7. CASE sent # None
  <2>1. PICK delta \in Deltas : delta = [changed |-> Changed(sent), whole |-> win, of |-> object]
    BY <1>7, ChangedTyped DEF StateTypeInv
  <2>2. delta.whole = win /\ delta.of = object
    BY <2>1
  <2>3. CASE Settings \in delta.changed
    <3>1. PICK v : v = [kind |-> "delta", delta |-> delta]
      OBVIOUS
    <3>2. v \in Saves /\ Whole(v) = win /\ v.delta = delta
      BY <2>2, <3>1 DEF Saves, Whole
    <3>3. syncing' = Append(syncing, v) /\ UNCHANGED queue
      BY <1>7, <2>1, <2>3, <3>1 DEF WindowSaves
    <3> QED
      BY <1>5, <1>7, <2>2, <3>2, <3>3
  <2>4. CASE Settings \notin delta.changed
    <3>1. Submit(delta) /\ UNCHANGED syncing /\ ~Overtakes(syncing, object)
      BY <1>7, <2>1, <2>4 DEF WindowSaves
    <3>2. LineWithin(UpTo(win), MadeBy(win, object)) /\ LockWithin(UpTo(win), MadeBy(win, object))
      BY DEF Ordered, Former
    <3>3. delta \in MadeBy(win, object) /\ delta \in LaterThan(sent, object)
      BY <1>1, <1>3, <2>2 DEF MadeBy, LaterThan
    <3>4. Former'
      <4>1. PICK F, S : F = UpTo(win) /\ S = MadeBy(win, object)
        OBVIOUS
      <4>2. LineWithin(F, S)'
        BY <1>1, <3>1, <3>2, <3>3, <4>1, LineSubmitted
      <4>3. F = UpTo(win)' /\ S = MadeBy(win, object)'
        BY <1>2, <4>1
      <4>4. LockWithin(UpTo(win), MadeBy(win, object))'
        BY <1>2, <3>1, <3>2 DEF LockWithin
      <4>5. LineWithin(UpTo(win), MadeBy(win, object))'
        BY <4>2, <4>3 DEF LineWithin
      <4> QED
        BY <4>4, <4>5 DEF Former
    <3>5. Outlived'
      <4>1. PICK S : S = LaterThan(sent, object)
        OBVIOUS
      <4>2. LineWithin(State, S)
        BY <1>7, <4>1 DEF Ordered, Outlived
      <4>3. LineWithin(State, S)'
        BY <1>1, <3>1, <3>3, <4>1, <4>2, LineSubmitted
      <4>4. S = LaterThan(sent, object)'
        BY <1>2, <4>1
      <4>5. LineWithin(State, LaterThan(sent, object))'
        BY <4>3, <4>4 DEF LineWithin
      <4>6. LockWithin(State, LaterThan(sent, object))'
        BY <1>2, <1>7, <3>1 DEF LockWithin, Ordered, Outlived
      <4> QED
        BY <4>5, <4>6 DEF Outlived
    <3>6. Behind'
      <4>1. ASSUME NEW n \in 1..Len(syncing), syncing[n].kind = "delta"
            PROVE  LineWithin(UpTo(syncing[n].delta.whole), Agreeing(syncing[n].delta))'
        <5>1. PICK e \in Deltas : e = syncing[n].delta
          BY <1>1, <4>1 DEF Saves
        <5>2. e.of = object
          BY <1>1, <3>1, <4>1, <5>1 DEF Overtakes
        <5>3. delta \in Agreeing(e)
          BY <2>2, <5>2 DEF Agreeing
        <5>4. LineWithin(UpTo(e.whole), Agreeing(e))
          BY <4>1, <5>1 DEF Ordered, Behind
        <5>5. PICK F, S : F = UpTo(e.whole) /\ S = Agreeing(e)
          OBVIOUS
        <5>6. LineWithin(F, S)'
          BY <1>1, <3>1, <5>3, <5>4, <5>5, LineSubmitted
        <5>7. UNCHANGED syncing
          BY <3>1
        <5>8. UpTo(syncing[n].delta.whole)' = F /\ Agreeing(syncing[n].delta)' = S
          BY <5>1, <5>5, <5>7
        <5> QED
          BY <5>6, <5>8 DEF LineWithin
      <4> QED
        BY <3>1, <4>1 DEF Ordered, Behind
    <3>7. InLine'
      <4>1. MadeBy(win, object) \subseteq Agreeing(delta)
        BY <2>2 DEF MadeBy, Agreeing
      <4>2. LineWithin(UpTo(delta.whole), Agreeing(delta))
        BY <2>2, <3>2, <4>1, LineWidens
      <4> QED
        BY <1>1, <3>1, <4>2, InLineSubmitted DEF Ordered
    <3> QED
      BY <1>4, <3>4, <3>5, <3>6, <3>7 DEF Ordered
  <2> QED
    BY <2>3, <2>4
<1> QED
  BY <1>6, <1>7

LEMMA OrderedLock ==
    ASSUME StateTypeInv, Ordered, SyncDone, ~overtaken'
    PROVE  Ordered'
<1> DEFINE Base(n) == IF syncing[n].kind = "full" THEN None ELSE syncing[n].delta.of
<1>0. PICK n \in DOMAIN syncing :
        /\ syncing' = SubSeq(syncing, 1, n - 1) \o SubSeq(syncing, n + 1, Len(syncing))
        /\ IF syncing[n].kind = "full" THEN Enqueue(syncing[n]) ELSE Submit(syncing[n].delta)
        /\ overtaken' = (overtaken \/ Overtakes(SubSeq(syncing, 1, n - 1), Base(n)))
  BY DEF SyncDone
<1>1. /\ n \in 1..Len(syncing)
      /\ syncing' = SubSeq(syncing, 1, n - 1) \o SubSeq(syncing, n + 1, Len(syncing))
      /\ IF syncing[n].kind = "full" THEN Enqueue(syncing[n]) ELSE Submit(syncing[n].delta)
      /\ ~Overtakes(SubSeq(syncing, 1, n - 1), Base(n))
  <2>1. n \in 1..Len(syncing)
    BY DEF StateTypeInv
  <2> HIDE DEF Base
  <2> QED
    BY <1>0, <2>1
<1>2. /\ UNCHANGED <<file, op, win, sent, object>> /\ win \in State /\ object \in Nat
      /\ syncing \in Seq(Saves)
  BY DEF SyncDone, StateTypeInv, onDisk
<1>3. UpTo(win)' = UpTo(win) /\ MadeBy(win, object)' = MadeBy(win, object)
      /\ LaterThan(sent, object)' = LaterThan(sent, object)
  BY <1>2 DEF UpTo, MadeBy, LaterThan
<1>4. DescribedInv'
  BY <1>2 DEF Ordered, DescribedInv, Stored, Begun, Stands
<1>5. PICK v \in Saves : v = syncing[n]
  BY <1>2
<1> DEFINE Place(i) == IF i < n THEN i ELSE i + 1
<1>6. /\ Len(syncing') = Len(syncing) - 1
      /\ \A i \in 1..Len(syncing') : Place(i) \in 1..Len(syncing) /\ Place(i) # n
                                     /\ syncing'[i] = syncing[Place(i)]
  <2>1. PICK t : t = SubSeq(syncing, 1, n - 1) \o SubSeq(syncing, n + 1, Len(syncing))
    OBVIOUS
  <2>2. Len(t) = Len(syncing) - 1 /\ \A i \in 1..Len(t) : t[i] = syncing[Place(i)]
    BY <1>1, <1>2, <2>1, WithoutOneInOrder
  <2>3. \A i \in 1..Len(t) : Place(i) \in 1..Len(syncing) /\ Place(i) # n
    BY <1>1, <1>2, <2>2
  <2> QED
    BY <1>1, <2>1, <2>2, <2>3
<1>7. \A i \in 1..Len(syncing') : \A m \in 1..(i - 1) :
        m \in 1..Len(syncing') /\ Place(m) \in 1..(Place(i) - 1)
  BY <1>2, <1>6
<1> HIDE DEF Place
\* A delta that stays behind v is of the same object, or is newer.
<1>8. ASSUME NEW j \in 1..Len(syncing), j # n, NEW e, e = syncing[j], e.kind = "delta"
      PROVE  /\ e.delta \in Deltas
             /\ v.kind = "full" => v.whole \in UpTo(e.delta.whole)
             /\ v.kind # "full" => v.delta \in Agreeing(e.delta)
  <2>1. e \in Saves /\ e.delta \in Deltas
    BY <1>2, <1>8 DEF Saves
  <2>2. Whole(e) = e.delta.whole /\ e.delta.of \in Nat
    BY <1>8, <2>1 DEF Whole, Deltas
  <2>3. v.kind # "full" => v.kind = "delta" /\ v.delta \in Deltas
    BY DEF Saves
  <2>4. CASE j > n
    <3>1. n \in 1..(j - 1)
      BY <1>2, <2>4
    <3>2. Whole(v) \in UpTo(Whole(e))
      BY <1>5, <1>8, <3>1 DEF Ordered, Behind
    <3> QED
      BY <2>1, <2>2, <2>3, <3>2 DEF Whole, Agreeing
  <2>5. CASE j < n
    <3>1. PICK w : w = SubSeq(syncing, 1, n - 1)
      OBVIOUS
    <3>2. j \in 1..(n - 1) /\ \A i \in 1..(n - 1) : syncing[i] \in Saves
      BY <1>2, <2>5
    <3>3. j \in DOMAIN w /\ w[j] = e
      BY <1>2, <1>8, <3>1, <3>2
    <3>4. v.kind = "full" => e.delta.of = None
      BY <1>1, <1>5, <1>8, <3>1, <3>3 DEF Overtakes
    <3>5. v.kind # "full" => e.delta.of = v.delta.of
      BY <1>1, <1>5, <1>8, <3>1, <3>3 DEF Overtakes
    <3> QED
      BY <2>1, <2>2, <2>3, <3>4, <3>5, SavedStateAssumption DEF Agreeing
  <2> QED
    BY <1>2, <1>8, <2>4, <2>5
\* The saves that stay, and those in the store, with v.
<1>9. ASSUME NEW F, NEW S, LineWithin(F, S),
             v.kind = "full" => v.whole \in F, v.kind # "full" => v.delta \in S
      PROVE  LineWithin(F, S)'
  <2>1. CASE v.kind = "full"
    <3>1. v \in Asks /\ Enqueue(v) /\ AskWithin(v, F, S)
      BY <1>1, <1>5, <1>9, <2>1 DEF Saves, Asks, AskWithin
    <3> QED
      BY <1>2, <1>9, <3>1, LineEnqueued
  <2>2. CASE v.kind # "full"
    <3>1. PICK delta \in Deltas : delta = v.delta /\ Submit(delta)
      BY <1>1, <1>5, <2>2 DEF Saves
    <3> QED
      BY <1>2, <1>9, <2>2, <3>1, LineSubmitted
  <2> QED
    BY <2>1, <2>2
<1>10. ASSUME NEW F, NEW S, LockWithin(F, S)
       PROVE  /\ LockWithin(F, S)'
              /\ v.kind = "full" => v.whole \in F
              /\ v.kind # "full" => v.delta \in S
  <2>1. \A i \in 1..Len(syncing) : /\ syncing[i].kind = "full" => syncing[i].whole \in F
                                   /\ syncing[i].kind = "delta" => syncing[i].delta \in S
    BY <1>10 DEF LockWithin
  <2>2. v.kind # "full" => v.kind = "delta"
    BY DEF Saves
  <2>3. LockWithin(F, S)'
    BY <1>6, <2>1 DEF LockWithin
  <2> QED
    BY <1>5, <2>1, <2>2, <2>3
<1>11. Former'
  <2>1. PICK F, S : F = UpTo(win) /\ S = MadeBy(win, object)
    OBVIOUS
  <2>2. LineWithin(F, S) /\ LockWithin(F, S)
    BY <2>1 DEF Ordered, Former
  <2>3. LineWithin(F, S)' /\ LockWithin(F, S)'
    BY <1>9, <1>10, <2>2
  <2>4. F = UpTo(win)' /\ S = MadeBy(win, object)'
    BY <1>3, <2>1
  <2> QED
    BY <2>3, <2>4 DEF Former, LineWithin, LockWithin
<1>12. Outlived'
  <2>1. SUFFICES ASSUME sent # None
                 PROVE  /\ LineWithin(State, LaterThan(sent, object))'
                        /\ LockWithin(State, LaterThan(sent, object))'
    BY <1>2 DEF Outlived
  <2>2. PICK S : S = LaterThan(sent, object)
    OBVIOUS
  <2>3. LineWithin(State, S) /\ LockWithin(State, S)
    BY <2>1, <2>2 DEF Ordered, Outlived
  <2>4. LineWithin(State, S)' /\ LockWithin(State, S)'
    BY <1>9, <1>10, <2>3
  <2>5. S = LaterThan(sent, object)'
    BY <1>3, <2>2
  <2> QED
    BY <2>4, <2>5 DEF LineWithin, LockWithin
<1>13. ASSUME NEW i \in 1..Len(syncing'), NEW e, e = syncing'[i]
       PROVE  /\ e.kind = "delta" => LineWithin(UpTo(e.delta.whole), Agreeing(e.delta))'
              /\ \A m \in 1..(i - 1) : Whole(syncing'[m]) \in UpTo(Whole(e))
  <2>1. Place(i) \in 1..Len(syncing) /\ Place(i) # n /\ e = syncing[Place(i)]
    BY <1>6, <1>13
  <2>2. ASSUME e.kind = "delta"
        PROVE  LineWithin(UpTo(e.delta.whole), Agreeing(e.delta))'
    <3>1. LineWithin(UpTo(e.delta.whole), Agreeing(e.delta))
      BY <2>1, <2>2 DEF Ordered, Behind
    <3>2. PICK F, S : F = UpTo(e.delta.whole) /\ S = Agreeing(e.delta)
      OBVIOUS
    <3>3. LineWithin(F, S)'
      BY <1>8, <1>9, <2>1, <2>2, <3>1, <3>2
    <3> QED
      BY <3>2, <3>3
  <2>3. ASSUME NEW m \in 1..(i - 1) PROVE Whole(syncing'[m]) \in UpTo(Whole(e))
    <3>1. syncing'[m] = syncing[Place(m)] /\ Place(m) \in 1..(Place(i) - 1)
      BY <1>6, <1>7
    <3> QED
      BY <2>1, <3>1 DEF Ordered, Behind
  <2> QED
    BY <2>2, <2>3
<1>14. Behind'
  BY <1>13 DEF Behind, LineWithin
<1>15. InLine'
  <2>1. CASE v.kind = "full"
    <3>1. v \in Asks /\ Enqueue(v) /\ v.kind # "deltas"
      BY <1>1, <1>5, <2>1 DEF Saves, Asks
    <3> QED
      BY <1>2, <3>1, InLineEnqueued DEF Ordered
  <2>2. CASE v.kind # "full"
    <3>1. PICK delta \in Deltas : delta = v.delta /\ Submit(delta)
      BY <1>1, <1>5, <2>2 DEF Saves
    <3>2. v.kind = "delta"
      BY <2>2 DEF Saves
    <3>3. LineWithin(UpTo(delta.whole), Agreeing(delta))
      BY <1>5, <3>1, <3>2 DEF Ordered, Behind
    <3> QED
      BY <1>2, <3>1, <3>3, InLineSubmitted DEF Ordered
  <2> QED
    BY <2>1, <2>2
<1> QED
  BY <1>4, <1>11, <1>12, <1>14, <1>15 DEF Ordered

\* Where the line only goes on, what is described is all that has to be looked at.
LEMMA OrderedLine ==
    ASSUME Ordered, UNCHANGED <<win, sent, object, syncing>>, InLine', DescribedInv',
           \A F, S : LineWithin(F, S) => LineWithin(F, S)'
    PROVE  Ordered'
<1>1. ASSUME NEW F, NEW S, LockWithin(F, S) PROVE LockWithin(F, S)'
  BY <1>1 DEF LockWithin
<1>2. Former'
  <2>1. PICK F, S : F = UpTo(win) /\ S = MadeBy(win, object)
    OBVIOUS
  <2>2. LineWithin(F, S)' /\ LockWithin(F, S)'
    BY <1>1, <2>1 DEF Ordered, Former
  <2>3. F = UpTo(win)' /\ S = MadeBy(win, object)'
    BY <2>1 DEF UpTo, MadeBy
  <2> QED
    BY <2>2, <2>3 DEF Former, LineWithin, LockWithin
<1>3. Outlived'
  <2>1. PICK S : S = LaterThan(sent, object)
    OBVIOUS
  <2>2. sent # None => LineWithin(State, S)' /\ LockWithin(State, S)'
    BY <1>1, <2>1 DEF Ordered, Outlived
  <2>3. S = LaterThan(sent, object)'
    BY <2>1 DEF LaterThan
  <2> QED
    BY <2>2, <2>3 DEF Outlived, LineWithin, LockWithin
<1>4. Behind'
  <2>1. ASSUME NEW n \in 1..Len(syncing), NEW e, e = syncing[n]
        PROVE  /\ e.kind = "delta" => LineWithin(UpTo(e.delta.whole), Agreeing(e.delta))'
               /\ \A m \in 1..(n - 1) : Whole(syncing[m]) \in UpTo(Whole(e))
    <3>1. /\ e.kind = "delta" => LineWithin(UpTo(e.delta.whole), Agreeing(e.delta))
          /\ \A m \in 1..(n - 1) : Whole(syncing[m]) \in UpTo(Whole(e))
      BY <2>1 DEF Ordered, Behind
    <3> QED
      BY <3>1
  <2> QED
    BY <2>1 DEF Behind, LineWithin
<1> QED
  BY <1>2, <1>3, <1>4 DEF Ordered

LEMMA OrderedFrame ==
    ASSUME Ordered, UNCHANGED <<win, sent, object, syncing>>, DescribedInv',
           UNCHANGED queue, op' = Idle \/ (op # Idle /\ op'.ask = op.ask)
    PROVE  Ordered'
<1>1. \A F, S : LineWithin(F, S) => LineWithin(F, S)'
  BY LineKept
<1>2. InLine'
  BY InLineKept DEF Ordered
<1> QED
  BY <1>1, <1>2, OrderedLine

LEMMA OrderedEnqueued ==
    ASSUME StateTypeInv, Ordered, NEW o \in Asks, InPlace(o), Enqueue(o),
           UNCHANGED <<file, op, win, sent, object, syncing>>
    PROVE  Ordered'
<1>1. o.kind \notin {"full", "deltas"}
  BY DEF InPlace
<1>2. \A F, S : LineWithin(F, S) => LineWithin(F, S)'
  <2>1. \A F, S : AskWithin(o, F, S)
    BY <1>1 DEF AskWithin
  <2> QED
    BY <2>1, LineEnqueued
<1>3. InLine'
  BY <1>1, InLineEnqueued DEF Ordered
<1>4. DescribedInv'
  BY DEF Ordered, DescribedInv, Stored, Begun, Stands
<1> QED
  BY <1>2, <1>3, <1>4, OrderedLine

LEMMA OrderedStarts ==
    ASSUME StateTypeInv, Ordered, StartOp
    PROVE  Ordered'
<1>1. UNCHANGED <<win, sent, object, syncing, file>> /\ op = Idle /\ op'.at = "load"
  BY DEF StartOp, window, onDisk
<1>2. \A F, S : LineWithin(F, S) => LineWithin(F, S)'
  BY LineStarts
<1>3. InLine'
  BY InLineStarts DEF Ordered
<1>4. DescribedInv'
  BY <1>1 DEF Ordered, DescribedInv, Stored, Begun, Stands, Idle
<1> QED
  BY <1>1, <1>2, <1>3, <1>4, OrderedLine

\* The window edits its copy: what was older stays older.
LEMMA OrderedEdits ==
    ASSUME StateTypeInv, StateTypeInv', Ordered, NEW i \in Items, WindowEdits(i)
    PROVE  Ordered'
<1>1. /\ UNCHANGED <<file, op, sent, object, syncing, queue>>
      /\ win' = [win EXCEPT !.ver[i] = @ + 1] /\ win \in State /\ win' \in State
  BY DEF WindowEdits, StateTypeInv, onDisk
<1>2. \A j \in Items : /\ win.ver[j] \in Nat /\ win'.ver[j] \in Nat /\ win.ver[j] <= win'.ver[j]
  BY <1>1 DEF State
<1>3. win \in UpTo(win') /\ UpTo(win) \subseteq UpTo(win')
  <2>1. win \in UpTo(win')
    BY <1>1, <1>2 DEF UpTo
  <2> QED
    BY <1>1, <2>1, UpToOrder
<1>4. Former'
  <2>1. PICK F, S, F2, S2 : /\ F = UpTo(win) /\ S = MadeBy(win, object)
                            /\ F2 = UpTo(win') /\ S2 = MadeBy(win', object)
    OBVIOUS
  <2>2. F \subseteq F2 /\ S \subseteq S2
    BY <1>3, <2>1 DEF MadeBy
  <2>3. LineWithin(F, S) /\ LockWithin(F, S)
    BY <2>1 DEF Ordered, Former
  <2>4. LineWithin(F2, S2) /\ LockWithin(F2, S2)
    BY <2>2, <2>3, LineWidens
  <2>5. F2 = UpTo(win)' /\ S2 = MadeBy(win, object)'
    BY <1>1, <2>1 DEF UpTo, MadeBy
  <2> QED
    BY <1>1, <2>4, <2>5 DEF Former, LineWithin, LockWithin
<1>5. Outlived' /\ Behind' /\ InLine'
  BY <1>1 DEF Ordered, Outlived, Behind, InLine, LineWithin, LockWithin, LaterThan
<1>6. ASSUME NEW k, NEW s, Stands(k, s), k \in State PROVE Stands(k, s)'
  <2>1. SUFFICES ASSUME NEW j \in Items PROVE k.ver[j] = s.ver[j] \/ k.ver[j] < win'.ver[j]
    BY DEF Stands
  <2>2. k.ver[j] \in Nat /\ (k.ver[j] = s.ver[j] \/ k.ver[j] < win.ver[j])
    BY <1>6 DEF Stands, State
  <2> QED
    BY <1>2, <2>2
<1>7. DescribedInv'
  <2>1. SUFFICES ASSUME sent # None
                 PROVE  DescribedInv'
    BY <1>1 DEF DescribedInv
  <2>2. PICK w \in State : w = sent
    BY <2>1 DEF StateTypeInv
  <2>3. ~(Stored /\ ~InPlace(op.ask)) => Stands(sent, file.content)'
    BY <1>1, <1>6, <2>1, <2>2 DEF Ordered, DescribedInv
  <2>4. (Begun \/ Stored) /\ op.ask.kind = "deltas" =>
           Stands(Known(sent, object, op.ask.deltas), op.state)'
    <3>1. SUFFICES ASSUME Begun \/ Stored, op.ask.kind = "deltas"
                   PROVE  Stands(Known(sent, object, op.ask.deltas), op.state)'
      OBVIOUS
    <3>2. PICK ds \in Seq(Deltas) : ds = op.ask.deltas
      <4>1. op.ask \in Asks
        BY <3>1, OpShape DEF StateTypeInv, Begun, Stored, Idle
      <4> QED
        BY <3>1, <4>1, AskShape
    <3>3. PICK k \in State : k = Known(w, object, ds)
      BY KnownFrom
    <3>4. Stands(k, op.state)
      BY <2>1, <2>2, <3>1, <3>2, <3>3 DEF Ordered, DescribedInv
    <3>5. Stands(k, op.state)'
      <4>1. PICK s : s = op.state
        OBVIOUS
      <4>2. Stands(k, s)'
        BY <1>6, <3>4, <4>1
      <4> QED
        BY <1>1, <4>1, <4>2 DEF Stands
    <3>6. Known(sent, object, op.ask.deltas)' = k
      BY <1>1, <2>2, <3>2, <3>3 DEF Known
    <3> QED
      BY <3>5, <3>6 DEF Stands
  <2> QED
    BY <1>1, <2>3, <2>4 DEF DescribedInv, Stored, Begun
<1> QED
  BY <1>4, <1>5, <1>7 DEF Ordered

LEMMA OrderedFound ==
    ASSUME StateTypeInv, Kept, Ordered, NEW s \in State \cup {None}, NEW held, Found(s, held),
           s # None => /\ file # None /\ s.ver = file.content.ver
    PROVE  Ordered'
<1>1. UNCHANGED <<file, queue, win, sent, object, syncing>>
  BY DEF Found, window
<1>2. op' = op \/ (op.at = "load" /\ op'.ask = op.ask)
  BY FoundOp DEF Found
<1>3. DescribedInv'
  <2>1. CASE op.at # "load"
    <3>1. op' = op
      BY <2>1 DEF Found
    <3> QED
      BY <1>1, <3>1 DEF Ordered, DescribedInv, Stored, Begun, Stands
  <2>2. CASE op.at = "load" /\ sent # None
    <3>1. PICK o \in Asks : o = op.ask /\ op'.ask = o
      BY <2>2, FoundOp
    <3>2. /\ Reply(s, o) = "ok" => op'.at = "write" /\ op'.state = Outcome(s, o)
          /\ Reply(s, o) # "ok" => op'.at = "answer" /\ op'.reply # "ok"
      BY <2>2, <3>1, FoundOp
    <3>3. Stands(sent, file.content)
      BY <2>2 DEF Ordered, DescribedInv, Stored
    <3>4. ASSUME Reply(s, o) = "ok", o.kind = "deltas"
          PROVE  Stands(Known(sent, object, o.deltas), Outcome(s, o))
      <4>1. PICK ds \in Seq(Deltas) : ds = o.deltas
        BY <3>4, AskShape
      <4>2. s \in State /\ s # None /\ file # None
        BY <3>4, ReplySays, SavedStateAssumption
      <4>3. PICK w \in State : w = sent
        BY <2>2 DEF StateTypeInv
      <4>4. Stands(w, s)
        BY <3>3, <4>2, <4>3 DEF Stands
      <4>5. op # Idle /\ win \in State
        BY <2>2 DEF StateTypeInv, Idle
      <4>6. ASSUME NEW n \in 1..Len(ds)
            PROVE  /\ ds[n].whole \in UpTo(win)
                   /\ ds[n].of # object => w \in UpTo(ds[n].whole)
                   /\ \A m \in 1..(n - 1) : ds[m] \in Agreeing(ds[n])
        <5>1. AskWithin(o, UpTo(win), MadeBy(win, object))
              /\ AskWithin(o, State, LaterThan(sent, object)) /\ Batched(o)
          BY <2>2, <3>1, <4>5 DEF Ordered, Former, Outlived, LineWithin, InLine
        <5>2. ds[n] \in MadeBy(win, object) /\ ds[n] \in LaterThan(w, object)
          BY <3>4, <4>1, <4>3, <5>1 DEF AskWithin
        <5>3. \A m \in 1..(n - 1) : ds[m] \in Agreeing(ds[n])
          BY <3>4, <4>1, <5>1 DEF Batched
        <5> QED
          BY <5>2, <5>3 DEF MadeBy, LaterThan
      <4>7. Stands(Known(w, object, ds), Chain(s, ds)[Len(ds)])
        BY <4>2, <4>4, <4>5, <4>6, BatchStands
      <4>8. Outcome(s, o) = Chain(s, ds)[Len(ds)]
        BY <3>4, <4>1 DEF Outcome
      <4> QED
        BY <4>1, <4>3, <4>7, <4>8
    <3>5. Stands(sent, file.content)'
      BY <1>1, <3>3 DEF Stands
    <3>6. (Begun \/ Stored)' /\ op'.ask.kind = "deltas" => Reply(s, o) = "ok"
      BY <3>2 DEF Begun, Stored
    <3>7. (Begun \/ Stored)' /\ op'.ask.kind = "deltas" =>
             Stands(Known(sent, object, op.ask.deltas), op.state)'
      <4>1. SUFFICES ASSUME (Begun \/ Stored)', op'.ask.kind = "deltas"
                     PROVE  Stands(Known(sent, object, op.ask.deltas), op.state)'
        OBVIOUS
      <4>2. PICK k, t : k = Known(sent, object, o.deltas) /\ t = Outcome(s, o) /\ Stands(k, t)
        BY <3>1, <3>4, <3>6, <4>1
      <4>3. op'.state = t /\ Known(sent, object, op.ask.deltas)' = k
        BY <1>1, <3>1, <3>2, <3>6, <4>1, <4>2 DEF Known
      <4> QED
        BY <1>1, <4>2, <4>3 DEF Stands
    <3> QED
      BY <3>5, <3>7 DEF DescribedInv
  <2>3. CASE sent = None
    BY <1>1, <2>3 DEF DescribedInv
  <2> QED
    BY <2>1, <2>2, <2>3
<1>4. op' = Idle \/ (op # Idle /\ op'.ask = op.ask)
  BY <1>2 DEF Idle
<1> QED
  BY <1>1, <1>3, <1>4, OrderedFrame

LEMMA OrderedLoading ==
    ASSUME StateTypeInv, Kept, Ordered, LoadCheck \/ LoadParse
    PROVE  Ordered'
<1>1. CASE UNCHANGED <<file, queue, op, win, sent, object, syncing>>
  <2>1. DescribedInv'
    BY <1>1 DEF Ordered, DescribedInv, Stored, Begun, Stands
  <2> QED
    BY <1>1, <2>1, OrderedFrame
<1>2. CASE LoadCheck
  <2>1. load.at = "stamped" /\ op.at # "published"
    BY <1>2 DEF LoadCheck, Publishing
  <2>2. CASE load.revision = revision /\ load.stamp # None /\ cache # None
              /\ cache.stamp = load.stamp
    <3>1. PICK s \in State : s = cache.content
      BY <2>2 DEF StateTypeInv, Stamped
    <3>2. Found(s, cache)
      BY <1>2, <2>2, <3>1 DEF LoadCheck
    <3>3. load.stamp = Stamp
      BY <2>1, <2>2 DEF Kept, LoadInv
    <3>4. file # None /\ s.ver = file.content.ver
      BY <2>2, <3>1, <3>3 DEF Stamp, Kept, CacheInv
    <3> QED
      BY <3>1, <3>2, <3>4, OrderedFound
  <2>3. CASE ~(load.revision = revision /\ load.stamp # None /\ cache # None
               /\ cache.stamp = load.stamp)
    BY <1>1, <1>2, <2>3 DEF LoadCheck, onDisk, window
  <2> QED
    BY <2>2, <2>3
<1>3. CASE LoadParse
  <2>1. CASE load.stamp = None \/ file = None
    BY <1>3, <2>1, OrderedFound DEF LoadParse
  <2>2. CASE ~(load.stamp = None \/ file = None)
    <3>1. PICK s \in State : s = file.content
      BY <2>2 DEF StateTypeInv, Stamped
    <3>2. PICK held : held = [content |-> s, stamp |-> load.stamp]
      OBVIOUS
    <3>3. Found(s, held)
      BY <1>3, <2>2, <3>1, <3>2 DEF LoadParse
    <3> QED
      BY <2>2, <3>1, <3>3, OrderedFound
  <2> QED
    BY <2>1, <2>2
<1> QED
  BY <1>2, <1>3

LEMMA OrderedWriting ==
    ASSUME StateTypeInv, Kept, Ordered, WriteTemp \/ WriteFails \/ Published \/ Rename
    PROVE  Ordered'
<1>1. UNCHANGED <<queue, win, sent, object, syncing>>
  BY DEF WriteTemp, WriteFails, Published, Rename, onDisk, window
<1>2. /\ op # Idle /\ op'.ask = op.ask
      /\ op \in [at : {"write", "rename", "published"}, ask : Asks, state : State, reply : {"ok"}]
  BY OpShape DEF WriteTemp, WriteFails, Published, Rename, StateTypeInv, Idle
<1>3. ASSUME UNCHANGED file, op'.state = op.state, Begun \/ Stored, (Stored <=> Stored')
      PROVE  DescribedInv'
  <2>1. InPlace(op.ask)' <=> InPlace(op.ask)
    BY <1>2 DEF InPlace
  <2>2. ASSUME sent # None, op.ask.kind = "deltas"
        PROVE  Stands(Known(sent, object, op.ask.deltas), op.state)'
    <3>1. Stands(Known(sent, object, op.ask.deltas), op.state)
      BY <1>3, <2>2 DEF Ordered, DescribedInv
    <3>2. Known(sent, object, op.ask.deltas)' = Known(sent, object, op.ask.deltas)
      BY <1>1, <1>2 DEF Known
    <3> QED
      BY <1>1, <1>3, <3>1, <3>2 DEF Stands
  <2>3. ASSUME sent # None, ~(Stored' /\ ~InPlace(op.ask)')
        PROVE  Stands(sent, file.content)'
    BY <1>1, <1>3, <2>1, <2>3 DEF Ordered, DescribedInv, Stands
  <2> QED
    BY <1>1, <1>2, <2>2, <2>3 DEF DescribedInv
<1>4. CASE WriteTemp
  <2>1. op.at = "write" /\ Written = op.state
    BY <1>4 DEF WriteTemp, Written, Kept, OpInv
  <2>2. op' = [op EXCEPT !.at = "rename", !.state = op.state]
    BY <1>4, <2>1 DEF WriteTemp
  <2>3. op'.at = "rename" /\ op'.state = op.state
    BY <1>2, <2>2
  <2>4. Begun /\ ~Stored /\ ~Stored'
    BY <2>1, <2>3 DEF Begun, Stored
  <2>5. UNCHANGED file
    BY <1>4 DEF WriteTemp, onDisk
  <2>6. DescribedInv'
    BY <1>3, <2>3, <2>4, <2>5
  <2> QED
    BY <1>1, <1>2, <2>6, OrderedFrame
<1>5. CASE Published
  <2>1. op.at = "published" /\ op' = [op EXCEPT !.at = "answer"] /\ UNCHANGED file
    BY <1>5 DEF Published
  <2>2. op'.at = "answer" /\ op'.state = op.state /\ op'.reply = "ok"
    BY <1>2, <2>1
  <2>3. Stored /\ Stored'
    BY <2>1, <2>2 DEF Stored
  <2>4. DescribedInv'
    BY <1>3, <2>1, <2>2, <2>3
  <2> QED
    BY <1>1, <1>2, <2>4, OrderedFrame
<1>6. CASE WriteFails
  <2>1. /\ op.at \in {"write", "rename"} /\ UNCHANGED file
        /\ op' = [op EXCEPT !.at = "answer", !.reply = "error"]
    BY <1>6 DEF WriteFails
  <2>2. op'.at = "answer" /\ op'.reply = "error"
    BY <1>2, <2>1
  <2>3. DescribedInv'
    BY <1>1, <2>1, <2>2 DEF Ordered, DescribedInv, Stored, Begun, Stands
  <2> QED
    BY <1>1, <1>2, <2>3, OrderedFrame
<1>7. CASE Rename
  <2>1. op.at = "rename" /\ op' = [op EXCEPT !.at = "published"]
    BY <1>7 DEF Rename
  <2>2. op'.at = "published" /\ op'.state = op.state /\ op.state \in State
    BY <1>2, <2>1
  <2>3. file'.content = op.state
    BY <1>7 DEF Rename
  <2>4. Begun /\ ~Stored /\ Stored'
    BY <2>1, <2>2 DEF Begun, Stored
  <2>5. ASSUME sent # None, op.ask.kind = "deltas"
        PROVE  Stands(Known(sent, object, op.ask.deltas), op.state)'
    <3>1. Stands(Known(sent, object, op.ask.deltas), op.state)
      BY <2>4, <2>5 DEF Ordered, DescribedInv
    <3>2. Known(sent, object, op.ask.deltas)' = Known(sent, object, op.ask.deltas)
      BY <1>1, <1>2 DEF Known
    <3> QED
      BY <1>1, <2>2, <3>1, <3>2 DEF Stands
  <2>6. ASSUME sent # None, InPlace(op.ask)
        PROVE  Stands(sent, file.content)'
    <3>1. Stands(sent, file.content)
      BY <2>4, <2>6 DEF Ordered, DescribedInv
    <3>2. op.state.ver = file.content.ver
      BY <2>4, <2>6 DEF Kept, OpInv, Serves
    <3> QED
      BY <1>1, <2>3, <3>1, <3>2 DEF Stands
  <2>7. InPlace(op.ask)' <=> InPlace(op.ask)
    BY <1>2 DEF InPlace
  <2>8. DescribedInv'
    BY <1>1, <1>2, <2>4, <2>5, <2>6, <2>7 DEF DescribedInv
  <2> QED
    BY <1>1, <1>2, <2>8, OrderedFrame
<1> QED
  BY <1>4, <1>5, <1>6, <1>7

\* An answer leaves the line, and what it describes is older than the deltas of the objects
\* that it leaves behind.
LEMMA OrderedAnswer ==
    ASSUME StateTypeInv, StateTypeInv', Kept, Ordered, Answer
    PROVE  Ordered'
<1>1. /\ op.at = "answer" /\ op # Idle /\ op' = Idle /\ op'.at = "idle"
      /\ UNCHANGED <<file, queue>> /\ WindowHears(op.ask, op.reply)
  BY DEF Answer, onDisk, Idle
<1>2. /\ op.ask \in Asks /\ win \in State /\ win' \in State /\ sent \in State \cup {None}
      /\ object \in Nat /\ syncing \in Seq(Saves)
  BY <1>1, OpShape DEF StateTypeInv
<1>3. ~Begun' /\ ~Stored'
  BY <1>1 DEF Begun, Stored
<1>4. ASSUME NEW F, NEW S, LineWithin(F, S)
      PROVE  LineWithin(F, S)' /\ AskWithin(op.ask, F, S)
  BY <1>1, <1>4 DEF LineWithin
<1>5. InLine'
  BY <1>1, InLineKept DEF Ordered
\* Only what the window takes for described, or its turns, have changed.
<1>6. ASSUME UNCHANGED syncing, win'.ver = win.ver, object' \in {object, object + 1},
             sent' # None => Stands(sent', file.content),
             NEW L, L = LaterThan(sent', object'),
             sent' # None => LineWithin(State, L)' /\ LockWithin(State, L)
      PROVE  Ordered'
  <2>1. UpTo(win') = UpTo(win) /\ MadeBy(win, object) \subseteq MadeBy(win', object')
    <3>1. UpTo(win') = UpTo(win)
      BY <1>6 DEF UpTo
    <3>2. \A d \in Deltas : d.of \in Nat
      BY DEF Deltas
    <3> QED
      BY <1>2, <1>6, <3>1, <3>2 DEF MadeBy
  <2>2. Former'
    <3>1. PICK F, S : F = UpTo(win') /\ S = MadeBy(win', object')
      OBVIOUS
    <3>2. LineWithin(F, S) /\ LockWithin(F, S)
      BY <2>1, <3>1, LineWidens DEF Ordered, Former
    <3>3. LineWithin(F, S)' /\ LockWithin(F, S)'
      BY <1>4, <1>6, <3>2 DEF LockWithin
    <3>4. F = UpTo(win)' /\ S = MadeBy(win, object)'
      BY <3>1 DEF UpTo, MadeBy
    <3> QED
      BY <3>3, <3>4 DEF Former, LineWithin, LockWithin
  <2>3. Outlived'
    <3>1. sent' # None => LineWithin(State, L)' /\ LockWithin(State, L)'
      BY <1>6 DEF LockWithin
    <3>2. L = LaterThan(sent, object)'
      BY <1>6 DEF LaterThan
    <3> QED
      BY <3>1, <3>2 DEF Outlived, LineWithin, LockWithin
  <2>4. Behind'
    <3>1. ASSUME NEW n \in 1..Len(syncing), NEW e, e = syncing[n]
          PROVE  /\ e.kind = "delta" => LineWithin(UpTo(e.delta.whole), Agreeing(e.delta))'
                 /\ \A m \in 1..(n - 1) : Whole(syncing[m]) \in UpTo(Whole(e))
      <4>1. /\ e.kind = "delta" => LineWithin(UpTo(e.delta.whole), Agreeing(e.delta))
            /\ \A m \in 1..(n - 1) : Whole(syncing[m]) \in UpTo(Whole(e))
        BY <3>1 DEF Ordered, Behind
      <4> QED
        BY <1>4, <4>1
    <3> QED
      BY <1>6, <3>1 DEF Behind, LineWithin
  <2>5. DescribedInv'
    <3>1. sent' # None => Stands(sent, file.content)'
      BY <1>1, <1>6 DEF Stands
    <3> QED
      BY <1>3, <3>1 DEF DescribedInv
  <2> QED
    BY <1>5, <2>2, <2>3, <2>4, <2>5 DEF Ordered
<1>7. CASE op.reply = "ok" /\ op.ask.kind = "full"
  <2>1. PICK w \in State : w = op.ask.whole /\ sent' = w
    BY <1>1, <1>2, <1>7, AskShape DEF WindowHears
  <2>2. object' = object + 1 /\ UNCHANGED <<win, syncing>>
    BY <1>1, <1>7 DEF WindowHears
  <2>3. Stands(w, file.content)
    <3>1. Stored
      BY <1>1, <1>7 DEF Stored
    <3>2. file.content = op.state /\ op.state.ver = w.ver
      BY <1>7, <2>1, <3>1 DEF Kept, OpInv, Serves
    <3> QED
      BY <3>2 DEF Stands
  <2>0. PICK L : L = LaterThan(w, object')
    OBVIOUS
  <2>4. LineWithin(State, L)'
    <3>1. ASSUME NEW n \in 1..Len(queue), NEW o, o = queue[n]
          PROVE  AskWithin(o, State, L)
      <4>1. o \in Asks
        BY <3>1 DEF StateTypeInv
      <4>2. Follow(op.ask, o)
        BY <1>1, <3>1 DEF Ordered, InLine
      <4>3. ASSUME o.kind = "deltas", NEW m \in 1..Len(o.deltas)
            PROVE  o.deltas[m] \in L
        <5>1. PICK d \in Deltas : d = o.deltas[m]
          BY <4>1, <4>3, AskShape
        <5>2. AskWithin(op.ask, UpTo(d.whole), Agreeing(d))
          BY <4>2, <4>3, <5>1 DEF Follow
        <5>3. w \in UpTo(d.whole)
          BY <1>7, <2>1, <5>2 DEF AskWithin
        <5> QED
          BY <2>0, <5>1, <5>3 DEF LaterThan
      <4> QED
        BY <4>1, <4>3, AskShape DEF AskWithin
    <3> QED
      BY <1>1, <3>1 DEF LineWithin
  <2>5. LockWithin(State, L)
    <3>1. ASSUME NEW n \in 1..Len(syncing)
          PROVE  /\ syncing[n].kind = "full" => syncing[n].whole \in State
                 /\ syncing[n].kind = "delta" => syncing[n].delta \in L
      <4>1. syncing[n] \in Saves
        BY <1>2
      <4>2. ASSUME syncing[n].kind = "delta"
            PROVE  syncing[n].delta \in L
        <5>1. PICK d \in Deltas : d = syncing[n].delta
          BY <4>1, <4>2 DEF Saves
        <5>2. LineWithin(UpTo(d.whole), Agreeing(d))
          BY <4>2, <5>1 DEF Ordered, Behind
        <5>3. AskWithin(op.ask, UpTo(d.whole), Agreeing(d))
          BY <1>4, <5>2
        <5>4. w \in UpTo(d.whole)
          BY <1>7, <2>1, <5>3 DEF AskWithin
        <5> QED
          BY <2>0, <5>1, <5>4 DEF LaterThan
      <4> QED
        BY <4>1, <4>2 DEF Saves
    <3> QED
      BY <3>1 DEF LockWithin
  <2>6. L = LaterThan(sent', object')
    BY <2>0, <2>1
  <2> QED
    BY <1>6, <2>1, <2>2, <2>3, <2>4, <2>5, <2>6
<1>8. CASE op.reply = "ok" /\ op.ask.kind = "deltas"
  <2>1. PICK ds \in Seq(Deltas) : ds = op.ask.deltas
    BY <1>2, <1>8, AskShape
  <2>2. /\ sent' = IF sent = None THEN None ELSE Described(ds)
        /\ UNCHANGED <<win, object, syncing>>
    BY <1>1, <1>8, <2>1 DEF WindowHears
  <2>3. CASE sent = None
    <3>1. sent' = None
      BY <2>2, <2>3
    <3>2. PICK L : L = LaterThan(sent', object')
      OBVIOUS
    <3> QED
      BY <1>6, <2>2, <3>1, <3>2
  <2>4. CASE sent # None
    <3>1. PICK w \in State : w = sent
      BY <1>2, <2>4
    <3>2. PICK k \in State : k = Known(w, object, ds) /\ sent' = k
      BY <2>2, <2>4, <3>1, KnownFrom, DescribedKnown
    <3>3. Stands(k, file.content)
      <4>1. Stored
        BY <1>1, <1>8 DEF Stored
      <4>2. file.content = op.state
        BY <4>1 DEF Kept, OpInv
      <4> QED
        BY <1>8, <2>1, <2>4, <3>1, <3>2, <4>1, <4>2 DEF Ordered, DescribedInv
    <3>4. ASSUME NEW d \in Deltas, d.of # object, w \in UpTo(d.whole),
                 AskWithin(op.ask, UpTo(d.whole), Agreeing(d))
          PROVE  k \in UpTo(d.whole)
      <4>1. d.whole \in State
        BY DEF Deltas
      <4>2. \A n \in 1..Len(ds) : ds[n].of = object => ds[n].whole \in UpTo(d.whole)
        BY <1>8, <2>1, <3>4 DEF AskWithin, Agreeing
      <4> QED
        BY <3>2, <3>4, <4>1, <4>2, KnownUpTo
    <3>0. PICK L : L = LaterThan(k, object)
      OBVIOUS
    <3>5. LineWithin(State, L)'
      <4>1. ASSUME NEW n \in 1..Len(queue), NEW o, o = queue[n]
            PROVE  AskWithin(o, State, LaterThan(k, object))
        <5>1. o \in Asks
          BY <4>1 DEF StateTypeInv
        <5>2. Follow(op.ask, o) /\ AskWithin(o, State, LaterThan(w, object))
          BY <1>1, <2>4, <3>1, <4>1 DEF Ordered, InLine, Outlived, LineWithin
        <5>3. ASSUME o.kind = "deltas", NEW m \in 1..Len(o.deltas)
              PROVE  o.deltas[m] \in LaterThan(k, object)
          <6>1. PICK d \in Deltas : d = o.deltas[m]
            BY <5>1, <5>3, AskShape
          <6>2. AskWithin(op.ask, UpTo(d.whole), Agreeing(d)) /\ d \in LaterThan(w, object)
            BY <5>2, <5>3, <6>1 DEF Follow, AskWithin
          <6> QED
            BY <3>4, <6>1, <6>2 DEF LaterThan
        <5> QED
          BY <5>1, <5>3, AskShape DEF AskWithin
      <4> QED
        BY <1>1, <3>0, <4>1 DEF LineWithin
    <3>6. LockWithin(State, L)
      <4>1. ASSUME NEW n \in 1..Len(syncing)
            PROVE  /\ syncing[n].kind = "full" => syncing[n].whole \in State
                   /\ syncing[n].kind = "delta" => syncing[n].delta \in L
        <5>1. syncing[n] \in Saves
          BY <1>2
        <5>2. ASSUME syncing[n].kind = "delta"
              PROVE  syncing[n].delta \in L
          <6>1. PICK d \in Deltas : d = syncing[n].delta
            BY <5>1, <5>2 DEF Saves
          <6>2. LineWithin(UpTo(d.whole), Agreeing(d)) /\ d \in LaterThan(w, object)
            BY <2>4, <3>1, <5>2, <6>1 DEF Ordered, Behind, Outlived, LockWithin
          <6>3. AskWithin(op.ask, UpTo(d.whole), Agreeing(d))
            BY <1>4, <6>2
          <6>4. d.of # object => w \in UpTo(d.whole)
            BY <6>2 DEF LaterThan
          <6>5. d.of # object => k \in UpTo(d.whole)
            BY <3>4, <6>3, <6>4
          <6> QED
            BY <3>0, <6>1, <6>5 DEF LaterThan
        <5> QED
          BY <5>1, <5>2 DEF Saves
      <4> QED
        BY <4>1 DEF LockWithin
    <3>7. L = LaterThan(sent', object')
      BY <2>2, <3>0, <3>2
    <3> QED
      BY <1>6, <2>2, <3>2, <3>3, <3>5, <3>6, <3>7
  <2> QED
    BY <2>3, <2>4
<1>9. CASE op.reply = "ok" /\ InPlace(op.ask)
  <2>1. sent' = sent /\ object' = object /\ syncing' = syncing /\ win'.ver = win.ver
    <3>1. CASE op.ask.kind = "deliver"
      BY <1>1, <1>2, <1>9, <3>1 DEF WindowHears, State
    <3>2. CASE op.ask.kind = "report"
      BY <1>1, <1>9, <3>2 DEF WindowHears, window
    <3> QED
      BY <1>9, <3>1, <3>2 DEF InPlace
  <2>2. sent # None => Stands(sent, file.content)
    BY <1>9 DEF Ordered, DescribedInv
  <2>3. PICK L : L = LaterThan(sent, object)
    OBVIOUS
  <2>4. sent # None => LineWithin(State, L)' /\ LockWithin(State, L)
    BY <1>4, <2>3 DEF Ordered, Outlived
  <2>5. L = LaterThan(sent', object')
    BY <2>1, <2>3
  <2>6. sent' # None => Stands(sent', file.content)
    BY <2>1, <2>2
  <2> QED
    BY <1>6, <2>1, <2>4, <2>5, <2>6
<1>10. CASE op.reply \notin {"ok", "full"}
  <2>1. UNCHANGED <<win, sent, object, syncing>> /\ ~Stored
    BY <1>1, <1>10 DEF WindowHears, window, Stored
  <2>2. DescribedInv'
    BY <1>1, <1>3, <2>1 DEF Ordered, DescribedInv, Stands
  <2> QED
    BY <1>1, <2>1, <2>2, OrderedFrame
<1>11. CASE op.reply = "full"
  <2>1. op.ask.kind = "deltas"
    BY <1>1, <1>11 DEF StateTypeInv
  <2>2. PICK ds \in Seq(Deltas) : ds = op.ask.deltas
    BY <1>2, <2>1, AskShape
  <2>3. PICK v \in Saves : v = FullSave /\ v.kind = "full" /\ v.whole = win /\ Whole(v) = win
    BY FullSaveTyped DEF FullSave, Whole
  <2>4. sent' = None /\ syncing' = syncing \o [n \in DOMAIN ds |-> v] /\ UNCHANGED <<win, object>>
    BY <1>1, <1>11, <2>2, <2>3 DEF WindowHears
  <2>5. PICK t : t = [n \in DOMAIN ds |-> v]
    OBVIOUS
  <2>6. DOMAIN ds = 1..Len(ds) /\ Len(ds) \in Nat
    BY <2>2
  <2>7. t \in Seq(Saves) /\ Len(t) = Len(ds) /\ \A n \in 1..Len(t) : t[n] = v
    BY <2>5, <2>6
  <2>8. Len(syncing') = Len(syncing) + Len(t)
        /\ \A n \in 1..(Len(syncing) + Len(t)) :
              syncing'[n] = IF n <= Len(syncing) THEN syncing[n] ELSE t[n - Len(syncing)]
    BY <1>2, <2>4, <2>5, <2>7, ConcatProperties
  <2>9. ASSUME NEW n \in 1..Len(syncing')
        PROVE  \/ n > Len(syncing) /\ syncing'[n] = v
               \/ n \in 1..Len(syncing) /\ syncing'[n] = syncing[n]
    <3>1. Len(syncing) \in Nat /\ Len(t) \in Nat
      BY <1>2, <2>7
    <3>2. CASE n <= Len(syncing)
      BY <2>8, <3>1, <3>2
    <3>3. CASE n > Len(syncing)
      <4>1. n - Len(syncing) \in 1..Len(t) /\ syncing'[n] = t[n - Len(syncing)]
        BY <2>8, <3>1, <3>3
      <4> QED
        BY <2>7, <3>3, <4>1
    <3> QED
      BY <2>8, <3>1, <3>2, <3>3
  <2>10. win \in UpTo(win) /\ LockWithin(UpTo(win), MadeBy(win, object))
    BY <1>2, UpToOrder DEF Ordered, Former
  <2>11. Former'
    <3>1. PICK F, S : F = UpTo(win) /\ S = MadeBy(win, object)
      OBVIOUS
    <3>2. LineWithin(F, S)'
      BY <1>4, <3>1 DEF Ordered, Former
    <3>3. LockWithin(F, S)'
      BY <2>3, <2>9, <2>10, <3>1 DEF LockWithin
    <3>4. F = UpTo(win)' /\ S = MadeBy(win, object)'
      BY <2>4, <3>1 DEF UpTo, MadeBy
    <3> QED
      BY <3>2, <3>3, <3>4 DEF Former, LineWithin, LockWithin
  <2>12. ASSUME NEW n \in 1..Len(syncing'), NEW e, e = syncing'[n]
         PROVE  /\ e.kind = "delta" => LineWithin(UpTo(e.delta.whole), Agreeing(e.delta))'
                /\ \A m \in 1..(n - 1) : Whole(syncing'[m]) \in UpTo(Whole(e))
    <3>1. CASE n > Len(syncing) /\ syncing'[n] = v
      <4>1. ASSUME NEW m \in 1..(n - 1) PROVE Whole(syncing'[m]) \in UpTo(win)
        <5>1. m \in 1..Len(syncing')
          OBVIOUS
        <5>2. CASE syncing'[m] = v
          BY <2>3, <2>10, <5>2
        <5>3. CASE m \in 1..Len(syncing) /\ syncing'[m] = syncing[m]
          <6>1. syncing[m] \in Saves
            BY <1>2, <5>3
          <6>2. CASE syncing[m].kind = "full"
            BY <2>10, <5>3, <6>2 DEF LockWithin, Whole
          <6>3. CASE syncing[m].kind = "delta"
            <7>1. syncing[m].delta \in MadeBy(win, object)
              BY <2>10, <5>3, <6>3 DEF LockWithin
            <7> QED
              BY <5>3, <6>3, <7>1 DEF Whole, MadeBy
          <6> QED
            BY <6>1, <6>2, <6>3 DEF Saves
        <5> QED
          BY <2>9, <5>1, <5>2, <5>3
      <4> QED
        BY <2>3, <2>12, <3>1, <4>1
    <3>2. CASE n \in 1..Len(syncing) /\ syncing'[n] = syncing[n]
      <4>1. \A m \in 1..(n - 1) : m \in 1..Len(syncing') /\ syncing'[m] = syncing[m]
        <5>1. Len(syncing) \in Nat /\ Len(t) \in Nat
          BY <1>2, <2>7
        <5>2. \A m \in 1..(n - 1) : m \in 1..(Len(syncing) + Len(t)) /\ m <= Len(syncing)
          BY <3>2, <5>1
        <5> QED
          BY <2>8, <5>2
      <4>2. /\ e.kind = "delta" => LineWithin(UpTo(e.delta.whole), Agreeing(e.delta))
            /\ \A m \in 1..(n - 1) : Whole(syncing[m]) \in UpTo(Whole(e))
        BY <2>12, <3>2 DEF Ordered, Behind
      <4> QED
        BY <1>4, <4>1, <4>2
    <3> QED
      BY <2>9, <3>1, <3>2
  <2>13. Behind'
    BY <2>12 DEF Behind, LineWithin
  <2>14. Outlived' /\ DescribedInv'
    BY <2>4 DEF Outlived, DescribedInv
  <2> QED
    BY <1>5, <2>11, <2>13, <2>14 DEF Ordered
<1> QED
  BY <1>2, <1>7, <1>8, <1>9, <1>10, <1>11, AskShape DEF InPlace

LEMMA OrderedRelaunch ==
    ASSUME Relaunch
    PROVE  Ordered'
<1>1. op' = Idle /\ op'.at = "idle" /\ queue' = <<>> /\ syncing' = <<>> /\ sent' = None
  BY DEF Relaunch, Idle
<1>2. \A F, S : LineWithin(F, S)' /\ LockWithin(F, S)'
  BY <1>1 DEF LineWithin, LockWithin
<1>3. Former'
  BY <1>1 DEF Former, LineWithin, LockWithin
<1> QED
  BY <1>1, <1>3 DEF Ordered, Outlived, Behind, InLine, DescribedInv

LEMMA OrderedInit == StateInit => Ordered
<1> SUFFICES ASSUME StateInit PROVE Ordered
  OBVIOUS
<1>1. /\ op = Idle /\ op.at = "idle" /\ queue = <<>> /\ syncing = <<>>
      /\ \/ file = None /\ sent = None
         \/ file = [content |-> Blank, stamp |-> 0] /\ sent = Blank
  BY DEF StateInit, Idle
<1>2. Former /\ Outlived /\ Behind /\ InLine
  BY <1>1 DEF Former, Outlived, Behind, InLine, LineWithin, LockWithin
<1>3. DescribedInv
  <2>1. ~Begun /\ ~Stored
    BY <1>1 DEF Begun, Stored
  <2>2. sent # None => sent = file.content
    BY <1>1
  <2> QED
    BY <2>1, <2>2 DEF DescribedInv, Stands
<1> QED
  BY <1>2, <1>3 DEF Ordered

LEMMA OrderStep ==
    ASSUME SavedInv, SavedInv', OrderInv, [StateNext]_stateVars
    PROVE  OrderInv'
<1>1. StateTypeInv /\ StateTypeInv'
  BY DEF SavedInv
<1>2. CASE replaced \/ overtaken
  <2>1. replaced' \/ overtaken'
    <3>1. CASE UNCHANGED stateVars
      BY <1>2, <3>1 DEF stateVars
    <3>2. CASE StateNext
      BY <1>2, <3>2 DEF StateNext, Work, SyncDone, StartOp, ReadGoes, Return, LoadBegins,
           LoadStat, LoadCheck, LoadParse, Found, WriteTemp, Rename, Published, Answer,
           WindowSaves, WindowEdits, Report, DeliveryTick, Read, Snapshot, WriteFails, Relaunch,
           ForeignWrite, history
    <3> QED
      BY <3>1, <3>2
  <2> QED
    BY <2>1 DEF OrderInv
<1>3. CASE ~(replaced \/ overtaken)
  <2>1. Ordered /\ Kept
    BY <1>3 DEF OrderInv, SavedInv
  <2>2. SUFFICES ASSUME ~replaced', ~overtaken' PROVE Ordered'
    BY DEF OrderInv
  <2>3. CASE UNCHANGED <<file, queue, op, win, sent, object, syncing>>
    <3>1. DescribedInv'
      BY <2>1, <2>3 DEF Ordered, DescribedInv, Stored, Begun, Stands
    <3> QED
      BY <2>1, <2>3, <3>1, OrderedFrame
  <2>4. CASE Read \/ Snapshot \/ ReadGoes \/ Return \/ LoadBegins \/ LoadStat
    BY <2>3, <2>4 DEF Read, Snapshot, ReadGoes, Return, LoadBegins, LoadStat, onDisk, window
  <2>5. CASE UNCHANGED stateVars
    BY <2>3, <2>5 DEF stateVars
  <2>6. CASE \E r \in Results : Report(r)
    <3>1. PICK r \in Results : Report(r)
      BY <2>6
    <3>2. PICK o \in Asks : o = [kind |-> "report", result |-> r]
      BY DEF Asks
    <3>3. InPlace(o) /\ Enqueue(o) /\ UNCHANGED <<file, op, win, sent, object, syncing>>
      BY <3>1, <3>2 DEF Report, InPlace, onDisk, window
    <3> QED
      BY <1>1, <2>1, <3>3, OrderedEnqueued
  <2>7. CASE DeliveryTick
    <3>1. PICK o \in Asks : o = [kind |-> "deliver"]
      BY DEF Asks
    <3>2. InPlace(o) /\ Enqueue(o) /\ UNCHANGED <<file, op, win, sent, object, syncing>>
      BY <2>7, <3>1 DEF DeliveryTick, InPlace, onDisk, window
    <3> QED
      BY <1>1, <2>1, <3>2, OrderedEnqueued
  <2>8. CASE ForeignWrite
    BY <2>2, <2>8 DEF ForeignWrite
  <2>9. CASE \E i \in Items : WindowEdits(i)
    BY <1>1, <2>1, <2>9, OrderedEdits
  <2>10. CASE WindowSaves \/ SyncDone
    BY <1>1, <2>1, <2>2, <2>10, OrderedSaves, OrderedLock
  <2>11. CASE LoadCheck \/ LoadParse
    BY <1>1, <2>1, <2>11, OrderedLoading
  <2>12. CASE WriteTemp \/ WriteFails \/ Published \/ Rename
    BY <1>1, <2>1, <2>12, OrderedWriting
  <2>13. CASE StartOp \/ Answer \/ Relaunch
    BY <1>1, <2>1, <2>13, OrderedStarts, OrderedAnswer, OrderedRelaunch
  <2> QED
    BY <2>4, <2>5, <2>6, <2>7, <2>8, <2>9, <2>10, <2>11, <2>12, <2>13 DEF StateNext, Work
<1> QED
  BY <1>2, <1>3

\* What a window at rest would not send again is in the file as the window has it, unless a
\* save has overtaken an older delta of another description on its way through the lock.
THEOREM DescribedStands == StateSpec => []DescribedIsTrue
<1>1. SavedInv /\ OrderInv => DescribedIsTrue
  <2> SUFFICES ASSUME SavedInv, OrderInv, op = Idle, sent # None, ~replaced, ~overtaken
               PROVE  /\ Content # None /\ sent.told \subseteq Content.told
                      /\ \A i \in Items : sent.ver[i] = win.ver[i] => Content.ver[i] = win.ver[i]
    BY DEF DescribedIsTrue
  <2>1. StateTypeInv /\ Kept /\ Ordered /\ op.at = "idle"
    BY DEF SavedInv, OrderInv, Idle
  <2>2. file # None /\ Stands(sent, file.content)
    BY <2>1 DEF Kept, SentInv, Ordered, DescribedInv, Stored
  <2>3. Content = file.content /\ Content # None
    BY <2>1, <2>2, SavedStateAssumption DEF Content, StateTypeInv, Stamped
  <2>4. sent.told \subseteq Content.told
    BY <2>1, <2>2, <2>3 DEF Kept, Copies, CopyIn, Told
  <2>5. \A i \in Items : sent.ver[i] \in Nat /\ win.ver[i] \in Nat
    BY <2>1 DEF StateTypeInv, State
  <2> QED
    BY <2>2, <2>3, <2>4, <2>5 DEF Stands
<1>2. StateSpec => []OrderInv
  <2>1. StateInit => OrderInv
    BY OrderedInit DEF OrderInv
  <2>2. SavedInv /\ SavedInv' /\ OrderInv /\ [StateNext]_stateVars => OrderInv'
    BY OrderStep
  <2> QED
    BY <2>1, <2>2, SavedInvariance, PTL DEF StateSpec
<1> QED
  BY <1>1, <1>2, SavedInvariance, PTL
===============================================================================
