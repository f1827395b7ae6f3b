-------------------------- MODULE BackgroundTasks --------------------------
(***************************************************************************)
(* The manager of background processes (src/main/background-tasks.ts).     *)
(* It starts a shell in a process group of its own, keeps a table of the   *)
(* tasks, saves one record per task and an index, and outlives none of its *)
(* processes: they go on when the application exits, and the next start of *)
(* the application reconciles the saved records with what is still alive.  *)
(*                                                                         *)
(* A task's process group is its leader (the shell) and the rest (what the *)
(* shell started and did not wait for). The `child' handle, and with it    *)
(* the exit event, exists only in the application that started the task;   *)
(* a task restored from disk is probed instead.                            *)
(*                                                                         *)
(* Left out: output, logs and endpoints, waiters (they hold no state of    *)
(* the task), stopAll (the application does not call it), the reuse of a   *)
(* process id by the system, Windows' taskkill.                            *)
(***************************************************************************)
EXTENDS Naturals, FiniteSets

CONSTANTS Tasks,          \* the calls of start(), each one task
          SessionOf,      \* the session of each
          MaxPerSession,  \* limits.perSession
          MaxGlobal,      \* limits.global
          MaxRestarts,    \* bound: how often the application goes down
          MaxFaults,      \* bound: how often a save fails part of the way
          None

ActiveStates == {"starting", "running", "stopping"}
EndedStates  == {"exited", "stopped", "failed"}
States       == ActiveStates \cup EndedStates

Record == [state : States, pid : BOOLEAN]

ASSUME BackgroundAssumption ==
  /\ MaxPerSession \in Nat \ {0} /\ MaxGlobal \in Nat \ {0}
  /\ MaxRestarts \in Nat /\ MaxFaults \in Nat
  /\ DOMAIN SessionOf = Tasks /\ None \notin Record

VARIABLES
  up,            \* the application runs
  state,         \* public.state, "asking" in start()'s await, "none" or "gone"
  pid,           \* public.pid is set
  child,         \* the task was started by this application
  timer,         \* the kill timer of stop() is pending
  dirty,         \* #dirtyTasks
  persistedIds,  \* #persistedIds
  records,       \* the record files
  index,         \* the index file
  leader,        \* the shell: "none", "alive" or "dead"
  rest,          \* whether something else in the group is alive
  restarts, faults

memory == <<state, pid, child, timer>>
disk   == <<dirty, persistedIds, records, index, faults>>
group  == <<leader, rest>>
vars   == <<up, memory, disk, group, restarts>>

Table == {t \in Tasks : state[t] \in States}
Active == {t \in Tasks : state[t] \in ActiveStates}
OfSession(s) == {t \in Active : SessionOf[t] = s}

GroupAlive(t) == leader[t] = "alive" \/ rest[t]

\* #isAlive: a signal 0 to the group, when the process id is known.
IsAlive(t, known) == known /\ GroupAlive(t)

Init ==
  /\ up = TRUE
  /\ state = [t \in Tasks |-> "none"]
  /\ pid = [t \in Tasks |-> FALSE]
  /\ child = [t \in Tasks |-> FALSE]
  /\ timer = [t \in Tasks |-> FALSE]
  /\ dirty = {} /\ persistedIds = {}
  /\ records = [t \in Tasks |-> None]
  /\ index = {}
  /\ leader = [t \in Tasks |-> "none"]
  /\ rest = [t \in Tasks |-> FALSE]
  /\ restarts = 0 /\ faults = 0

----------------------------------------------------------------------------
(* #persistNow: the dirty records, then the index when the set of tasks    *)
(* changed, then the removal of the records no longer listed. An error is  *)
(* caught wherever it happens and leaves the rest for the next call.       *)

Written(D) ==
  [t \in Tasks |-> IF t \in D THEN [state |-> state'[t], pid |-> pid'[t]] ELSE records[t]]

Saved(D) ==
  /\ records' = [t \in Tasks |-> IF t \in persistedIds \ Table' THEN None ELSE Written(D)[t]]
  /\ index' = Table' /\ persistedIds' = Table'
  /\ dirty' = {}
  /\ UNCHANGED faults

\* (Mutant) A failed save drops what it did not write.
SaveFailsClean(D) ==
  /\ faults < MaxFaults /\ faults' = faults + 1
  /\ \E W \in SUBSET D : records' = Written(W)
  /\ index' = index /\ dirty' = {} /\ UNCHANGED persistedIds

SaveFails(D) ==
  /\ faults < MaxFaults
  /\ faults' = faults + 1
  /\ \/ \E W \in SUBSET D : records' = Written(W) /\ index' = index
     \/ records' = Written(D) /\ index' = Table'
  /\ dirty' = D
  /\ UNCHANGED persistedIds

PersistNow(D) == Saved(D) \/ SaveFails(D)

\* #state(task): the task is dirty and everything dirty is saved.
State(t) == PersistNow(dirty \cup {t})

----------------------------------------------------------------------------
(* Signals. SIGKILL ends the whole group; a process is free to ignore      *)
(* SIGTERM, or to end on it, so SIGTERM by itself changes nothing here     *)
(* and the group's own actions below may follow it at any time.            *)

SigKill(K) ==
  /\ leader' = [t \in Tasks |-> IF t \in K /\ leader[t] = "alive" THEN "dead" ELSE leader[t]]
  /\ rest' = [t \in Tasks |-> rest[t] /\ t \notin K]

----------------------------------------------------------------------------
(* start(): it may await the probe of the preview port, then checks the    *)
(* limits, spawns and enters the task in one piece.                        *)

StartAsks(t) ==
  /\ up /\ state[t] = "none"
  /\ state' = [state EXCEPT ![t] = "asking"]
  /\ UNCHANGED <<up, pid, child, timer, disk, group, restarts>>

\* (Mutant) A task that is still starting does not count.
LimitsOnRunning(t) ==
  /\ Cardinality({u \in Active : state[u] = "running"}) < MaxGlobal
  /\ Cardinality({u \in OfSession(SessionOf[t]) : state[u] = "running"}) < MaxPerSession

WithinLimits(t) ==
  /\ Cardinality(Active) < MaxGlobal
  /\ Cardinality(OfSession(SessionOf[t])) < MaxPerSession

\* The port is taken or a limit is reached: start() throws.
StartRefused(t) ==
  /\ up /\ state[t] = "asking"
  /\ state' = [state EXCEPT ![t] = "gone"]
  /\ UNCHANGED <<up, pid, child, timer, disk, group, restarts>>

\* spawn() may fail, which the error event tells; the record has no pid yet.
StartSpawns(t) ==
  /\ up /\ state[t] = "asking"
  /\ WithinLimits(t)
  /\ state' = [state EXCEPT ![t] = "starting"]
  /\ child' = [child EXCEPT ![t] = TRUE]
  /\ leader' \in {leader, [leader EXCEPT ![t] = "alive"]}
  /\ UNCHANGED <<up, pid, timer, rest, restarts>>
  /\ State(t)

SpawnEvent(t) ==
  /\ up /\ child[t] /\ leader[t] # "none"
  /\ ~pid[t]
  /\ state' = [state EXCEPT ![t] = "running"]
  /\ pid' = [pid EXCEPT ![t] = TRUE]
  /\ UNCHANGED <<up, child, timer, group, restarts>>
  /\ State(t)

SpawnError(t) ==
  /\ up /\ child[t] /\ leader[t] = "none"
  /\ state[t] \in ActiveStates
  /\ state' = [state EXCEPT ![t] = "failed"]
  /\ UNCHANGED <<up, pid, child, timer, group, restarts>>
  /\ State(t)

\* The exit event of the leader: it clears the kill timer, and the state says
\* whether somebody had asked for the end.
ExitEvent(t) ==
  /\ up /\ child[t] /\ pid[t]
  /\ leader[t] = "dead" /\ state[t] \in ActiveStates
  /\ \E ending \in {"exited", "failed"} :
       state' = [state EXCEPT ![t] = IF @ = "stopping" THEN "stopped" ELSE ending]
  /\ timer' = [timer EXCEPT ![t] = FALSE]
  /\ UNCHANGED <<up, pid, child, group, restarts>>
  /\ State(t)

----------------------------------------------------------------------------
(* stop() and its timer, discardSession(), and the probe of tasks that     *)
(* this application did not start.                                         *)

\* (Mutant) stop() of a task that has ended.
StopsAgain(t) ==
  /\ up /\ state[t] \in States
  /\ child[t] => pid[t]
  /\ state' = [state EXCEPT ![t] = "stopping"]
  /\ timer' = [timer EXCEPT ![t] = TRUE]
  /\ UNCHANGED <<up, pid, child, group, restarts>>
  /\ State(t)

\* Nobody knows the task before its spawn event, which is due at the next tick.
Stop(t) ==
  /\ up /\ state[t] \in ActiveStates
  /\ child[t] => pid[t]
  /\ state' = [state EXCEPT ![t] = "stopping"]
  /\ timer' = [timer EXCEPT ![t] = TRUE]
  /\ UNCHANGED <<up, pid, child, group, restarts>>
  /\ State(t)

\* (Mutant) The timer asks once more instead of killing.
TimerAsksAgain(t) ==
  /\ up /\ timer[t]
  /\ timer' = [timer EXCEPT ![t] = FALSE]
  /\ UNCHANGED <<up, state, pid, child, disk, group, restarts>>

\* Two seconds later.
KillTimer(t) ==
  /\ up /\ timer[t]
  /\ timer' = [timer EXCEPT ![t] = FALSE]
  /\ SigKill(IF state[t] \in ActiveStates THEN {t} ELSE {})
  /\ UNCHANGED <<up, state, pid, child, disk, restarts>>

\* A session with a live task is refused.
DiscardSession(s) ==
  LET owned == {t \in Table : SessionOf[t] = s}
  IN /\ up /\ owned # {} /\ owned \cap Active = {}
     /\ state' = [t \in Tasks |-> IF t \in owned THEN "gone" ELSE state[t]]
     /\ timer' = [t \in Tasks |-> timer[t] /\ t \notin owned]
     /\ UNCHANGED <<up, pid, child, group, restarts>>
     /\ PersistNow(dirty \ owned)

\* (Mutant) A restart takes every task for ended.
ReconciledAsEnded(t, s, known) ==
  IF s \notin ActiveStates THEN s ELSE IF s = "stopping" THEN "stopped" ELSE "exited"

\* #reconcile of a task in state s whose pid is known or not.
Reconciled(t, s, known) ==
  IF s \notin ActiveStates THEN s
  ELSE IF IsAlive(t, known) THEN (IF s = "starting" THEN "running" ELSE s)
  ELSE IF s = "stopping" THEN "stopped" ELSE "exited"

Probe(t) ==
  /\ up /\ ~child[t] /\ state[t] \in ActiveStates
  /\ state' = [state EXCEPT ![t] = Reconciled(t, @, pid[t])]
  /\ SigKill(IF state[t] = "stopping" /\ pid[t] THEN {t} ELSE {})
  /\ UNCHANGED <<up, pid, child, timer, restarts>>
  /\ IF state' # state THEN State(t) ELSE UNCHANGED disk

----------------------------------------------------------------------------
(* The application goes down, with a last save when it quits properly, and *)
(* starts again. What a task does meanwhile, nobody sees.                  *)

Forgets ==
  /\ up' = FALSE
  /\ restarts' = restarts + 1
  /\ state' = [t \in Tasks |-> IF state[t] = "none" THEN "none" ELSE "gone"]
  /\ pid' = [t \in Tasks |-> FALSE]
  /\ child' = [t \in Tasks |-> FALSE]
  /\ timer' = [t \in Tasks |-> FALSE]
  /\ dirty' = {} /\ persistedIds' = {}
  /\ UNCHANGED group

Crash ==
  /\ up /\ restarts < MaxRestarts
  /\ Forgets
  /\ UNCHANGED <<records, index, faults>>

AsHeld(D) == [t \in Tasks |-> IF t \in D THEN [state |-> state[t], pid |-> pid[t]] ELSE records[t]]

\* preserveForAppExit: the last save, which may fail like the others, then the same.
Quit ==
  /\ up /\ restarts < MaxRestarts
  /\ Forgets
  /\ \/ /\ records' = [t \in Tasks |-> IF t \in persistedIds \ Table THEN None ELSE AsHeld(dirty)[t]]
        /\ index' = Table
        /\ UNCHANGED faults
     \/ /\ faults < MaxFaults /\ faults' = faults + 1
        /\ \/ \E W \in SUBSET dirty : records' = AsHeld(W) /\ index' = index
           \/ records' = AsHeld(dirty) /\ index' = Table

\* #restore: one unreadable record, and nothing is restored.
Restorable == IF \A t \in index : records[t] # None THEN index ELSE {}

Restore ==
  LET found == Restorable
      now == [t \in found |-> Reconciled(t, records[t].state, records[t].pid)]
  IN /\ ~up /\ up' = TRUE
     /\ state' = [t \in Tasks |-> IF t \in found THEN now[t] ELSE state[t]]
     /\ pid' = [t \in Tasks |-> t \in found /\ records[t].pid]
     /\ SigKill({t \in found : records[t].state = "stopping" /\ records[t].pid})
     /\ LET changed == {t \in found : now[t] # records[t].state}
        IN \/ /\ records' = Written(changed) /\ dirty' = {}
              /\ UNCHANGED faults
           \/ /\ changed # {} /\ faults < MaxFaults /\ faults' = faults + 1
              /\ \E W \in SUBSET changed : records' = Written(W)
              /\ dirty' = changed
     /\ persistedIds' = found /\ index' = index
     /\ UNCHANGED <<child, timer, restarts>>

----------------------------------------------------------------------------
(* The processes themselves.                                               *)

LeaderEnds(t) ==
  /\ leader[t] = "alive"
  /\ leader' = [leader EXCEPT ![t] = "dead"]
  /\ UNCHANGED <<up, memory, disk, rest, restarts>>

Forks(t) ==
  /\ leader[t] = "alive" /\ ~rest[t]
  /\ rest' = [rest EXCEPT ![t] = TRUE]
  /\ UNCHANGED <<up, memory, disk, leader, restarts>>

RestEnds(t) ==
  /\ rest[t]
  /\ rest' = [rest EXCEPT ![t] = FALSE]
  /\ UNCHANGED <<up, memory, disk, leader, restarts>>

Next ==
  \/ \E t \in Tasks :
       \/ StartAsks(t) \/ StartRefused(t) \/ StartSpawns(t)
       \/ SpawnEvent(t) \/ SpawnError(t) \/ ExitEvent(t)
       \/ Stop(t) \/ KillTimer(t) \/ Probe(t)
       \/ LeaderEnds(t) \/ Forks(t) \/ RestEnds(t)
  \/ \E t \in Tasks : DiscardSession(SessionOf[t])
  \/ Crash \/ Quit \/ Restore

Spec == Init /\ [][Next]_vars

\* Node delivers events, timers fire and the probe interval ticks; nothing
\* obliges a process to end or the user to start the application again.
FairSpec ==
  /\ Spec
  /\ \A t \in Tasks :
       /\ WF_vars(SpawnEvent(t)) /\ WF_vars(SpawnError(t)) /\ WF_vars(ExitEvent(t))
       /\ WF_vars(KillTimer(t)) /\ WF_vars(Probe(t))

----------------------------------------------------------------------------
TypeOK ==
  /\ up \in BOOLEAN
  /\ state \in [Tasks -> States \cup {"none", "asking", "gone"}]
  /\ pid \in [Tasks -> BOOLEAN] /\ child \in [Tasks -> BOOLEAN]
  /\ timer \in [Tasks -> BOOLEAN]
  /\ dirty \subseteq Table /\ persistedIds \subseteq Tasks
  /\ records \in [Tasks -> Record \cup {None}]
  /\ index \subseteq Tasks
  /\ leader \in [Tasks -> {"none", "alive", "dead"}]
  /\ rest \in [Tasks -> BOOLEAN]
  /\ restarts \in 0 .. MaxRestarts /\ faults \in 0 .. MaxFaults

\* While the application runs, a shell that it started, or whose pid it once
\* saved, is a task the user sees as active and can stop: across an exit, a
\* crash, a failed save and the removal of a session nothing is orphaned.
LiveIsSupervised ==
  up => \A t \in Tasks :
          leader[t] = "alive" /\ (child[t] \/ (t \in index /\ records[t].pid))
            => state[t] \in ActiveStates

\* Whatever the point at which a save failed or the application died, every
\* task the index lists has its record, and what the manager no longer holds
\* as dirty is on disk as it is in memory.
DiskIsTrue ==
  /\ \A t \in index : records[t] # None
  /\ up => \A t \in Table \ dirty : records[t] = [state |-> state[t], pid |-> pid[t]]

\* A task that enters the table leaves it within both limits, though start()
\* awaited a probe of the port and others started meanwhile.
StartsWithinLimits ==
  [][\A t \in Tasks : state[t] = "asking" /\ state'[t] = "starting"
       => /\ Cardinality({u \in Tasks : state'[u] \in ActiveStates}) <= MaxGlobal
          /\ Cardinality({u \in Tasks : /\ state'[u] \in ActiveStates
                                        /\ SessionOf[u] = SessionOf[t]}) <= MaxPerSession]_vars

\* An end that was saved is final: no late event, stop or restart brings the
\* task back to life on disk.
EndIsFinal ==
  [][\A t \in Tasks : records[t] # None /\ records[t].state \in EndedStates
       => records'[t] = None \/ records'[t] = records[t]]_vars

\* A task somebody stops comes to its end, unless the application goes down
\* first, and a shell that ignores SIGTERM is killed, also one whose stop was
\* saved by an earlier application.
StopEnds ==
  \A t \in Tasks : (state[t] = "stopping" /\ up) ~> ((state[t] = "stopped" /\ leader[t] = "dead") \/ ~up)

=============================================================================
