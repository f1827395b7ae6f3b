------------------------------- MODULE EventLog -------------------------------
(***************************************************************************)
(* What the readers of a task's event log may rely on: a sequence of lines *)
(* that only grows at its end, by a line numbered above every line before  *)
(* it and for an event that is not yet there, or is cleared as a whole.    *)
(* Only an event whose append nobody was told the success of may be lost   *)
(* again, and only while it is the last.                                   *)
(***************************************************************************)
EXTENDS Integers, Sequences

CONSTANT Events

VARIABLES
    log,
    loose           \* the events whose appends failed or were cut off

Newest == IF log = <<>> THEN 0 ELSE log[Len(log)].seq

Init == log = <<>>

\* The new log is the old one and one line more.
Add ==
    /\ log' # <<>>
    /\ LET line == log'[Len(log')] IN
          /\ log' = Append(log, line)
          /\ line.seq > Newest
          /\ line.call \in Events
          /\ \A i \in 1..Len(log) : log[i].call # line.call

Drop ==
    /\ log # <<>> /\ log[Len(log)].call \in loose
    /\ log' = SubSeq(log, 1, Len(log) - 1)

Clear == log' = <<>>

Next == Add \/ Drop \/ Clear

Spec == Init /\ [][Next]_log
===============================================================================
