------------------------- MODULE MC_BackgroundTasks -------------------------
(* Small instances of BackgroundTasks: two sessions, one of them with two  *)
(* starts that compete for its limit.                                      *)
EXTENDS BackgroundTasks

CONSTANTS t1, t2, t3, s1, s2

TwoSessions == [t \in Tasks |-> IF t = t3 THEN s2 ELSE s1]

=============================================================================
