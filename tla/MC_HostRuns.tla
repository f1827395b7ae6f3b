------------------------------ MODULE MC_HostRuns ------------------------------
(* Instances of HostRuns: which call asks for which run. *)
EXTENDS HostRuns

CONSTANTS s1, s2, r1, r2, m1

TwoSends == {s1, s2}

\* Two terminals, each with a message of its own.
TwoRuns == [s \in TwoSends |-> IF s = s1 THEN r1 ELSE r2]

\* A remote client that sends one message and retries it.
OneRun == [s \in TwoSends |-> r1]
OneMessage == [s \in TwoSends |-> m1]

Nobody == {}
===============================================================================
