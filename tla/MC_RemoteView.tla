---------------------------- MODULE MC_RemoteView ----------------------------
(* Two conversations: one whose run is watched, one that has ended. *)
EXTENDS RemoteView

CONSTANTS a, b
MCTasks == {a, b}
MCScript == [t \in {a, b} |-> IF t = a THEN <<"start", "delta", "finish">> ELSE <<"start", "finish">>]
MCFirstEvents == [t \in {a, b} |-> IF t = a THEN 1 ELSE 2]
=============================================================================
