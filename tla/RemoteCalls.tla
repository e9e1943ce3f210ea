---------------------------- MODULE RemoteCalls ----------------------------
(***************************************************************************)
(* What a driver script may think its calls of remote functions are         *)
(* (src/slurp/task.py, dispatcher.py): each is made once, handed to SLURM   *)
(* at most once, ends at most once, and is answered at most once, by the    *)
(* answer of a call that has completed.  Bundles, chunks, rsyncs, jobs,     *)
(* files, queries, exceptions and Ctrl+C do not show.                       *)
(***************************************************************************)
CONSTANTS Tasks, None

VARIABLES
    stage,    \* stage[t]: how far call t has come
    answer    \* answer[t]: what get came to, None before

vars == <<stage, answer>>

Init ==
    /\ stage = [t \in Tasks |-> "uncalled"]
    /\ answer = [t \in Tasks |-> None]

\* The calls ts go from one stage to another, the others stay where they are.
Move(ts, from, to) ==
    /\ \A t \in ts : stage[t] = from
    /\ stage' = [t \in Tasks |-> IF t \in ts THEN to ELSE stage[t]]
    /\ UNCHANGED answer

Call(ts)   == Move(ts, "uncalled", "called")
Submit(ts) == Move(ts, "called", "submitted")
End(t)     == \E end \in {"completed", "failed"} : Move({t}, "submitted", end)

\* A value, or the news that the result file is gone.
Answer(t) ==
    /\ stage[t] = "completed"
    /\ answer[t] = None
    /\ \E a \in {"value", "missing"} : answer' = [answer EXCEPT ![t] = a]
    /\ UNCHANGED stage

Next ==
    \/ \E ts \in SUBSET Tasks : Call(ts) \/ Submit(ts)
    \/ \E t \in Tasks : End(t) \/ Answer(t)

Spec == Init /\ [][Next]_vars
============================================================================
