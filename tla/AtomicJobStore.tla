--------------------------- MODULE AtomicJobStore ---------------------------
(***************************************************************************)
(* What the job store promises to the processes that share it, with no     *)
(* lock, no file and no temporary file: a mutation takes effect at one     *)
(* instant between its call and its return, a call that fails or whose     *)
(* process dies has had no effect or its whole effect, and a reader sees   *)
(* the store as it was at one instant of its call.  The promise ends if    *)
(* the file is damaged from outside.                                       *)
(***************************************************************************)
EXTENDS StoreData

CONSTANTS Procs, Ops

VARIABLES
    store,     \* the contents
    aged,      \* jobs submitted more than 30 s ago
    damaged,   \* the file has been damaged from outside
    op,        \* op[p]: the call process p is making
    phase,     \* phase[p]: idle, called, done (took effect), failed (had none)
    seen       \* seen[p]: what a reader returns

absvars == <<store, aged, damaged, op, phase, seen>>

Init ==
    /\ store = Empty
    /\ aged = {}
    /\ damaged = FALSE
    /\ op = [p \in Procs |-> NoOp]
    /\ phase = [p \in Procs |-> "idle"]
    /\ seen = [p \in Procs |-> Empty]

Call(p, o) ==
    /\ phase[p] = "idle"
    /\ phase' = [phase EXCEPT ![p] = "called"]
    /\ op' = [op EXCEPT ![p] = o]
    /\ UNCHANGED <<store, aged, seen>>

\* Entries may be pruned by their age at any instant before the effect.
Commit(p) ==
    /\ phase[p] = "called"
    /\ IsMutator(op[p])
    /\ \E old \in SUBSET aged : store' = Apply(op[p], store, old)
    /\ phase' = [phase EXCEPT ![p] = "done"]
    /\ UNCHANGED <<aged, op, seen>>

Observe(p) ==
    /\ phase[p] = "called"
    /\ op[p] = ReadOp
    /\ seen' = [seen EXCEPT ![p] = store]
    /\ phase' = [phase EXCEPT ![p] = "done"]
    /\ UNCHANGED <<store, aged, op>>

Fail(p) ==
    /\ phase[p] = "called"
    /\ IsMutator(op[p])
    /\ phase' = [phase EXCEPT ![p] = "failed"]
    /\ UNCHANGED <<store, aged, op, seen>>

\* The call returns, or its process dies.
Leave(p) ==
    /\ phase[p] # "idle"
    /\ phase' = [phase EXCEPT ![p] = "idle"]
    /\ op' = [op EXCEPT ![p] = NoOp]
    /\ seen' = [seen EXCEPT ![p] = Empty]
    /\ UNCHANGED <<store, aged>>

Age(j) ==
    /\ aged' = aged \cup {j}
    /\ UNCHANGED <<store, op, phase, seen>>

Promised ==
    \/ \E p \in Procs :
          \/ \E o \in Ops : Call(p, o)
          \/ Commit(p)
          \/ Observe(p)
          \/ Fail(p)
          \/ Leave(p)
    \/ \E j \in Jobs : Age(j)

Next == (Promised /\ UNCHANGED damaged) \/ damaged'

Spec == Init /\ [][Next]_absvars
============================================================================
