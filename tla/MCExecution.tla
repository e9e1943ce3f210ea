---------------------------- MODULE MCExecution ----------------------------
(***************************************************************************)
(* Small instances of Execution: one bundle, chunks of one call.            *)
(***************************************************************************)
EXTENDS Execution, TLC

CONSTANTS t1, t2, t3, b

MCKey == [t \in Tasks |-> "gpus=1"]

MCSymmetry == Permutations(Jobs) \cup Permutations(Tasks)
============================================================================
