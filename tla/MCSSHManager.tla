---------------------------- MODULE MCSSHManager ----------------------------
(* Small instances of SSHManager: one call of run and two of run_with_retry. *)
EXTENDS SSHManager

CONSTANTS h1, run1, retry1, retry2

MCMaxRetries == [c \in Calls |-> IF c = run1 THEN 0 ELSE 1]
=============================================================================
