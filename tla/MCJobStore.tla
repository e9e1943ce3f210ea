----------------------------- MODULE MCJobStore -----------------------------
(***************************************************************************)
(* A small instance of JobStore: two jobs submitted with one hash, one of  *)
(* them cancelled, a reader and a log offset.  write_jobs, which only the   *)
(* tests call, is left to the proofs: it adds states and no interleaving.  *)
(***************************************************************************)
EXTENDS JobStore

CONSTANTS j1, j2, h

MCOps == {AppendOp(j1, h), AppendOp(j2, h), UpdateOp(j1, "CANCELLED"),
          ReadOp, OffsetOp(j1, 1)}
============================================================================
