----------------------------- MODULE StoreData -----------------------------
(***************************************************************************)
(* The contents of jobs.json and what each operation of the job store      *)
(* computes from them (src/slurp/core/store.py).  A record is abstracted    *)
(* to its status, the only field an operation of the store changes; a      *)
(* timestamp is abstracted to "older than the 30 s window or not".          *)
(***************************************************************************)
EXTENDS Domain, Naturals

CONSTANTS
    Jobs,      \* SLURM job ids
    Hashes     \* idempotency hashes of submitted specifications

ASSUME NoneAssumption == None \notin Jobs \cup Hashes \cup JobStatus

\* The two live sections: jobs, and idempotency mapping a hash to its job.
\* (The third, log_offsets, is written by nobody: offsets have their own file.)
JobTable == [Jobs -> JobStatus \cup {None}]
Content  == [jobs : JobTable, idem : [Hashes -> Jobs \cup {None}]]

Empty == [jobs |-> [j \in Jobs |-> None], idem |-> [h \in Hashes |-> None]]

(***************************************************************************)
(* The calls.  append_job always carries a PENDING record and an unused    *)
(* job id (client.py submit, submit_array); the three readers get_job,     *)
(* list_jobs and check_idempotency are one: they differ in what they pick  *)
(* out of the same file.                                                   *)
(***************************************************************************)
AppendOp(j, h)  == [kind |-> "append", job |-> j, hash |-> h]
UpdateOp(j, s)  == [kind |-> "update", job |-> j, status |-> s]
ReplaceOp(t)    == [kind |-> "replace", table |-> t]
ReadOp          == [kind |-> "read"]
OffsetOp(j, n)  == [kind |-> "offset", job |-> j, position |-> n]
NoOp            == [kind |-> "none"]

AppendOps  == [kind : {"append"}, job : Jobs, hash : Hashes \cup {None}]
UpdateOps  == [kind : {"update"}, job : Jobs, status : JobStatus]
ReplaceOps == [kind : {"replace"}, table : JobTable]
OffsetOps  == [kind : {"offset"}, job : Jobs, position : Nat]

Mutators == AppendOps \cup UpdateOps \cup ReplaceOps
StoreOps == Mutators \cup {ReadOp}
AllOps   == StoreOps \cup OffsetOps

IsMutator(o) == o.kind \in {"append", "update", "replace"}

----------------------------------------------------------------------------
\* Drop the entries of jobs submitted more than 30 s ago (the set old).
PruneIdempotency(idem, old) ==
    [h \in Hashes |-> IF idem[h] \in old THEN None ELSE idem[h]]

AppendJob(c, j, h, old) ==
    [jobs |-> [c.jobs EXCEPT ![j] = "PENDING"],
     idem |-> PruneIdempotency(IF h = None THEN c.idem ELSE [c.idem EXCEPT ![h] = j],
                               old)]

\* update_job_status writes only when the job is in the file.
UpdateStatus(c, j, s) ==
    IF c.jobs[j] = None THEN c ELSE [c EXCEPT !.jobs[j] = s]

\* The contents that call o writes when it read c and the jobs in old are aged.
Apply(o, c, old) ==
    CASE o.kind = "append"  -> AppendJob(c, o.job, o.hash, old)
      [] o.kind = "update"  -> UpdateStatus(c, o.job, o.status)
      [] o.kind = "replace" -> [c EXCEPT !.jobs = o.table]

\* Whether call o, having read c, goes on to write the file.
Writes(o, c) == IsMutator(o) /\ (o.kind = "update" => c.jobs[o.job] # None)

\* The job check_idempotency reports for hash h in contents c: its entry is
\* younger than the window and its record still says PENDING.
CheckIdempotency(c, h, old) ==
    LET j == c.idem[h]
    IN  IF j # None /\ j \notin old /\ c.jobs[j] = "PENDING" THEN j ELSE None
============================================================================
