------------------------------- MODULE Domain -------------------------------
(***************************************************************************)
(* The job states of slurp (src/slurp/domain.py) and how the words that     *)
(* sacct and squeue print are read as one (src/slurp/core/slurm.py).        *)
(***************************************************************************)

CONSTANT None   \* Python's None, a missing key, a row that is not there

JobStatus == {"PENDING", "RUNNING", "COMPLETED", "FAILED",
              "CANCELLED", "TIMEOUT", "UNKNOWN"}

\* is_terminal
Terminal == {"COMPLETED", "FAILED", "CANCELLED", "TIMEOUT"}

\* The words both mappings know, read as themselves.
PlainWords == {"PENDING", "RUNNING", "COMPLETED", "FAILED", "CANCELLED", "TIMEOUT"}

\* SlurmJobInfo.status: every other word, such as PREEMPTED or the
\* "CANCELLED by <uid>" of a job that a user cancelled, is UNKNOWN.
SacctStatus(w) ==
    IF w \in PlainWords \cup {None} THEN w
    ELSE IF w = "CANCELLED+" THEN "CANCELLED"
    ELSE IF w = "TIMEOUT+" THEN "TIMEOUT"
    ELSE IF w \in {"NODE_FAIL", "OUT_OF_MEMORY"} THEN "FAILED"
    ELSE "UNKNOWN"

\* Mutant: the word itself is taken for a status.
SqueueStatusRaw(w) == w

\* squeue_query's mapping, which has none of the long words.
SqueueStatus(w) ==
    IF w \in PlainWords \cup {None} THEN w ELSE "UNKNOWN"

\* What a late answer may say of a job of status w: any that it has been in.
Past(w) == {"PENDING"} \cup (IF w = "PENDING" THEN {} ELSE {"RUNNING"})
              \cup ({w} \cap Terminal)
============================================================================
