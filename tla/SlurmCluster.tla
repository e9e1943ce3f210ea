---------------------------- MODULE SlurmCluster ----------------------------
(***************************************************************************)
(* SLURM as slurp sees it: it is not part of the repository and is         *)
(* modelled from how src/slurp/core/slurm.py and client.py use it.  A job   *)
(* has a real state; squeue and sacct show it with a lag of their own, so   *)
(* they disagree with it and with each other; squeue drops a job that has   *)
(* ended, sacct forgets it much later.                                      *)
(***************************************************************************)
EXTENDS Domain

CONSTANTS
    Jobs,      \* job ids that SLURM hands out
    EndWords   \* the states a job can end in, in sacct's words

ASSUME EndWordsAssumption == EndWords \cap {"PENDING", "RUNNING", None} = {}

VARIABLES
    real,        \* real[j]: the state of job j, None before it is submitted
    queue,       \* queue[j]: the row of squeue, None if there is none
    acct,        \* acct[j]: the row of sacct, None if there is none
    purged,      \* jobs that have aged out of the accounting database
    scancelled   \* jobs that an accepted scancel named

clusterVars == <<real, queue, acct, purged, scancelled>>

LiveWords == {"PENDING", "RUNNING"}
CancelWords == {"CANCELLED", "CANCELLED+", "CANCELLED by uid"}

Live(j)  == real[j] \in LiveWords
Ended(j) == real[j] \in EndWords

ClusterTypeOK ==
    /\ real \in [Jobs -> LiveWords \cup EndWords \cup {None}]
    /\ queue \in [Jobs -> LiveWords \cup {"COMPLETING", None}]
    /\ acct \in [Jobs -> LiveWords \cup EndWords \cup {None}]
    /\ purged \in SUBSET Jobs
    /\ scancelled \in SUBSET Jobs

\* The jobs in submitted are pending; no daemon has shown them yet.
ClusterInit(submitted) ==
    /\ real = [j \in Jobs |-> IF j \in submitted THEN "PENDING" ELSE None]
    /\ queue = [j \in Jobs |-> None]
    /\ acct = [j \in Jobs |-> None]
    /\ purged = {}
    /\ scancelled = {}

Begin(j) ==
    /\ real[j] = "PENDING"
    /\ real' = [real EXCEPT ![j] = "RUNNING"]
    /\ UNCHANGED <<queue, acct, purged, scancelled>>

\* A running job ends in any way, a pending one only by being cancelled (by
\* scancel, or by an administrator).
End(j) ==
    /\ \E w \in EndWords :
          /\ real[j] = "RUNNING" \/ (real[j] = "PENDING" /\ w \in CancelWords)
          /\ real' = [real EXCEPT ![j] = w]
    /\ UNCHANGED <<queue, acct, purged, scancelled>>

\* squeue lists live jobs, and for a while one that is completing.
QueueReports(j) ==
    /\ real[j] # None
    /\ \E w \in IF Live(j) THEN {real[j]}
                ELSE {None} \cup (IF queue[j] \in LiveWords THEN {"COMPLETING"} ELSE {}) :
          /\ w # queue[j]
          /\ queue' = [queue EXCEPT ![j] = w]
    /\ UNCHANGED <<real, acct, purged, scancelled>>

AcctReports(j) ==
    /\ real[j] # None
    /\ j \notin purged
    /\ acct[j] # real[j]
    /\ acct' = [acct EXCEPT ![j] = real[j]]
    /\ UNCHANGED <<real, queue, purged, scancelled>>

Purge(j) ==
    /\ Ended(j)
    /\ acct[j] = real[j]
    /\ purged' = purged \cup {j}
    /\ acct' = [acct EXCEPT ![j] = None]
    /\ UNCHANGED <<real, queue, scancelled>>

ClusterNext ==
    \E j \in Jobs : Begin(j) \/ End(j) \/ QueueReports(j) \/ AcctReports(j) \/ Purge(j)

\* scancel of jobs that have ended is accepted as well and changes nothing.
Scancel(js) ==
    /\ scancelled' = scancelled \cup js
    /\ UNCHANGED <<real, queue, acct, purged>>

\* sacct has the end of j and a word for it that slurp can read.
KnownEnd(j) == acct[j] \in EndWords /\ SacctStatus(acct[j]) \in Terminal
============================================================================
