---------------------------- MODULE JobTracking ----------------------------
(***************************************************************************)
(* How SyncClient (src/slurp/client.py) follows jobs it has submitted:      *)
(* refresh_job, status, wait_job, list_jobs/watch through _reconcile_store, *)
(* cancel_job and cancel_job_by_id, run by several clients (processes,      *)
(* threads) over one job store and one cluster whose two views lag.         *)
(* Each remote query and each call of the store is a step; what a query     *)
(* answered is held until the client gets to apply it.  The store's own     *)
(* calls are atomic here, which JobStore's refinement justifies.  Job ids   *)
(* are plain (no array tasks).                                             *)
(***************************************************************************)
EXTENDS SlurmCluster, FiniteSets

CONSTANTS
    Clients,
    Watchers,   \* clients that only run `watch`, and run it for ever
    Calls       \* Calls[c]: the operations client c performs

Operations == {"refresh", "status", "wait", "reconcile", "cancel", "cancelById"}

ASSUME WatchersAssumption == Watchers \subseteq Clients
ASSUME CallsAssumption == \A c \in Clients : Calls[c] \subseteq Operations
ASSUME WatchersOnlyWatch == \A c \in Watchers : Calls[c] = {"reconcile"}
ASSUME StatusAssumption == None \notin JobStatus

VARIABLES
    store,     \* store[j]: the status in jobs.json, None if j is not recorded
    pc, call,  \* per client: where it is, and in which operation
    target,    \* target[c]: the jobs the operation is about
    belief,    \* belief[c][j]: the status in c's newest handle on j, None without one
    reply,     \* reply[c][j]: what SLURM answered and c has not applied yet
    result     \* result[c][j]: the outcome of c's last wait for j

clientVars == <<pc, call, target, belief, reply, result>>
vars == <<clusterVars, store, clientVars>>

NoReply == [j \in Jobs |-> None]   \* nothing known about any job

\* What wait_job comes to: it returns a JobResult or raises JobFailedError.
Results == [status : JobStatus, raised : BOOLEAN]

Places == {"idle", "sacct", "squeue", "apply", "check", "final", "scancel", "mark"}

ControlTypeOK ==
    /\ pc \in [Clients -> Places]
    /\ call \in [Clients -> Operations \cup {"none"}]
    /\ target \in [Clients -> SUBSET Jobs]
    /\ reply \in [Clients -> [Jobs -> JobStatus \cup {None}]]

TypeOK ==
    /\ ClusterTypeOK
    /\ ControlTypeOK
    /\ store \in [Jobs -> JobStatus \cup {None}]
    /\ belief \in [Clients -> [Jobs -> JobStatus \cup {None}]]
    /\ result \in [Clients -> [Jobs -> Results \cup {None}]]

\* Every job has been submitted, by a client of this store or by another
\* machine; whoever submitted it holds a PENDING handle on it.
Init ==
    /\ ClusterInit(Jobs)
    /\ store \in [Jobs -> {"PENDING", None}]
    /\ pc = [c \in Clients |-> "idle"]
    /\ call = [c \in Clients |-> "none"]
    /\ target = [c \in Clients |-> {}]
    /\ belief = [c \in Clients |-> store]
    /\ reply = [c \in Clients |-> NoReply]
    /\ result = [c \in Clients |-> NoReply]

Goto(c, label) == pc' = [pc EXCEPT ![c] = label]

Enter(c, operation, js, label) ==
    /\ pc[c] = "idle"
    /\ call' = [call EXCEPT ![c] = operation]
    /\ target' = [target EXCEPT ![c] = js]
    /\ Goto(c, label)

\* The operation returns or raises.
Leave(c) ==
    /\ Goto(c, "idle")
    /\ call' = [call EXCEPT ![c] = "none"]
    /\ target' = [target EXCEPT ![c] = {}]
    /\ reply' = [reply EXCEPT ![c] = NoReply]

Record(j, s) == store' = IF store[j] = None THEN store ELSE [store EXCEPT ![j] = s]

----------------------------------------------------------------------------
(* The operations *)

\* refresh_job and wait_job start from the handle the caller has.
RefreshJob(c, j) ==
    /\ "refresh" \in Calls[c] /\ belief[c][j] # None
    /\ Enter(c, "refresh", {j}, "sacct")
    /\ UNCHANGED <<clusterVars, store, belief, reply, result>>

WaitJob(c, j) ==
    /\ "wait" \in Calls[c] /\ belief[c][j] # None
    /\ Enter(c, "wait", {j}, "sacct")
    /\ UNCHANGED <<clusterVars, store, belief, reply, result>>

\* status starts from the record in the store; for a job that is not recorded
\* it makes the same two queries and has no record to update.
Status(c, j) ==
    /\ "status" \in Calls[c]
    /\ Enter(c, "refresh", {j}, "sacct")
    /\ belief' = [belief EXCEPT ![c][j] = store[j]]
    /\ UNCHANGED <<clusterVars, store, reply, result>>

\* Mutant: UNKNOWN is taken for an end and never asked about again.
ReconcileKnown(c) ==
    /\ "reconcile" \in Calls[c]
    /\ LET open == {j \in Jobs : store[j] \in LiveWords}
       IN  /\ open # {}
           /\ Enter(c, "reconcile", open, "sacct")
    /\ belief' = [belief EXCEPT ![c] =
                     [j \in Jobs |-> IF store[j] = None THEN belief[c][j] ELSE store[j]]]
    /\ UNCHANGED <<clusterVars, store, reply, result>>

\* _reconcile_store takes all records and asks for those that may still change.
Reconcile(c) ==
    /\ "reconcile" \in Calls[c]
    /\ LET open == {j \in Jobs : store[j] \in JobStatus \ Terminal}
       IN  /\ open # {}
           /\ Enter(c, "reconcile", open, "sacct")
    /\ belief' = [belief EXCEPT ![c] =
                     [j \in Jobs |-> IF store[j] = None THEN belief[c][j] ELSE store[j]]]
    /\ UNCHANGED <<clusterVars, store, reply, result>>

\* Nothing is open: the records are returned as they are.
ReconcileNothing(c) ==
    /\ "reconcile" \in Calls[c] /\ pc[c] = "idle"
    /\ \A j \in Jobs : store[j] \in Terminal \cup {None}
    /\ belief' = [belief EXCEPT ![c] =
                     [j \in Jobs |-> IF store[j] = None THEN belief[c][j] ELSE store[j]]]
    /\ UNCHANGED <<clusterVars, store, pc, call, target, reply, result>>

CancelJob(c, j) ==
    /\ "cancel" \in Calls[c] /\ belief[c][j] # None
    /\ Enter(c, "cancel", {j}, "scancel")
    /\ UNCHANGED <<clusterVars, store, belief, reply, result>>

CancelJobById(c, j) ==
    /\ "cancelById" \in Calls[c]
    /\ Enter(c, "cancelById", {j}, "scancel")
    /\ UNCHANGED <<clusterVars, store, belief, reply, result>>

----------------------------------------------------------------------------
(* Queries *)

\* Where an operation goes on when SLURM has told it nothing (more).
Told(c, label) ==
    IF label = "idle" THEN Leave(c)
    ELSE Goto(c, label) /\ reply' = [reply EXCEPT ![c] = NoReply] /\ UNCHANGED <<call, target>>

AfterQueries(c) == IF call[c] = "wait" THEN "check" ELSE "idle"

Hear(c, answer, nothing) ==
    IF \E j \in Jobs : answer[j] # None
      THEN /\ reply' = [reply EXCEPT ![c] = answer]
           /\ Goto(c, "apply")
           /\ UNCHANGED <<call, target>>
      ELSE Told(c, nothing)

SacctView(c)  == [j \in Jobs |-> IF j \in target[c] THEN SacctStatus(acct[j]) ELSE None]

\* Mutant: a job that is in neither view is assumed to have completed.
SqueueViewOptimistic(c) ==
    [j \in Jobs |-> IF j \notin target[c] THEN None
                    ELSE IF queue[j] = None THEN "COMPLETED" ELSE SqueueStatus(queue[j])]

SqueueView(c) == [j \in Jobs |-> IF j \in target[c] THEN SqueueStatus(queue[j]) ELSE None]

\* A single job that sacct does not show is looked up in squeue; reconciling
\* uses sacct alone.
AfterSacctMiss(c) == IF call[c] = "reconcile" THEN "idle" ELSE "squeue"

SacctAnswers(c) ==
    /\ pc[c] = "sacct"
    /\ Hear(c, SacctView(c), AfterSacctMiss(c))
    /\ UNCHANGED <<clusterVars, store, belief, result>>

\* sacct_query and squeue_query turn every exception into an empty answer.
SacctFails(c) ==
    /\ pc[c] = "sacct"
    /\ Told(c, AfterSacctMiss(c))
    /\ UNCHANGED <<clusterVars, store, belief, result>>

SqueueAnswers(c) ==
    /\ pc[c] = "squeue"
    /\ Hear(c, SqueueView(c), AfterQueries(c))
    /\ UNCHANGED <<clusterVars, store, belief, result>>

SqueueFails(c) ==
    /\ pc[c] = "squeue"
    /\ Told(c, AfterQueries(c))
    /\ UNCHANGED <<clusterVars, store, belief, result>>

----------------------------------------------------------------------------
(* Applying an answer *)

\* Mutant: the handle, which is immutable, is not rebound to the answer.
ApplyKeepingHandle(c, j) ==
    /\ pc[c] = "apply"
    /\ reply[c][j] # None
    /\ IF reply[c][j] # belief[c][j] THEN Record(j, reply[c][j]) ELSE UNCHANGED store
    /\ Told(c, AfterQueries(c))
    /\ UNCHANGED <<clusterVars, belief, result>>

\* The record is updated when the answer differs from the status the client
\* started from, whatever the record says by now.
Apply(c, j) ==
    /\ pc[c] = "apply"
    /\ reply[c][j] # None
    /\ IF reply[c][j] # belief[c][j] THEN Record(j, reply[c][j]) ELSE UNCHANGED store
    /\ belief' = [belief EXCEPT ![c][j] = reply[c][j]]
    /\ IF \E k \in Jobs \ {j} : reply[c][k] # None
         THEN /\ reply' = [reply EXCEPT ![c][j] = None]
              /\ UNCHANGED <<pc, call, target>>
         ELSE Told(c, AfterQueries(c))
    /\ UNCHANGED <<clusterVars, result>>

\* Reconciling catches an update that raises and returns the stale rest.
ApplyFails(c) ==
    /\ pc[c] = "apply"
    /\ call[c] = "reconcile"
    /\ Leave(c)
    /\ UNCHANGED <<clusterVars, store, belief, result>>
----------------------------------------------------------------------------
(* wait_job after its refresh *)

WaitOn(c) ==
    /\ pc[c] = "check"
    /\ \A j \in target[c] : belief[c][j] \notin Terminal
    /\ Goto(c, "sacct")
    /\ UNCHANGED <<clusterVars, store, call, target, belief, reply, result>>

\* TimeoutError, when a timeout was given.
WaitTimesOut(c) ==
    /\ pc[c] = "check"
    /\ \A j \in target[c] : belief[c][j] \notin Terminal
    /\ Leave(c)
    /\ UNCHANGED <<clusterVars, store, belief, result>>

WaitOver(c) ==
    /\ pc[c] = "check"
    /\ \A j \in target[c] : belief[c][j] \in Terminal
    /\ Goto(c, "final")
    /\ UNCHANGED <<clusterVars, store, call, target, belief, reply, result>>

\* JobFailedError for a failure, or for a COMPLETED job without a zero exit code.
Conclude(c, j, s, zeroExit) ==
    /\ result' = [result EXCEPT ![c][j] =
                     [status |-> s,
                      raised |-> \/ s \in {"FAILED", "TIMEOUT", "CANCELLED"}
                                 \/ s = "COMPLETED" /\ ~zeroExit]]
    /\ Leave(c)
    /\ UNCHANGED <<clusterVars, store, belief>>

\* The second lookup gives the exit code (0:0 in the row of a COMPLETED job)
\* and the status of the result.
FinalAnswers(c) ==
    /\ pc[c] = "final"
    /\ \E j \in target[c] :
          /\ acct[j] # None
          /\ Conclude(c, j, SacctStatus(acct[j]), acct[j] = "COMPLETED")

\* It fails, or sacct has no row: no exit code, and the status of the refresh.
FinalMisses(c) ==
    /\ pc[c] = "final"
    /\ \E j \in target[c] : Conclude(c, j, belief[c][j], FALSE)

----------------------------------------------------------------------------
(* Cancelling *)

\* Mutant: an scancel that failed is marked all the same.
ScancelUnchecked(c) ==
    /\ pc[c] = "scancel"
    /\ IF call[c] = "cancel"
         THEN Goto(c, "mark") /\ UNCHANGED <<call, target, reply>>
         ELSE Leave(c)
    /\ UNCHANGED <<clusterVars, store, belief, result>>

\* scancel is accepted (an id that SLURM does not know counts as accepted).
ScancelAccepted(c) ==
    /\ pc[c] = "scancel"
    /\ Scancel(target[c])
    /\ IF call[c] = "cancel"
         THEN Goto(c, "mark") /\ UNCHANGED <<call, target, reply>>
         ELSE Leave(c)
    /\ UNCHANGED <<store, belief, result>>

Mark(c) ==
    /\ pc[c] = "mark"
    /\ \E j \in target[c] :
          /\ Record(j, "CANCELLED")
          /\ belief' = [belief EXCEPT ![c][j] = "CANCELLED"]
    /\ Leave(c)
    /\ UNCHANGED <<clusterVars, result>>

----------------------------------------------------------------------------
\* An exception out of an operation (scancel refused, a store call that
\* raised, Ctrl+C) or the death of its process, at any step of it.
Abort(c) ==
    /\ c \notin Watchers
    /\ pc[c] # "idle"
    /\ Leave(c)
    /\ UNCHANGED <<clusterVars, store, belief, result>>

Begins(c) ==
    \/ \E j \in Jobs : \/ RefreshJob(c, j) \/ WaitJob(c, j) \/ Status(c, j)
                       \/ CancelJob(c, j) \/ CancelJobById(c, j)
    \/ Reconcile(c)
    \/ ReconcileNothing(c)

Applies(c) == \E j \in Jobs : Apply(c, j)

Proceeds(c) ==
    \/ SacctAnswers(c) \/ SacctFails(c) \/ SqueueAnswers(c) \/ SqueueFails(c)
    \/ Applies(c) \/ ApplyFails(c)
    \/ WaitOn(c) \/ WaitOver(c) \/ FinalAnswers(c) \/ FinalMisses(c)
    \/ ScancelAccepted(c) \/ Mark(c)

Next ==
    \/ ClusterNext /\ UNCHANGED <<store, clientVars>>
    \/ \E c \in Clients : Begins(c) \/ Proceeds(c) \/ WaitTimesOut(c) \/ Abort(c)

Spec == Init /\ [][Next]_vars

\* A client inside an operation goes on with it, and a watcher with its loop.
\* A query and a store update that are tried again and again succeed at last:
\* without that wait_job has no end.  squeue's row follows its job.
Fairness ==
    /\ \A c \in Clients : /\ WF_vars(Proceeds(c))
                          /\ SF_vars(SacctAnswers(c))
                          /\ SF_vars(Applies(c))
    /\ \A c \in Watchers : WF_vars(Reconcile(c))
    /\ \A j \in Jobs : WF_vars(QueueReports(j) /\ UNCHANGED <<store, clientVars>>)

FairSpec == Spec /\ Fairness

----------------------------------------------------------------------------
(* Properties *)

\* A terminal status of j that somebody holds is true: COMPLETED, FAILED and
\* TIMEOUT are how the job ended, CANCELLED that or the mark of an scancel.
Truthful(j, s) ==
    s \in Terminal => \/ Ended(j) /\ SacctStatus(real[j]) = s
                      \/ s = "CANCELLED" /\ j \in scancelled

\* However the operations of several clients interleave with the two lagging
\* views, the store never records an end that did not happen: a failed query,
\* a row that is not there and a word nobody knows never become a terminal
\* status, and CANCELLED is recorded only after SLURM accepted the scancel
\* (refresh_job, _reconcile_store, cancel_job).
RecordedEndIsReal == \A j \in Jobs : Truthful(j, store[j])

\* wait_job returns a COMPLETED result, without raising, only for a job that
\* did complete, although it looks the job up twice and takes its status from
\* either lookup.
SuccessIsReal ==
    \A c \in Clients, j \in Jobs :
        result[c][j] # None /\ result[c][j].status = "COMPLETED" => real[j] = "COMPLETED"

\* The inductive invariant behind both: every status on its way from SLURM to
\* the store is truthful, and the mark follows an accepted scancel.
ViewsAreTrue ==
    \A j \in Jobs : /\ acct[j] \in EndWords => acct[j] = real[j]
                    /\ acct[j] = None \/ acct[j] \in LiveWords \cup EndWords

BeliefsAreTrue ==
    \A c \in Clients, j \in Jobs : Truthful(j, belief[c][j]) /\ Truthful(j, reply[c][j])

MarkFollowsScancel ==
    \A c \in Clients : pc[c] = "mark" => target[c] \subseteq scancelled

\* wait_job looks the job up again only after a terminal status.
FinalIsTerminal ==
    \A c \in Clients : pc[c] = "final" => \A j \in target[c] : belief[c][j] \in Terminal

TrackingInv ==
    /\ RecordedEndIsReal /\ SuccessIsReal
    /\ ViewsAreTrue /\ BeliefsAreTrue /\ MarkFollowsScancel /\ FinalIsTerminal

\* wait_job ends once sacct shows how the job ended, in a word that slurp can
\* read, unless the job ages out of accounting first.
WaitEnds ==
    \A c \in Clients, j \in Jobs :
        (call[c] = "wait" /\ j \in target[c] /\ KnownEnd(j)) ~> (call[c] # "wait" \/ j \in purged)

\* A running `watch` brings the store to rest: once sacct shows the end of a
\* recorded job, the record becomes terminal and stays so, whatever stale
\* answers other clients still apply.
StoreConverges ==
    Watchers # {} =>
        \A j \in Jobs :
            KnownEnd(j) /\ store[j] # None ~>
                [](store[j] \in Terminal \/ j \in purged)
============================================================================
