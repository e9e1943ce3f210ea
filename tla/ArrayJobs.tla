------------------------------ MODULE ArrayJobs ------------------------------
(***************************************************************************)
(* A job array (SyncClient.submit_array, src/slurp/client.py): the script   *)
(* gives each task its configuration, the store has one record under the    *)
(* array's own id, and tasks are asked for as "<array>_<task>".  sacct lists *)
(* tasks in rows of their own, as SLURM does, or collapses an array whose   *)
(* tasks are all in one state into a row of the array's id (JURECA, by the  *)
(* docstring of _sacct_lookup); squeue joins the tasks that wait in a row   *)
(* "<array>_[...]" that is nobody's id.                                     *)
(***************************************************************************)
EXTENDS SlurmCluster, Sweep

CONSTANTS
    Parent,   \* the array's own id; Jobs are its tasks, 0, 1, ...
    Sweeps    \* what may follow `slurp submit-array <template>`

ASSUME NamesAssumption == None \notin JobStatus /\ Parent \notin Jobs

\* There are ids for the tasks of every array.
ASSUME SweepsAssumption ==
    /\ Sweeps \subseteq Seq(Argument)
    /\ \A a \in Sweeps : \A n \in DOMAIN a : 0 .. Len(a[n].values) - 1 \subseteq Jobs

VARIABLES
    args,        \* the flags of the submission
    script,      \* what sbatch was given: the size of the array, the shell arrays
    collapses,   \* whether this cluster's sacct collapses arrays
    seen,        \* seen[i]: the parameters the command of task i runs with, None
                 \* before it runs
    record,      \* the array's record in the store: its status
    op, pc,      \* the operation and its place
    id,          \* whom it is about: a task or Parent
    handle,      \* the status in the Job it holds
    reply,       \* what SLURM answered and has not been applied yet
    results      \* the statuses of array_results, task by task

submission == <<args, script>>
clientVars == <<record, op, pc, id, handle, reply, results>>
vars == <<clusterVars, submission, collapses, seen, clientVars>>

Tasks == 0 .. script.size - 1

\* Mutant: --array=0-<n> for n configurations.
ScriptOneMore(configs) == [size |-> Len(configs) + 1, arrays |-> ArrayWrapper(configs)]

\* submit_array: the array has as many tasks as there are configurations.
Script(configs) == [size |-> Len(configs), arrays |-> ArrayWrapper(configs)]

TypeOK ==
    /\ ClusterTypeOK
    /\ args \in Sweeps /\ collapses \in BOOLEAN
    /\ Tasks \subseteq Jobs
    /\ record \in JobStatus
    /\ op \in {"none", "results", "wait", "refresh", "status", "reconcile"}
    /\ pc \in {"idle", "sacct", "parent", "squeue", "apply", "check", "final", "finalParent"}
    /\ id \in Jobs \cup {Parent}
    /\ handle \in JobStatus /\ reply \in JobStatus \cup {None}
    /\ results \in Seq(JobStatus) /\ Len(results) <= script.size

\* The array has been submitted: sbatch has its script, the store its record.
Init ==
    /\ args \in {a \in Sweeps : ParseSweepParams(a) # <<>>}
    /\ script = Script(BuildConfigs(ParseSweepParams(args)))
    /\ collapses \in BOOLEAN
    /\ ClusterInit(Tasks)
    /\ seen = [i \in Jobs |-> None]
    /\ record = "PENDING"
    /\ op = "none" /\ pc = "idle"
    /\ id = Parent /\ handle = "PENDING" /\ reply = None
    /\ results = <<>>

----------------------------------------------------------------------------
(* The cluster *)

TaskBegins(i) ==
    /\ Begin(i)
    /\ seen' = IF Parses(script.arrays)
                 THEN [seen EXCEPT ![i] =
                          Command(script.arrays, i, DOMAIN ParseSweepParams(args))]
                 ELSE seen

\* A script with a syntax error exits with 2.
TaskEnds(i) ==
    /\ End(i)
    /\ Parses(script.arrays) \/ real'[i] # "COMPLETED"

\* sacct does not forget the array here; JobTracking has that.
TaskGoesOn(i) ==
    /\ TaskEnds(i) \/ QueueReports(i) \/ AcctReports(i)
    /\ UNCHANGED seen

ClusterStep ==
    /\ \E i \in Tasks : TaskBegins(i) \/ TaskGoesOn(i)
    /\ UNCHANGED <<submission, collapses, clientVars>>

Collapsed == collapses /\ acct[0] # None /\ \A i \in Tasks : acct[i] = acct[0]

\* The ids that sacct has rows for, and what they say.
AcctIds == IF Collapsed THEN {Parent} ELSE {i \in Tasks : acct[i] \notin {None, "PENDING"}}
AcctWord(x) == IF x = Parent THEN acct[0] ELSE acct[x]

\* sacct -j: the array's id stands for all its rows, a task's for its own.
SacctRows(x) == IF x = Parent THEN AcctIds ELSE AcctIds \cap {x}

\* What _status_from_squeue may make of squeue: the task's own row, or else
\* whichever row of the array comes first.
SqueueStatuses(x) ==
    LET listed == {i \in Tasks : queue[i] # None}
        own == {i \in listed : i = x /\ queue[i] # "PENDING"}
    IN {SqueueStatus(queue[i]) : i \in IF own # {} THEN own ELSE listed}

----------------------------------------------------------------------------
(* Operations *)

Enter(operation, x, status) ==
    /\ op' = operation /\ id' = x /\ handle' = status
    /\ pc' = "sacct" /\ reply' = None

\* The operation returns or raises; its handle is gone.
Leave ==
    /\ op' = "none" /\ pc' = "idle" /\ reply' = None
    /\ id' = Parent /\ handle' = "PENDING"

Begins(operation, x, status) ==
    /\ op = "none"
    /\ Enter(operation, x, status)
    /\ results' = <<>>
    /\ UNCHANGED <<clusterVars, submission, collapses, seen, record>>

\* array_results waits for the tasks one after the other.
ArrayResults == Begins("results", 0, "PENDING")

\* wait_job of the array's own Job, as JobBundling.join has it.
WaitArray == Begins("wait", Parent, record)

\* status(<array>) finds the record and refreshes it; so does Job.refresh.
RefreshArray == Begins("refresh", Parent, record)

\* refresh_job of a Job of array_tasks.
RefreshTask == \E i \in Tasks : Begins("refresh", i, "PENDING")

\* status(<array>_<task>) finds no record.
StatusTask == \E i \in Tasks : Begins("status", i, "PENDING")

\* list_jobs and watch ask for a record that is not terminal.
Reconcile == record \notin Terminal /\ Begins("reconcile", Parent, record)

Unmoved == UNCHANGED <<clusterVars, submission, collapses, seen, record, results>>

Goto(place) == pc' = place /\ UNCHANGED <<op, id, handle, reply>> /\ Unmoved

Heard(status) == reply' = status /\ pc' = "apply" /\ UNCHANGED <<op, id, handle>> /\ Unmoved

GiveUp == Leave /\ Unmoved

\* Mutant: a task's row is taken for its array's.
SacctAnswersByPrefix ==
    /\ pc = "sacct"
    /\ \E x \in SacctRows(id) : Heard(SacctStatus(AcctWord(x)))

SacctAnswers ==
    /\ pc = "sacct" /\ id \in SacctRows(id)
    /\ Heard(SacctStatus(AcctWord(id)))

\* No row, or sacct_query failed, which looks the same: refresh_job asks for a
\* task's array, then squeue; status goes to squeue at once; reconciling makes
\* do with sacct.
SacctMisses ==
    /\ pc = "sacct"
    /\ IF op = "reconcile" THEN GiveUp
       ELSE Goto(IF id # Parent /\ op # "status" THEN "parent" ELSE "squeue")

\* Mutant: of the array's rows the first one counts.
FirstRow == CHOOSE x \in AcctIds \cup {Parent} : AcctIds # {} => x \in AcctIds

\* Mutant: only the task's own row counts.
OwnRow == id

\* The fallback of _sacct_lookup: the task's own row among those of the array,
\* or the row of the array.
ParentRow == IF id \in SacctRows(Parent) THEN id ELSE Parent

ParentAnswers ==
    /\ pc = "parent" /\ ParentRow \in SacctRows(Parent)
    /\ Heard(SacctStatus(AcctWord(ParentRow)))

ParentMisses ==
    /\ pc = "parent"
    /\ Goto("squeue")

SqueueAnswers ==
    /\ pc = "squeue"
    /\ \E s \in SqueueStatuses(id) : Heard(s)

Waits == op \in {"wait", "results"}

SqueueMisses ==
    /\ pc = "squeue"
    /\ IF Waits THEN Goto("check") ELSE GiveUp

\* update_job_status finds a record for the array's id only.
Apply ==
    /\ pc = "apply"
    /\ record' = IF id = Parent /\ reply # handle THEN reply ELSE record
    /\ IF Waits
         THEN handle' = reply /\ reply' = None /\ pc' = "check" /\ UNCHANGED <<op, id>>
         ELSE Leave
    /\ UNCHANGED <<clusterVars, submission, collapses, seen, results>>

----------------------------------------------------------------------------
(* wait_job *)

WaitOn ==
    /\ pc = "check" /\ handle \notin Terminal
    /\ Goto("sacct")

WaitOver ==
    /\ pc = "check" /\ handle \in Terminal
    /\ Goto("final")

\* The result is in the list, or JobFailedError ends array_results, and with
\* it the waiting for the tasks that follow.
Conclude(status, zeroExit) ==
    LET raises == \/ status \in {"FAILED", "TIMEOUT", "CANCELLED"}
                  \/ status = "COMPLETED" /\ ~zeroExit
    IN /\ results' = IF op = "results" THEN Append(results, status) ELSE results
       /\ IF op = "results" /\ ~raises /\ id + 1 \in Tasks
            THEN Enter("results", id + 1, "PENDING")
            ELSE Leave
       /\ UNCHANGED <<clusterVars, submission, collapses, seen, record>>

FinalAnswers ==
    /\ pc = "final" /\ id \in SacctRows(id)
    /\ Conclude(SacctStatus(AcctWord(id)), AcctWord(id) = "COMPLETED")

FinalMisses ==
    /\ pc = "final" /\ id # Parent
    /\ Goto("finalParent")

FinalParentAnswers ==
    /\ pc = "finalParent" /\ ParentRow \in SacctRows(Parent)
    /\ Conclude(SacctStatus(AcctWord(ParentRow)), AcctWord(ParentRow) = "COMPLETED")

\* Neither lookup has a row: no exit code, and the status of the refresh.
NoFinal ==
    /\ pc = "finalParent" \/ (pc = "final" /\ id = Parent)
    /\ Conclude(handle, FALSE)

\* TimeoutError, Ctrl+C, an exception of the store.
Abort ==
    /\ op # "none"
    /\ GiveUp

Proceeds ==
    \/ SacctAnswers \/ SacctMisses \/ ParentAnswers \/ ParentMisses
    \/ SqueueAnswers \/ SqueueMisses \/ Apply
    \/ WaitOn \/ WaitOver
    \/ FinalAnswers \/ FinalMisses \/ FinalParentAnswers \/ NoFinal

Next ==
    \/ ClusterStep
    \/ ArrayResults \/ WaitArray \/ RefreshArray \/ RefreshTask \/ StatusTask \/ Reconcile
    \/ Proceeds \/ Abort

Spec == Init /\ [][Next]_vars

\* As in JobTracking: an operation goes on, and a query that is asked again and
\* again is answered at last.
Fairness == WF_vars(Proceeds) /\ SF_vars(SacctAnswers \/ ParentAnswers)

FairSpec == Spec /\ Fairness

\* Besides, the rows of squeue follow the tasks.
FairClusterSpec == FairSpec /\ \A i \in Jobs : WF_vars(ClusterStep /\ QueueReports(i))

----------------------------------------------------------------------------
(* Properties *)

\* Task i of the array runs with the i-th value of each list, or with the last
\* one of a list that is shorter: through the parsing of the flags, the
\* configurations, the shell arrays and SLURM's numbering of tasks.  Two keys
\* that differ only in case share a variable and are excepted; a task whose
\* script bash cannot parse runs nothing.
TaskRunsItsConfig ==
    WellFormed(args) =>
        /\ script.size = TaskCount(args)
        /\ \A i \in Tasks, k \in SweepKeys(args) :
              seen[i] # None /\ Alone(args, k) => seen[i][k] = MeantFor(args, i, k)

EndedAs(i, status) == Ended(i) /\ SacctStatus(real[i]) = status

\* array_results and every handle give an end of a task only to the task that
\* came to it, although a task may be answered for by the row of its array or
\* by that of another task (_sacct_lookup, _status_from_squeue).
TaskEndIsReal ==
    /\ \A n \in DOMAIN results : results[n] \in Terminal => EndedAs(n - 1, results[n])
    /\ id # Parent => \A s \in {handle, reply} \cap Terminal : EndedAs(id, s)

\* The record of the array says that it ended only when every task did so.
ArrayEndIsReal == record \in Terminal => \A i \in Tasks : EndedAs(i, record)

AllKnown == \A i \in Tasks : KnownEnd(i)

\* array_results comes to an end once sacct knows how the tasks ended, whether
\* or not it collapses the array.
ResultsEnd == (op = "results" /\ AllKnown) ~> (op # "results")

\* "Block until all pending .distribute() calls finish" (src/slurp/task.py:332):
\* a wait for an array ends when its tasks have.
ArrayWaitEnds == (op = "wait" /\ AllKnown) ~> (op # "wait")
==============================================================================
