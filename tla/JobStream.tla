----------------------------- MODULE JobStream -----------------------------
(***************************************************************************)
(* The live view of the web UI: JobStream.events (src/slurp/webui/sse.py)   *)
(* behind GET /stream, over a SyncClient of its own and the SSH connection  *)
(* it caches (src/slurp/core/ssh.py), and the job store that other processes *)
(* write too.                                                              *)
(*                                                                         *)
(* A connection belongs to the event loop that made it.  The client's       *)
(* queries run on its background loop; the log poll iterates job_logs in    *)
(* the server's loop, where SyncClient._run falls back to a loop of its own *)
(* for each command, which is gone when the command has ended.              *)
(*                                                                         *)
(* What SLURM answers is one word per job here: the lag of its two views is *)
(* JobTracking's.  Log text is left out, and so is the experiment filter.   *)
(***************************************************************************)
EXTENDS Domain, Integers, FiniteSets, FiniteSetsExt

CONSTANTS
    Jobs,    \* job ids, in the order in which jobs.json lists them
    Limit,   \* how many of them list_jobs returns to the web UI (200)
    Ends     \* the states in which a job can end

ASSUME JobsAssumption == Jobs \subseteq Int /\ IsFiniteSet(Jobs)
ASSUME LimitAssumption == Limit \in Nat \ {0}
ASSUME EndsAssumption == Ends \subseteq Terminal
ASSUME NoneAssumption == None \notin JobStatus

VARIABLES
    slurm,     \* slurm[j]: the state of job j
    network,   \* whether the login node can be reached
    store,     \* store[j]: the status in jobs.json, None without a record
    pc,        \* where the stream is; "off" when the page has none
    conn,      \* whose loop the connection cached by the stream's client is of
    listed,    \* the jobs of this round, with the status list_jobs gave
    answer,    \* what SLURM answered and the client has not applied yet
    todo,      \* listed jobs that this round has still to look at
    current,   \* the refreshed jobs of this round
    last,      \* _last_jobs, those of the round before
    told,      \* told[j]: what a reader of all events so far takes j to be
    reopened   \* there was a stream before this one

worldVars == <<slurm, network>>
roundVars == <<listed, answer, todo, current, last>>
toldVars  == <<told, reopened>>
vars == <<worldVars, store, pc, conn, roundVars, toldVars>>

Table   == [Jobs -> JobStatus \cup {None}]
Nothing == [j \in Jobs |-> None]
Known(table) == {j \in Jobs : table[j] # None}

TypeOK ==
    /\ slurm \in [Jobs -> JobStatus] /\ network \in {"up", "down"}
    /\ {store, listed, answer, current, last, told} \subseteq Table
    /\ pc \in {"off", "list", "reconcile", "apply", "refresh", "update", "logs"}
    /\ conn \in {"none", "own", "gone"}
    /\ todo \subseteq Jobs
    /\ reopened \in BOOLEAN

----------------------------------------------------------------------------
(* The client: list_jobs, refresh_job and the connection *)

Open(table) == {j \in Known(table) : table[j] \notin Terminal}

\* list_jobs stops after the first `limit` records.
FirstOf(table) ==
    [j \in Jobs |->
        IF Cardinality({i \in Known(table) : i < j}) < Limit THEN table[j] ELSE None]

\* What replies say goes before what was known.
Updated(table, replies) ==
    [j \in Jobs |-> IF table[j] # None /\ replies[j] # None THEN replies[j] ELSE table[j]]

\* update_job_status, for every job whose handle differs from the reply.
Recorded(handles, replies) ==
    [j \in Jobs |-> IF /\ store[j] # None /\ replies[j] # None
                       /\ handles[j] # None /\ handles[j] # replies[j]
                    THEN replies[j] ELSE store[j]]

\* get_connection in a loop that ends with the command: it returns a cached
\* connection that is not closed, also one of another loop, which the command
\* cannot use; otherwise the new connection is left in the cache without a loop.
FallbackRun(before, after) ==
    after \in IF before = "none" /\ network = "up" THEN {"none", "gone"} ELSE {before}

\* The same on the background loop: only a connection of its own serves.
QueryAnswered(before, after) == network = "up" /\ before # "gone" /\ after = "own"

\* Refused, lost, timed out, or a connection of another loop: sacct_query and
\* squeue_query log it and return nothing.
QueryFails(before, after) ==
    after \in IF before = "none" /\ network = "up" THEN {"none", "own"} ELSE {before}

----------------------------------------------------------------------------
\* The page has loaded and opens its first stream.
Init ==
    /\ slurm \in [Jobs -> {"RUNNING"}] /\ network = "up"
    /\ store \in [Jobs -> {"RUNNING", None}]
    /\ pc = "off" /\ conn = "none"
    /\ listed = Nothing /\ answer = Nothing /\ todo = {}
    /\ current = Nothing /\ last = Nothing
    /\ told = Nothing /\ reopened = FALSE

(* The stream *)

\* connectSSE, at first and after every error: a new JobStream and a new client.
Connect ==
    /\ pc = "off"
    /\ pc' = "list"
    /\ conn' = "none"
    /\ listed' = Nothing /\ answer' = Nothing /\ todo' = {}
    /\ current' = Nothing /\ last' = Nothing
    /\ reopened' = (reopened \/ told # Nothing)
    /\ UNCHANGED <<worldVars, store, told>>

\* The stream ends: the browser goes away, list_jobs raises (server_error) or
\* update_job_status does, which events() does not catch.  The client stays as
\* it is; nobody closes it.
Disconnect ==
    /\ pc # "off"
    /\ pc' = "off"
    /\ UNCHANGED <<worldVars, store, conn, roundVars, toldVars>>

\* Mutant: only jobs that are not known to have ended are refreshed.
BeginOpenRound(table) ==
    /\ listed' = FirstOf(table)
    /\ todo' = Open(FirstOf(table))
    /\ current' = Nothing
    /\ pc' = "refresh"

BeginRound(table) ==
    /\ listed' = FirstOf(table)
    /\ todo' = Known(FirstOf(table))
    /\ current' = Nothing
    /\ pc' = "refresh"

\* _reconcile_store reads the records; it has a query to make only if some of
\* them are open.
ListRecords ==
    /\ pc = "list"
    /\ IF Open(store) = {} THEN BeginRound(store)
       ELSE pc' = "reconcile" /\ listed' = store /\ UNCHANGED <<todo, current>>
    /\ UNCHANGED <<worldVars, store, conn, answer, last, toldVars>>

\* sacct answers about any of them.
Reconciled ==
    /\ pc = "reconcile"
    /\ QueryAnswered(conn, conn')
    /\ \E known \in SUBSET Open(listed) :
          answer' = [j \in Jobs |-> IF j \in known THEN slurm[j] ELSE None]
    /\ pc' = "apply"
    /\ UNCHANGED <<worldVars, store, listed, todo, current, last, toldVars>>

ReconcileFails ==
    /\ pc = "reconcile"
    /\ QueryFails(conn, conn')
    /\ BeginRound(listed)
    /\ UNCHANGED <<worldVars, store, answer, last, toldVars>>

\* The updates of the store are calls of their own; one step here.
ApplyReconciled ==
    /\ pc = "apply"
    /\ store' = Recorded(listed, answer)
    /\ BeginRound(Updated(listed, answer))
    /\ answer' = Nothing
    /\ UNCHANGED <<worldVars, conn, last, toldVars>>

\* refresh_job of the next job: sacct, and squeue if that had nothing.
RefreshAnswered(j) ==
    /\ pc = "refresh" /\ j \in todo /\ j = Min(todo)
    /\ QueryAnswered(conn, conn')
    /\ answer' = [answer EXCEPT ![j] = slurm[j]]
    /\ pc' = "update"
    /\ UNCHANGED <<worldVars, store, listed, todo, current, last, toldVars>>

RefreshFails ==
    /\ pc = "refresh" /\ todo # {}
    /\ QueryFails(conn, conn')
    /\ pc' = "update"
    /\ UNCHANGED <<worldVars, store, roundVars, toldVars>>

\* Mutant: the delta is taken against the handle of list_jobs.
UpdateByHandle(j) ==
    LET status == IF answer[j] # None THEN answer[j] ELSE listed[j]
        isNews == last[j] = None \/ listed[j] # status
    IN  /\ pc = "update" /\ j \in todo /\ j = Min(todo)
        /\ store' = Recorded(listed, answer)
        /\ current' = [current EXCEPT ![j] = status]
        /\ told' = IF isNews THEN [told EXCEPT ![j] = status] ELSE told
        /\ answer' = Nothing
        /\ pc' = "logs"
        /\ UNCHANGED <<worldVars, conn, listed, todo, last, reopened>>

\* refresh_job records a changed status, and events() yields job_update for a
\* job that is new or differs from the round before.
Update(j) ==
    LET status == IF answer[j] # None THEN answer[j] ELSE listed[j]
        isNews == last[j] # status
    IN  /\ pc = "update" /\ j \in todo /\ j = Min(todo)
        /\ store' = Recorded(listed, answer)
        /\ current' = [current EXCEPT ![j] = status]
        /\ told' = IF isNews THEN [told EXCEPT ![j] = status] ELSE told
        /\ answer' = Nothing
        /\ pc' = "logs"
        /\ UNCHANGED <<worldVars, conn, listed, todo, last, reopened>>

\* _poll_logs; the server's loop stands still meanwhile.
PollLogs ==
    /\ pc = "logs"
    /\ FallbackRun(conn, conn')
    /\ todo' = todo \ {Min(todo)}
    /\ pc' = "refresh"
    /\ UNCHANGED <<worldVars, store, listed, answer, current, last, toldVars>>

\* Mutant: REMOVED is taken for a status.
EndRoundMarks ==
    /\ pc = "refresh" /\ todo = {}
    /\ LET removed == Known(last) \ Known(current)
       IN  told' = [j \in Jobs |-> IF j \in removed THEN "REMOVED" ELSE told[j]]
    /\ last' = current
    /\ listed' = Nothing /\ current' = Nothing
    /\ pc' = "list"
    /\ UNCHANGED <<worldVars, store, conn, answer, todo, reopened>>

\* Jobs of the last round that are not listed any more are REMOVED; sleep.
EndRound ==
    /\ pc = "refresh" /\ todo = {}
    /\ LET removed == Known(last) \ Known(current)
       IN  told' = [j \in Jobs |-> IF j \in removed THEN None ELSE told[j]]
    /\ last' = current
    /\ listed' = Nothing /\ current' = Nothing
    /\ pc' = "list"
    /\ UNCHANGED <<worldVars, store, conn, answer, todo, reopened>>

----------------------------------------------------------------------------
(* Meanwhile: SLURM, the network, and other processes at the store *)

JobEnds(j) ==
    /\ slurm[j] \notin Terminal
    /\ \E w \in Ends : slurm' = [slurm EXCEPT ![j] = w]
    /\ UNCHANGED <<network, store, pc, conn, roundVars, toldVars>>

NetworkChanges ==
    /\ network' = IF network = "up" THEN "down" ELSE "up"
    /\ UNCHANGED <<slurm, store, pc, conn, roundVars, toldVars>>

\* The background loop notices that its connection is lost; a connection whose
\* loop is gone has nobody who could notice.
ConnectionLost ==
    /\ conn = "own" /\ network = "down"
    /\ conn' = "none"
    /\ UNCHANGED <<worldVars, store, pc, roundVars, toldVars>>

\* A submission is recorded, or somebody else's query, now or late.
OthersRecord(j) ==
    /\ \E w \in {"RUNNING", slurm[j]} : store' = [store EXCEPT ![j] = w]
    /\ UNCHANGED <<worldVars, pc, conn, roundVars, toldVars>>

\* jobs.json is damaged and moved away.
StoreStartsAfresh ==
    /\ store' = Nothing
    /\ UNCHANGED <<worldVars, pc, conn, roundVars, toldVars>>

----------------------------------------------------------------------------
Refreshes == RefreshFails \/ \E j \in Jobs : RefreshAnswered(j)

StreamNext ==
    \/ Connect \/ ListRecords \/ Reconciled \/ ReconcileFails \/ ApplyReconciled
    \/ Refreshes \/ (\E j \in Jobs : Update(j)) \/ PollLogs \/ EndRound

Next ==
    \/ StreamNext \/ Disconnect
    \/ NetworkChanges \/ ConnectionLost \/ StoreStartsAfresh
    \/ \E j \in Jobs : JobEnds(j) \/ OthersRecord(j)

Spec == Init /\ [][Next]_vars

\* The generator goes on after each poll, the browser connects again; a query
\* that is made again and again while it can succeed does.
Fairness ==
    /\ WF_vars(StreamNext)
    /\ \A j \in Jobs : SF_vars(RefreshAnswered(j))

FairSpec == Spec /\ Fairness

----------------------------------------------------------------------------
(* Properties *)

\* events() sends deltas only, computed from handles, replies and rounds while
\* other clients write the records: at the end of every round somebody who read
\* all events has the status of every listed job, and of no job that has left
\* the list, except one that left while no stream was open.
StreamTellsAll ==
    pc = "list" => \A j \in Jobs : told[j] = last[j] \/ (last[j] = None /\ reopened)

\* The inductive invariant behind it.  Within a round, of a job that was looked
\* at the reader has the new status, of the others that of the round before.
AheadOf(table, j) == told[j] = table[j] \/ (table[j] = None /\ reopened)

BetweenRounds ==
    pc \in {"list", "reconcile", "apply"} => \A j \in Jobs : AheadOf(last, j)

WithinRound ==
    pc \in {"refresh", "update", "logs"} =>
        /\ \A j \in Jobs : IF current[j] = None THEN AheadOf(last, j) ELSE told[j] = current[j]
        /\ \A j \in todo : listed[j] # None
        /\ \A j \in todo : current[j] = None \/ (pc = "logs" /\ j = Min(todo))

TellingInv == BetweenRounds /\ WithinRound

\* The log poll never takes the connection away from a stream that has one.
ConnectionIsKept ==
    [][conn = "own" => conn' # "gone"]_vars

\* Once the stream and the network stay up, the end of every listed job is told,
\* whatever failed before and whatever others record, unless a log poll was the
\* first to reach the login node and left the stream its dead connection.
StreamConverges ==
    <>[](network = "up" /\ pc # "off") =>
        \A j \in Jobs :
            slurm[j] \in Ends ~>
                (told[j] = slurm[j] \/ conn = "gone" \/ j \notin Known(FirstOf(store)))
============================================================================
