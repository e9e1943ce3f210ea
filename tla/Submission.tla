----------------------------- MODULE Submission -----------------------------
(***************************************************************************)
(* submit and submit_array (src/slurp/client.py) from the duplicate test to *)
(* the record: rsync into a remote directory that every client of the       *)
(* project shares, `uv sync` of its virtual environment, sbatch, the        *)
(* snapshot, append_job.  One action is one remote command or one call of   *)
(* the store, which is atomic (JobStore implements AtomicJobStore).  The    *)
(* profile is one with a [sync] and a [venv] section.                       *)
(*                                                                          *)
(* A call is in progress until its last coroutine and the remote command of *)
(* that have ended: Ctrl+C and a timeout end the wait for them, not them    *)
(* (_run, client.py).  Whoever calls again before that is another member of *)
(* Clients, though the same process, and the two calls overlap.             *)
(*                                                                          *)
(* Code is abstracted to the version of the checkout it was synced from,    *)
(* each with a uv.lock of its own.  Files of several versions side by side  *)
(* are the set of those versions; a job that can find none of its files     *)
(* has the empty set.                                                       *)
(***************************************************************************)
EXTENDS StoreData, FiniteSets

CONSTANTS
    Clients,   \* callers that share the store and the remote directory
    Versions,  \* versions of the project
    Calls      \* Calls[c]: the calls client c makes

CallRecords == [kind : {"submit", "array"}, hash : Hashes, version : Versions,
                sync : BOOLEAN, snapshot : BOOLEAN]

ASSUME CallsAssumption == Calls \in [Clients -> SUBSET CallRecords]
ASSUME CallRecordsAssumption == None \notin CallRecords

VARIABLES
    store,        \* jobs.json
    aged,         \* recorded jobs submitted more than 30 s ago
    cluster,      \* the jobs on the cluster: waiting, or started
    submission,   \* submission[j]: the call that submitted j
    ran,          \* ran[j]: the versions in the snapshot that j started in, if it did
    tree,         \* the versions whose files are in the remote directory
    snap,         \* snap[j]: the versions in .slurp/runs/<j>, None if it is not there
    venv,         \* the lock files that the virtual environment's packages come from
    marker,       \* <venv>/.lockhash
    pc, call,     \* per client: where it is, and in which call
    job,          \* the job in its hands, or the duplicate it was refused for
    lock,         \* the hash _sync_venv took of uv.lock
    overlapped,   \* clients whose call overlapped another client's
    alone         \* recorded jobs whose submission overlapped no other

remoteVars == <<tree, snap, venv, marker>>
clusterVars == <<cluster, submission, ran>>
storeVars == <<store, aged, alone>>
vars == <<storeVars, clusterVars, remoteVars, pc, call, job, lock, overlapped>>

NoCall == None

Resting == {"idle", "refused"}
Labels == Resting \cup {"sync", "syncing", "venv", "building", "sbatch", "snapshot", "append"}

TypeOK ==
    /\ store \in Content
    /\ aged \in SUBSET Jobs
    /\ cluster \in [Jobs -> {None, "PENDING", "RUNNING"}]
    /\ submission \in [Jobs -> CallRecords \cup {NoCall}]
    /\ ran \in [Jobs -> (SUBSET Versions) \cup {None}]
    /\ tree \in SUBSET Versions
    /\ snap \in [Jobs -> (SUBSET Versions) \cup {None}]
    /\ venv \in SUBSET Versions
    /\ marker \in Versions \cup {None}
    /\ pc \in [Clients -> Labels]
    /\ call \in [Clients -> CallRecords \cup {NoCall}]
    /\ job \in [Clients -> Jobs \cup {None}]
    /\ lock \in [Clients -> Versions \cup {None}]
    /\ overlapped \in SUBSET Clients
    /\ alone \in SUBSET Jobs

Init ==
    /\ store = Empty
    /\ aged = {}
    /\ cluster = [j \in Jobs |-> None]
    /\ submission = [j \in Jobs |-> NoCall]
    /\ ran = [j \in Jobs |-> None]
    /\ tree = {}
    /\ snap = [j \in Jobs |-> None]
    /\ venv = {}
    /\ marker = None
    /\ pc = [c \in Clients |-> "idle"]
    /\ call = [c \in Clients |-> NoCall]
    /\ job = [c \in Clients |-> None]
    /\ lock = [c \in Clients |-> None]
    /\ overlapped = {}
    /\ alone = {}

Goto(c, label) == pc' = [pc EXCEPT ![c] = label]

----------------------------------------------------------------------------
(* The duplicate test and the start of a call *)

InProgress == {c \in Clients : pc[c] \notin Resting}

\* c's call overlaps those in progress, and they overlap it.
NoteOverlap(c) ==
    overlapped' = IF InProgress = {} THEN overlapped ELSE overlapped \cup InProgress \cup {c}

\* The call is over, and so are its local variables.
Leave(c) ==
    /\ call' = [call EXCEPT ![c] = NoCall]
    /\ job' = [job EXCEPT ![c] = None]
    /\ lock' = [lock EXCEPT ![c] = None]
    /\ overlapped' = overlapped \ {c}
    /\ Goto(c, "idle")

\* The bound of the model: a call starts only if a job id is left for it.
IdLeft ==
    Cardinality({j \in Jobs : cluster[j] = None}) >
        Cardinality({c \in InProgress : job[c] = None})

Enter(c, k) ==
    /\ IdLeft
    /\ call' = [call EXCEPT ![c] = k]
    /\ job' = [job EXCEPT ![c] = None]
    /\ Goto(c, IF k.sync THEN "sync" ELSE "venv")
    /\ NoteOverlap(c)
    /\ UNCHANGED <<storeVars, clusterVars, remoteVars, lock>>

Submit(c, k) ==
    /\ pc[c] \in Resting
    /\ k.kind = "submit"
    /\ CheckIdempotency(store, k.hash, aged) = None
    /\ Enter(c, k)

\* SlurmError: a job with the same specification was submitted recently.
Refuse(c, k) ==
    /\ pc[c] \in Resting
    /\ k.kind = "submit"
    /\ CheckIdempotency(store, k.hash, aged) # None
    /\ call' = [call EXCEPT ![c] = k]
    /\ job' = [job EXCEPT ![c] = CheckIdempotency(store, k.hash, aged)]
    /\ Goto(c, "refused")
    /\ UNCHANGED <<storeVars, clusterVars, remoteVars, lock, overlapped>>

\* submit_array tests no hash and stores none.
SubmitArray(c, k) ==
    /\ pc[c] \in Resting
    /\ k.kind = "array"
    /\ Enter(c, k)

----------------------------------------------------------------------------
(* rsync --delete: --delete works on the top directory first, and nothing   *)
(* protects .slurp/runs there; files then arrive one by one                 *)

SyncBegins(c) ==
    /\ pc[c] = "sync"
    /\ tree' = tree \cup {call[c].version}
    /\ snap' = [j \in Jobs |-> None]
    /\ Goto(c, "syncing")
    /\ UNCHANGED <<storeVars, clusterVars, venv, marker, call, job, lock, overlapped>>

\* Mutant: rsync without --delete.
SyncKeepsOldFiles(c) ==
    /\ pc[c] = "syncing"
    /\ Goto(c, "venv")
    /\ UNCHANGED <<storeVars, clusterVars, remoteVars, call, job, lock, overlapped>>

\* Files that another client's rsync wrote meanwhile may stay.
SyncFinishes(c) ==
    /\ pc[c] = "syncing"
    /\ tree' \in {{call[c].version}, IF c \in overlapped THEN tree ELSE {call[c].version}}
    /\ Goto(c, "venv")
    /\ UNCHANGED <<storeVars, clusterVars, snap, venv, marker, call, job, lock, overlapped>>

----------------------------------------------------------------------------
(* _sync_venv: one remote shell command *)

\* The hash of uv.lock equals .lockhash: nothing to do.
VenvCurrent(c) ==
    /\ pc[c] = "venv"
    /\ marker \in tree \/ tree = {}
    /\ Goto(c, "sbatch")
    /\ UNCHANGED <<storeVars, clusterVars, remoteVars, call, job, lock, overlapped>>

\* It differs: `uv sync` starts to install and remove packages in place.
VenvBuildBegins(c) ==
    /\ pc[c] = "venv"
    /\ \E v \in tree \ {marker} :
          /\ lock' = [lock EXCEPT ![c] = v]
          /\ venv' = venv \cup {v}
    /\ Goto(c, "building")
    /\ UNCHANGED <<storeVars, clusterVars, tree, snap, marker, call, job, overlapped>>

\* uv reads uv.lock itself, which another client's rsync may have replaced.
VenvBuildFinishes(c) ==
    /\ pc[c] = "building"
    /\ \E v \in IF c \in overlapped THEN tree \cup {lock[c]} ELSE {lock[c]} :
          venv' \in {{v}, IF c \in overlapped THEN venv \cup {v} ELSE {v}}
    /\ marker' = lock[c]
    /\ lock' = [lock EXCEPT ![c] = None]
    /\ Goto(c, "sbatch")
    /\ UNCHANGED <<storeVars, clusterVars, tree, snap, call, job, overlapped>>

----------------------------------------------------------------------------
(* sbatch, the snapshot, the record *)

\* Mutant: a reply of sbatch without a job id is taken for one.
SbatchUnparsed(c) ==
    /\ pc[c] = "sbatch"
    /\ \E j \in Jobs :
          /\ cluster[j] = None
          /\ cluster' = [cluster EXCEPT ![j] = "PENDING"]
          /\ submission' = [submission EXCEPT ![j] = call[c]]
          /\ job' \in {[job EXCEPT ![c] = j], [job EXCEPT ![c] = None]}
    /\ Goto(c, "append")
    /\ UNCHANGED <<storeVars, remoteVars, ran, call, lock, overlapped>>

\* The script is written, sbatch accepts it, the script is removed.
Sbatch(c) ==
    /\ pc[c] = "sbatch"
    /\ \E j \in Jobs :
          /\ cluster[j] = None
          /\ cluster' = [cluster EXCEPT ![j] = "PENDING"]
          /\ submission' = [submission EXCEPT ![j] = call[c]]
          /\ job' = [job EXCEPT ![c] = j]
    /\ Goto(c, IF call[c].snapshot THEN "snapshot" ELSE "append")
    /\ UNCHANGED <<storeVars, remoteVars, ran, call, lock, overlapped>>

\* find's -exec hides a cp that failed: files may be missing from the copy.
TakeSnapshot(c) ==
    /\ pc[c] = "snapshot"
    /\ \E files \in {tree, {}} : snap' = [snap EXCEPT ![job[c]] = files]
    /\ Goto(c, "append")
    /\ UNCHANGED <<storeVars, clusterVars, tree, venv, marker, call, job, lock, overlapped>>

\* The command fails or times out half-way: SyncError, and no record.
SnapshotFails(c) ==
    /\ pc[c] = "snapshot"
    /\ \/ snap' = [snap EXCEPT ![job[c]] = {}]
       \/ UNCHANGED snap
    /\ Leave(c)
    /\ UNCHANGED <<storeVars, clusterVars, tree, venv, marker>>

\* Mutant: the record carries no hash.
AppendWithoutHash(c) ==
    /\ pc[c] = "append"
    /\ store' = AppendJob(store, job[c], None, aged)
    /\ alone' = IF c \in overlapped THEN alone ELSE alone \cup {job[c]}
    /\ Leave(c)
    /\ UNCHANGED <<aged, clusterVars, remoteVars>>

\* Mutant: array jobs leave an entry too.
AppendHashOfArrays(c) ==
    /\ pc[c] = "append"
    /\ store' = AppendJob(store, job[c], call[c].hash, aged)
    /\ alone' = IF c \in overlapped THEN alone ELSE alone \cup {job[c]}
    /\ Leave(c)
    /\ UNCHANGED <<aged, clusterVars, remoteVars>>

Append(c) ==
    /\ pc[c] = "append"
    /\ store' = AppendJob(store, job[c], IF call[c].kind = "submit" THEN call[c].hash ELSE None,
                          aged)
    /\ alone' = IF c \in overlapped THEN alone ELSE alone \cup {job[c]}
    /\ Leave(c)
    /\ UNCHANGED <<aged, clusterVars, remoteVars>>

\* The end of a call that raised (rsync, uv sync, sbatch, the reply of sbatch or
\* the rm after it lost, the store), or was interrupted or killed.  What it had
\* begun has run to its end, in steps before this one, or broken off; nothing
\* is undone, and a job in its hands is forgotten.
Fail(c) ==
    /\ pc[c] \notin Resting
    /\ Leave(c)
    /\ UNCHANGED <<storeVars, clusterVars, remoteVars>>

----------------------------------------------------------------------------
(* Meanwhile: the cluster, the clock, and the clients that track jobs *)

\* The script's cd into a directory that is not there fails, and the command
\* runs where sbatch was called, in the remote directory.  The script of an
\* array never names the snapshot.
SnapshotOf(j) ==
    IF submission[j].kind = "submit" /\ submission[j].snapshot THEN snap[j] ELSE None

Begin(j) ==
    /\ cluster[j] = "PENDING"
    /\ cluster' = [cluster EXCEPT ![j] = "RUNNING"]
    /\ ran' = [ran EXCEPT ![j] = SnapshotOf(j)]
    /\ UNCHANGED <<storeVars, submission, remoteVars, pc, call, job, lock, overlapped>>

\* A record may say anything the job has been: answers lag.  How a job ends, and
\* what becomes of its record then, is JobTracking's.
Track(j) ==
    /\ store.jobs[j] # None
    /\ \E s \in {"PENDING", cluster[j]} : store' = UpdateStatus(store, j, s)
    /\ UNCHANGED <<aged, alone, clusterVars, remoteVars, pc, call, job, lock, overlapped>>

Age(j) ==
    /\ store.jobs[j] # None
    /\ aged' = aged \cup {j}
    /\ UNCHANGED <<store, alone, clusterVars, remoteVars, pc, call, job, lock, overlapped>>

----------------------------------------------------------------------------
ClientNext(c) ==
    \/ \E k \in Calls[c] : Submit(c, k) \/ Refuse(c, k) \/ SubmitArray(c, k)
    \/ SyncBegins(c) \/ SyncFinishes(c)
    \/ VenvCurrent(c) \/ VenvBuildBegins(c) \/ VenvBuildFinishes(c)
    \/ Sbatch(c) \/ TakeSnapshot(c) \/ SnapshotFails(c) \/ Append(c) \/ Fail(c)

Next ==
    \/ \E c \in Clients : ClientNext(c)
    \/ \E j \in Jobs : Begin(j) \/ Track(j) \/ Age(j)

Spec == Init /\ [][Next]_vars

----------------------------------------------------------------------------
(* What a submission promises *)

\* Recorded, waiting on the cluster, younger than the window.
Waiting(j) == store.jobs[j] # None /\ cluster[j] = "PENDING" /\ j \notin aged

SameSpecification(i, j) ==
    submission[i].kind = "submit" /\ submission[j].kind = "submit"
        /\ submission[i].hash = submission[j].hash

\* The 30 s window (check_idempotency in submit): two recorded jobs with one
\* specification wait in the queue within the window only if one of the two
\* submissions overlapped another.  (Not: overlapped the other one.  After an
\* overlap the entry names the later job, and once that has started a third
\* submission passes the test though the earlier job still waits.)
OneJobPerSpecification ==
    \A i, j \in alone :
        i # j /\ Waiting(i) /\ Waiting(j) => ~SameSpecification(i, j)

\* Whoever is refused is refused for a job that was submitted and recorded with
\* the very same specification: failures, lost replies and pruned entries never
\* block a specification that has no job.
RefusedForDuplicate ==
    \A c \in Clients :
        pc[c] = "refused" =>
            /\ job[c] # None
            /\ store.jobs[job[c]] # None
            /\ submission[job[c]].kind = "submit"
            /\ submission[job[c]].hash = call[c].hash

\* snapshot=True: a job whose submission synced and overlapped no other, and that
\* started in its snapshot, ran no file of another version.
SnapshotRunsOwnCode ==
    \A j \in alone :
        ran[j] # None /\ submission[j].sync => ran[j] \subseteq {submission[j].version}

\* A client that synced and overlaps nobody, and whose uv sync ran to its end,
\* has built the environment that its own lock file describes, and the marker
\* says so (_sync_venv takes its hash and runs uv in the remote directory).
BuildIsOwn ==
    [][\A c \in Clients :
          pc[c] = "building" /\ pc'[c] = "sbatch" /\ c \notin overlapped /\ call[c].sync
              => venv' = {call[c].version} /\ marker' = call[c].version]_vars
============================================================================
