----------------------------- MODULE Execution -----------------------------
(***************************************************************************)
(* Functions that run on the cluster (src/slurp/task.py, dispatcher.py,     *)
(* worker.py): a driver script calls distribute, remote, remote_batch,      *)
(* join, get and JobBundling; payload and result files travel through the   *)
(* synchronised directory.  One action is one remote command of the driver, *)
(* one step of a worker, or a step of the script itself.                    *)
(*                                                                          *)
(* A call of a function is one of Tasks, and so are its payload and its     *)
(* result, which carry its uuid.  What sacct and squeue answer is any state *)
(* the job has been in, or nothing, as JobTrackingProofs shows of the views *)
(* that JobTracking reads.  The lists of the code are sets here: their      *)
(* order decides nothing below.                                             *)
(***************************************************************************)
EXTENDS Domain, Naturals, Sequences, FiniteSets

CONSTANTS
    Tasks,     \* the calls the script makes, each at most once
    Key,       \* Key[t]: the resource key of call t
    Bundles,   \* the script's JobBundling objects
    MaxSize,   \* their max_size
    Jobs,      \* SLURM job ids
    Shared     \* whether others sync other checkouts into the directory

Base == "SlurmDispatcher"

ASSUME MaxSizeAssumption == MaxSize \in Nat \ {0}
ASSUME SharedAssumption == Shared \in BOOLEAN
ASSUME NamesAssumption == Base \notin Bundles /\ None \notin Jobs \cup Bundles \cup {Base}

VARIABLES
    dispatcher,   \* the global dispatcher
    with,         \* the with-blocks the script is in, innermost first
    inner,        \* inner[b]: the dispatcher that bundle b replaced
    buffer,       \* buffer[b]: calls that b has not flushed
    pending,      \* pending[d]: _pending_job_ids of dispatcher d
    called,       \* the calls the script has made
    pc, op,       \* where the script is, and in which operation
    rest, chunk,  \* the calls flush has still to submit, and those in hand
    job,          \* the job id in hand
    left,         \* the jobs or refs the operation has still to wait for
    real,         \* real[j][t]: the state of call t in job j, None if not in it
    payloads,     \* calls whose payload is in the local directory
    remote,       \* calls whose payload is in the remote directory
    file,         \* file[t]: the result file in the remote directory
    collect,      \* jobs whose worker writes result files
    recorded,     \* jobs in the store
    ref,          \* ref[t]: the job of the Ref the script holds for t
    got,          \* got[t]: what get came to
    tracked,      \* jobs that ever entered a pending list
    joined,       \* joined[d]: jobs tracked when slurp.join() returned from dispatcher d
    flushed,      \* calls buffered when a flush that returned was made
    scancelled,   \* <<j, t>> that were named to scancel
    stopped,      \* jobs an interrupted flush had submitted and heard of
    removed,      \* calls whose result file an rsync removed
    robbed        \* calls whose payload another checkout's rsync removed

scriptVars == <<dispatcher, with, inner, buffer, pending, called>>
opVars     == <<pc, op, rest, chunk, job, left>>
fileVars   == <<payloads, remote, file, removed, robbed>>
driverVars == <<recorded, ref, got>>
clusterVars == <<real, collect>>
noteVars   == <<tracked, joined, flushed, stopped>>
vars == <<scriptVars, opVars, clusterVars, fileVars, driverVars, noteVars, scancelled>>

Dispatchers == Bundles \cup {Base}
Phases == {"PENDING", "RUNNING", "SAVING"} \cup Terminal

ASSUME NoneAssumption == None \notin Phases \cup {"partial", "ok", "error", "value", "missing", "garbled"}

Calls(j) == {t \in Tasks : real[j][t] # None}
Submitted == {j \in Jobs : Calls(j) # {}}
Ended(j) == \A t \in Calls(j) : real[j][t] \in Terminal

NoOp == [kind |-> "none", who |-> None, global |-> FALSE]
Ops  == [kind : {"distribute", "remote", "batch", "flush", "join", "get", "getAll"},
         who : Dispatchers \cup {None}, global : BOOLEAN] \cup {NoOp}

TypeOK ==
    /\ dispatcher \in Dispatchers
    /\ with \in Seq(Bundles)
    /\ inner \in [Bundles -> Dispatchers \cup {None}]
    /\ buffer \in [Bundles -> SUBSET Tasks]
    /\ pending \in [Dispatchers -> SUBSET Jobs]
    /\ pc \in {"user", "next", "sync", "sbatch", "reply", "track", "join", "wait",
               "get", "watch", "fetch"}
    /\ op \in Ops
    /\ <<called, rest, chunk, payloads, remote>> \in (SUBSET Tasks) \X (SUBSET Tasks)
          \X (SUBSET Tasks) \X (SUBSET Tasks) \X (SUBSET Tasks)
    /\ job \in Jobs \cup Tasks \cup {None}
    /\ left \subseteq Jobs \cup Tasks
    /\ real \in [Jobs -> [Tasks -> Phases \cup {None}]]
    /\ file \in [Tasks -> {None, "partial", "ok", "error"}]
    /\ ref \in [Tasks -> Jobs \cup {None}]
    /\ got \in [Tasks -> {None, "value", "missing", "garbled"}]
    /\ joined \in [Dispatchers -> SUBSET Jobs]
    /\ collect \cup recorded \cup tracked \cup stopped \subseteq Jobs
    /\ flushed \cup removed \cup robbed \subseteq Tasks
    /\ scancelled \subseteq Jobs \X Tasks

Init ==
    /\ dispatcher = Base
    /\ with = <<>>
    /\ inner = [b \in Bundles |-> None]
    /\ buffer = [b \in Bundles |-> {}]
    /\ pending = [d \in Dispatchers |-> {}]
    /\ called = {}
    /\ pc = "user" /\ op = NoOp /\ rest = {} /\ chunk = {} /\ job = None /\ left = {}
    /\ real = [j \in Jobs |-> [t \in Tasks |-> None]]
    /\ collect = {}
    /\ payloads = {} /\ remote = {} /\ removed = {} /\ robbed = {}
    /\ file = [t \in Tasks |-> None]
    /\ recorded = {}
    /\ joined = [d \in Dispatchers |-> {}]
    /\ ref = [t \in Tasks |-> None]
    /\ got = [t \in Tasks |-> None]
    /\ tracked = {} /\ flushed = {} /\ stopped = {}
    /\ scancelled = {}

----------------------------------------------------------------------------
(* Control *)

Goto(label) == pc' = label

\* The operation returns, or raises what the script may catch.
Leave ==
    /\ Goto("user")
    /\ op' = NoOp /\ rest' = {} /\ chunk' = {} /\ job' = None /\ left' = {}

Enter(kind, who, global, label) ==
    /\ pc = "user"
    /\ op' = [kind |-> kind, who |-> who, global |-> global]
    /\ Goto(label)

\* Best effort: an scancel that fails is not noticed and stops no other one.
Scancel(elements) == scancelled' = scancelled \cup elements

Elements(js) == {e \in js \X Tasks : real[e[1]][e[2]] # None}

\* The script is in flush, perhaps in that of a join.
Flushing == op.kind \in {"flush", "join"} /\ pc \in {"next", "sync", "sbatch", "reply", "track"}

----------------------------------------------------------------------------
(* The script calls a function *)

\* With a bundle as the dispatcher distribute and remote only buffer the call;
\* collect_result is ignored there, and remote returns no Ref.
Buffer(t) ==
    /\ pc = "user"
    /\ dispatcher # Base
    /\ t \notin called
    /\ called' = called \cup {t}
    /\ buffer' = [buffer EXCEPT ![dispatcher] = @ \cup {t}]
    /\ UNCHANGED <<dispatcher, with, inner, pending, opVars, clusterVars, fileVars, driverVars,
                   noteVars, scancelled>>

\* Otherwise the payload is written and the job submitted: SlurmDispatcher's
\* dispatch for one call, _submit_array of remote_batch for several.
Call(kind, ts) ==
    /\ Enter(kind, Base, FALSE, "sync")
    /\ called' = called \cup ts
    /\ payloads' = payloads \cup ts
    /\ chunk' = ts
    /\ UNCHANGED <<dispatcher, with, inner, buffer, pending, rest, job, left, clusterVars, remote,
                   file, removed, robbed, driverVars, noteVars, scancelled>>

Distribute(t) == dispatcher = Base /\ t \notin called /\ Call("distribute", {t})
Remote(t)     == dispatcher = Base /\ t \notin called /\ Call("remote", {t})

\* remote_batch passes by the dispatcher, inside a with-block too.
RemoteBatch(ts) == ts # {} /\ ts \cap called = {} /\ Call("batch", ts)

----------------------------------------------------------------------------
(* Submitting what is in hand: rsync, sbatch, the bookkeeping *)

\* Mutant: the payloads reach the local directory only after the rsync.
SyncWithoutPayload ==
    /\ pc = "sync"
    /\ remote' = payloads \ chunk
    /\ robbed' = {}
    /\ removed' = removed \cup {t \in Tasks : file[t] # None}
    /\ file' = [t \in Tasks |-> None]
    /\ Goto("sbatch")
    /\ UNCHANGED <<scriptVars, op, rest, chunk, job, left, clusterVars, payloads, driverVars,
                   noteVars, scancelled>>

\* rsync --delete: every local payload arrives; result files, which exist only
\* in the remote directory, are deleted (._slurp is included, so not protected).
Sync ==
    /\ pc = "sync"
    /\ remote' = payloads
    /\ robbed' = {}
    /\ removed' = removed \cup {t \in Tasks : file[t] # None}
    /\ file' = [t \in Tasks |-> None]
    /\ Goto("sbatch")
    /\ UNCHANGED <<scriptVars, op, rest, chunk, job, left, clusterVars, payloads, driverVars,
                   noteVars, scancelled>>

\* sbatch accepts the script; its reply is on the way.
Sbatch ==
    /\ pc = "sbatch"
    /\ \E j \in Jobs \ Submitted :
          /\ real' = [real EXCEPT ![j] = [t \in Tasks |-> IF t \in chunk THEN "PENDING" ELSE None]]
          /\ collect' = IF op.kind \in {"remote", "batch"} THEN collect \cup {j} ELSE collect
          /\ job' = j
    /\ Goto("reply")
    /\ UNCHANGED <<scriptVars, op, rest, chunk, left, fileVars, driverVars, noteVars, scancelled>>

\* The job id is in a variable of the caller (flush: _untracked).
Reply ==
    /\ pc = "reply"
    /\ Goto("track")
    /\ UNCHANGED <<scriptVars, op, rest, chunk, job, left, clusterVars, fileVars, driverVars,
                   noteVars, scancelled>>

\* dispatch: append_job in the store, and the pending list or a Ref.
TrackCall ==
    /\ pc = "track"
    /\ op.kind \in {"distribute", "remote"}
    /\ recorded' = recorded \cup {job}
    /\ IF op.kind = "remote"
         THEN /\ ref' = [t \in Tasks |-> IF t \in chunk THEN job ELSE ref[t]]
              /\ UNCHANGED <<pending, tracked>>
         ELSE /\ pending' = [pending EXCEPT ![Base] = @ \cup {job}]
              /\ tracked' = tracked \cup {job}
              /\ UNCHANGED ref
    /\ Leave
    /\ UNCHANGED <<dispatcher, with, inner, buffer, called, clusterVars, fileVars, got, joined, flushed,
                   stopped, scancelled>>

\* remote_batch: a Ref per task, and no record in the store.
TrackBatch ==
    /\ pc = "track"
    /\ op.kind = "batch"
    /\ ref' = [t \in Tasks |-> IF t \in chunk THEN job ELSE ref[t]]
    /\ Leave
    /\ UNCHANGED <<scriptVars, clusterVars, fileVars, recorded, got, noteVars, scancelled>>

\* flush: the bundle's pending list, no record either, and on to the next chunk.
TrackChunk ==
    /\ pc = "track"
    /\ op.kind \in {"flush", "join"}
    /\ pending' = [pending EXCEPT ![op.who] = @ \cup {job}]
    /\ tracked' = tracked \cup {job}
    /\ left' = left \cup {job}
    /\ chunk' = {} /\ job' = None
    /\ Goto("next")
    /\ UNCHANGED <<dispatcher, with, inner, buffer, called, op, rest, clusterVars, fileVars, driverVars,
                   joined, flushed, stopped, scancelled>>

----------------------------------------------------------------------------
(* JobBundling *)

EnterBundle(b) ==
    /\ pc = "user"
    /\ \A i \in DOMAIN with : with[i] # b
    /\ inner' = [inner EXCEPT ![b] = dispatcher]
    /\ dispatcher' = b
    /\ with' = <<b>> \o with
    /\ UNCHANGED <<buffer, pending, called, opVars, clusterVars, fileVars, driverVars, noteVars, scancelled>>

\* __exit__ without an exception: the dispatcher is restored, then flush.
ExitBundle(b) ==
    /\ with # <<>> /\ b = with[1]
    /\ Enter("flush", b, FALSE, "next")
    /\ rest' = buffer[b]
    /\ with' = Tail(with)
    /\ dispatcher' = inner[b]
    /\ UNCHANGED <<inner, buffer, pending, called, chunk, job, left, clusterVars, fileVars,
                   driverVars, noteVars, scancelled>>

\* __exit__ with an exception: nothing is flushed, and the buffer stays.  The
\* test for KeyboardInterrupt asks whether its class is an instance of it,
\* which is never so: nothing is cancelled either.
ExitRaising(b) ==
    /\ pc = "user"
    /\ with # <<>> /\ b = with[1]
    /\ with' = Tail(with)
    /\ dispatcher' = inner[b]
    /\ UNCHANGED <<inner, buffer, pending, called, opVars, clusterVars, fileVars, driverVars,
                   noteVars, scancelled>>

Flush(b) ==
    /\ Enter("flush", b, FALSE, "next")
    /\ rest' = buffer[b]
    /\ UNCHANGED <<scriptVars, chunk, job, left, clusterVars, fileVars, driverVars, noteVars,
                   scancelled>>

\* All calls of one key that are left, or max_size of them.
IsChunk(ts) ==
    \E t \in ts :
        LET same == {u \in rest : Key[u] = Key[t]}
        IN  /\ ts \subseteq same
            /\ ts = same \/ Cardinality(ts) = MaxSize
            /\ Cardinality(ts) <= MaxSize

\* Mutant: the next chunk starts one call too late.
NextChunkSkips ==
    /\ pc = "next"
    /\ \E ts \in SUBSET rest :
          /\ IsChunk(ts)
          /\ chunk' = ts
          /\ payloads' = payloads \cup ts
          /\ \E skipped \in rest : rest' = (rest \ ts) \ {skipped}
    /\ Goto("sync")
    /\ UNCHANGED <<scriptVars, op, job, left, clusterVars, remote, file, removed, robbed,
                   driverVars, noteVars, scancelled>>

NextChunk ==
    /\ pc = "next"
    /\ \E ts \in SUBSET rest :
          /\ IsChunk(ts)
          /\ chunk' = ts
          /\ payloads' = payloads \cup ts
          /\ rest' = rest \ ts
    /\ Goto("sync")
    /\ UNCHANGED <<scriptVars, op, job, left, clusterVars, remote, file, removed, robbed,
                   driverVars, noteVars, scancelled>>

FlushEnds ==
    /\ pc = "next"
    /\ rest = {}
    /\ flushed' = flushed \cup buffer[op.who]
    /\ buffer' = [buffer EXCEPT ![op.who] = {}]
    /\ IF op.kind = "join"
         THEN Goto("join") /\ left' = pending[op.who] /\ UNCHANGED <<op, rest, chunk, job>>
         ELSE Leave
    /\ UNCHANGED <<dispatcher, with, inner, pending, called, clusterVars, fileVars, driverVars,
                   tracked, joined, stopped, scancelled>>

----------------------------------------------------------------------------
(* join *)

\* slurp.join() asks the global dispatcher, whichever that is; a bundle may
\* also be joined by name, after its with-block.
Join(d, global) ==
    /\ global => d = dispatcher
    /\ Enter("join", d, global, IF d = Base THEN "join" ELSE "next")
    /\ IF d = Base
         THEN left' = pending[Base] /\ UNCHANGED rest
         ELSE rest' = buffer[d] /\ UNCHANGED left
    /\ UNCHANGED <<scriptVars, chunk, job, clusterVars, fileVars, driverVars, noteVars, scancelled>>

\* What sacct or squeue may say of a job by its own id (of one call it is Past):
\* on clusters that collapse a uniform array into one row that row ends with the
\* last task; on others there is no such row in sacct, and squeue's first one is
\* of a live task.
JobPast(j) ==
    {"PENDING", "RUNNING"} \cup
        IF ~Ended(j) THEN {}
        ELSE IF \A t \in Calls(j) : real[j][t] = "COMPLETED" THEN {"COMPLETED"}
        ELSE {real[j][t] : t \in Calls(j)} \ {"COMPLETED"}

\* status() is terminal, or None: neither query shows a job that is not in the
\* store.  A recorded job is never None.
JoinPasses(j) ==
    /\ pc = "join"
    /\ j \in left
    /\ j \notin recorded \/ JobPast(j) \cap Terminal # {}
    /\ left' = left \ {j}
    /\ UNCHANGED <<scriptVars, pc, op, rest, chunk, job, clusterVars, fileVars, driverVars,
                   noteVars, scancelled>>

JoinWaits(j) ==
    /\ pc = "join"
    /\ j \in left
    /\ job' = j
    /\ Goto("wait")
    /\ UNCHANGED <<scriptVars, op, rest, chunk, left, clusterVars, fileVars, driverVars,
                   noteVars, scancelled>>

\* wait_job returns: COMPLETED and the exit code was read.  (All other ends are
\* a JobFailedError: Fails.)
JoinWaited ==
    /\ pc = "wait"
    /\ "COMPLETED" \in JobPast(job)
    /\ left' = left \ {job}
    /\ job' = None
    /\ Goto("join")
    /\ UNCHANGED <<scriptVars, op, rest, chunk, clusterVars, fileVars, driverVars, noteVars,
                   scancelled>>

JoinReturns ==
    /\ pc = "join"
    /\ left = {}
    /\ pending' = [pending EXCEPT ![op.who] = {}]
    /\ joined' = IF op.global THEN [joined EXCEPT ![op.who] = tracked] ELSE joined
    /\ Leave
    /\ UNCHANGED <<dispatcher, with, inner, buffer, called, clusterVars, fileVars, driverVars,
                   tracked, flushed, stopped, scancelled>>

----------------------------------------------------------------------------
(* get: a Ref, or a list of them *)

Get(kind, ts) ==
    /\ ts # {} /\ \A t \in ts : ref[t] # None
    /\ kind = "get" => Cardinality(ts) = 1
    /\ Enter(kind, None, FALSE, "get")
    /\ left' = ts
    /\ UNCHANGED <<scriptVars, rest, chunk, job, clusterVars, fileVars, driverVars, noteVars,
                   scancelled>>

\* A Ref that is resolved returns its cached value.
GetCached(t) ==
    /\ pc = "get"
    /\ t \in left
    /\ got[t] = "value"
    /\ left' = left \ {t}
    /\ UNCHANGED <<scriptVars, pc, op, rest, chunk, job, clusterVars, fileVars, driverVars,
                   noteVars, scancelled>>

\* Mutant: a Ref does not keep its value.
GetWaitsAgain(t) ==
    /\ pc = "get"
    /\ t \in left
    /\ job' = t
    /\ Goto("watch")
    /\ UNCHANGED <<scriptVars, op, rest, chunk, left, clusterVars, fileVars, driverVars,
                   noteVars, scancelled>>

\* status() found the job.  (If it did not, RuntimeError: Fails.)
GetWaits(t) ==
    /\ pc = "get"
    /\ t \in left
    /\ got[t] # "value"
    /\ job' = t
    /\ Goto("watch")
    /\ UNCHANGED <<scriptVars, op, rest, chunk, left, clusterVars, fileVars, driverVars,
                   noteVars, scancelled>>

\* Mutant: any terminal status will do.
GetFetchesAny ==
    /\ pc = "watch"
    /\ (Past(real[ref[job]][job]) \cup JobPast(ref[job])) \cap Terminal # {}
    /\ Goto("fetch")
    /\ UNCHANGED <<scriptVars, op, rest, chunk, job, left, clusterVars, fileVars, driverVars,
                   noteVars, scancelled>>

\* wait_job returns; a task of an array may be judged by its parent's row.
GetFetches ==
    /\ pc = "watch"
    /\ "COMPLETED" \in Past(real[ref[job]][job]) \cup JobPast(ref[job])
    /\ Goto("fetch")
    /\ UNCHANGED <<scriptVars, op, rest, chunk, job, left, clusterVars, fileVars, driverVars,
                   noteVars, scancelled>>

\* Mutant: the first field of the file is returned.
FetchedStatus == IF file[job] = None THEN "missing" ELSE file[job]

\* The result file is read.  Half a pickle does not load, and the three fields
\* of an error do not unpack into two.
Fetched ==
    IF file[job] = "ok" THEN "value" ELSE IF file[job] = None THEN "missing" ELSE "garbled"

Fetch ==
    /\ pc = "fetch"
    /\ got' = [got EXCEPT ![job] = Fetched]
    /\ IF Fetched = "value"
         THEN Goto("get") /\ left' = left \ {job} /\ job' = None /\ UNCHANGED <<op, rest, chunk>>
         ELSE Leave
    /\ UNCHANGED <<scriptVars, clusterVars, fileVars, recorded, ref, noteVars, scancelled>>

GetReturns ==
    /\ pc = "get"
    /\ left = {}
    /\ Leave
    /\ UNCHANGED <<scriptVars, clusterVars, fileVars, driverVars, noteVars, scancelled>>

----------------------------------------------------------------------------
(* Exceptions and Ctrl+C *)

\* Mutant: join clears the pending list in a finally.
FailsAndForgets ==
    /\ pc # "user"
    /\ buffer' = IF Flushing THEN [buffer EXCEPT ![op.who] = {}] ELSE buffer
    /\ pending' = IF op.kind = "join" THEN [pending EXCEPT ![op.who] = {}] ELSE pending
    /\ Leave
    /\ UNCHANGED <<dispatcher, with, inner, called, clusterVars, fileVars, driverVars, noteVars,
                   scancelled>>

\* Mutant: a flush that raises keeps its buffer.
FailsKeepingBuffer ==
    /\ pc # "user"
    /\ Leave
    /\ UNCHANGED <<scriptVars, clusterVars, fileVars, driverVars, noteVars, scancelled>>

\* An operation raises: a remote command, sbatch or its reply lost, the store,
\* JobFailedError, TimeoutError.  flush clears its buffer all the same; join
\* keeps the pending list.
Fails ==
    /\ pc # "user"
    /\ pc = "track" => ~Flushing
    /\ buffer' = IF Flushing THEN [buffer EXCEPT ![op.who] = {}] ELSE buffer
    /\ Leave
    /\ UNCHANGED <<dispatcher, with, inner, pending, called, clusterVars, fileVars, driverVars,
                   noteVars, scancelled>>

\* Mutant: flush forgets the job it has not tracked yet.
InterruptForgets ==
    /\ pc # "user"
    /\ Flushing
    /\ Scancel(Elements(pending[op.who]))
    /\ buffer' = [buffer EXCEPT ![op.who] = {}]
    /\ stopped' = stopped \cup left \cup (IF pc = "track" THEN {job} ELSE {})
    /\ Leave
    /\ UNCHANGED <<dispatcher, with, inner, pending, called, clusterVars, fileVars, driverVars,
                   tracked, joined, flushed>>

InterruptFlush ==
    /\ Flushing
    /\ LET heard == IF pc = "track" THEN {job} ELSE {}
       IN  /\ Scancel(Elements(pending[op.who] \cup heard))
           /\ stopped' = stopped \cup left \cup heard
    /\ buffer' = [buffer EXCEPT ![op.who] = {}]
    /\ Leave
    /\ UNCHANGED <<dispatcher, with, inner, pending, called, clusterVars, fileVars, driverVars,
                   tracked, joined, flushed>>

InterruptJoin ==
    /\ pc \in {"join", "wait"}
    /\ Scancel(Elements(pending[op.who]))
    /\ Leave
    /\ UNCHANGED <<scriptVars, clusterVars, fileVars, driverVars, noteVars>>

\* A list of Refs: all that are unresolved.  A single Ref: only from wait_job.
InterruptGet ==
    /\ op.kind = "getAll" \/ pc = "watch"
    /\ Scancel({<<ref[t], t>> : t \in {u \in left : got[u] # "value"}})
    /\ Leave
    /\ UNCHANGED <<scriptVars, clusterVars, fileVars, driverVars, noteVars>>

\* Elsewhere nobody handles it: the effects of Fails.
Interrupt == InterruptFlush \/ InterruptJoin \/ InterruptGet

\* Ref.cancel.
Cancel(t) ==
    /\ pc = "user"
    /\ ref[t] # None
    /\ Scancel({<<ref[t], t>>})
    /\ UNCHANGED <<scriptVars, opVars, clusterVars, fileVars, driverVars, noteVars>>

----------------------------------------------------------------------------
(* The worker on its node, SLURM, and the others *)

Set(j, t, phase) == real' = [real EXCEPT ![j][t] = phase]

\* The worker loads its payload, if that is there.
Start(j, t) ==
    /\ real[j][t] = "PENDING"
    /\ Set(j, t, IF t \in remote THEN "RUNNING" ELSE "FAILED")
    /\ UNCHANGED <<scriptVars, opVars, collect, fileVars, driverVars, noteVars, scancelled>>

\* Without a result path the function is all there is.
Run(j, t) ==
    /\ real[j][t] = "RUNNING"
    /\ j \notin collect
    /\ \E end \in {"COMPLETED", "FAILED"} : Set(j, t, end)
    /\ UNCHANGED <<scriptVars, opVars, collect, fileVars, driverVars, noteVars, scancelled>>

\* _write_result opens the file ...
Save(j, t) ==
    /\ real[j][t] = "RUNNING"
    /\ j \in collect
    /\ Set(j, t, "SAVING")
    /\ file' = [file EXCEPT ![t] = "partial"]
    /\ UNCHANGED <<scriptVars, opVars, collect, payloads, remote, removed, robbed, driverVars,
                   noteVars, scancelled>>

\* ... and closes it, unless an rsync has unlinked it meanwhile: a value and
\* exit 0, or an exception and exit 1.
Saved(j, t) ==
    /\ real[j][t] = "SAVING"
    /\ \E returned \in BOOLEAN :
          /\ Set(j, t, IF returned THEN "COMPLETED" ELSE "FAILED")
          /\ file' = IF file[t] = None THEN file
                     ELSE [file EXCEPT ![t] = IF returned THEN "ok" ELSE "error"]
    /\ UNCHANGED <<scriptVars, opVars, collect, payloads, remote, removed, robbed, driverVars,
                   noteVars, scancelled>>

\* A time limit or a failing node; or the effect of scancel.
Kill(j, t) ==
    /\ \/ real[j][t] \in {"RUNNING", "SAVING"} /\ Set(j, t, "FAILED")
       \/ /\ real[j][t] \in {"PENDING", "RUNNING", "SAVING"}
          /\ <<j, t>> \in scancelled
          /\ Set(j, t, "CANCELLED")
    /\ UNCHANGED <<scriptVars, opVars, collect, fileVars, driverVars, noteVars, scancelled>>

\* rsync --delete from a checkout that has none of these payloads.
OthersSync ==
    /\ Shared
    /\ robbed' = robbed \cup remote
    /\ remote' = {}
    /\ removed' = removed \cup {t \in Tasks : file[t] # None}
    /\ file' = [t \in Tasks |-> None]
    /\ UNCHANGED <<scriptVars, opVars, clusterVars, payloads, driverVars, noteVars, scancelled>>

----------------------------------------------------------------------------
Calling ==
    \/ \E t \in Tasks : Buffer(t) \/ Distribute(t) \/ Remote(t) \/ Cancel(t)
    \/ \E ts \in SUBSET Tasks : RemoteBatch(ts)

Submits == Sync \/ Sbatch \/ Reply \/ TrackCall \/ TrackBatch \/ TrackChunk

Bundling ==
    \/ \E b \in Bundles : EnterBundle(b) \/ ExitBundle(b) \/ ExitRaising(b) \/ Flush(b)
    \/ NextChunk \/ FlushEnds

Joins ==
    \/ \E d \in Dispatchers, global \in BOOLEAN : Join(d, global)
    \/ \E j \in Jobs : JoinPasses(j) \/ JoinWaits(j)
    \/ JoinWaited \/ JoinReturns

Gets ==
    \/ \E kind \in {"get", "getAll"}, ts \in SUBSET Tasks : Get(kind, ts)
    \/ \E t \in Tasks : GetCached(t) \/ GetWaits(t)
    \/ GetFetches \/ Fetch \/ GetReturns

Workers ==
    \E j \in Jobs, t \in Tasks :
        Start(j, t) \/ Run(j, t) \/ Save(j, t) \/ Saved(j, t) \/ Kill(j, t)

Next ==
    \/ Calling \/ Submits \/ Bundling \/ Joins \/ Gets \/ Fails \/ Interrupt
    \/ Workers \/ OthersSync

Spec == Init /\ [][Next]_vars

----------------------------------------------------------------------------
(* What the script may rely on *)

\* distribute, JobBundling.flush: however bundles are flushed, flushed again
\* after a failure, joined and left, no call is ever in two jobs.
SubmittedOnce ==
    \A i, j \in Jobs, t \in Tasks : i # j => real[i][t] = None \/ real[j][t] = None

\* A flush that returned left none of its calls behind: each is in a job that
\* the bundle keeps for join.
FlushedIsSubmitted == \A t \in flushed : \E j \in tracked : t \in Calls(j)

\* slurp.join() ("Block until all pending .distribute() calls finish"): when it
\* returns from the SlurmDispatcher, the calls distributed there have ended,
\* whatever joins failed before and however late the cluster's views are.
JoinedHasEnded == \A j \in joined[Base] \cap recorded : Ended(j)

\* Ref.get: a value comes from a call that completed; no file is read while
\* the worker writes it or after an error; and a file is missing only if an
\* rsync removed it.
GetIsTruthful ==
    \A t \in Tasks :
        /\ got[t] = "value" => real[ref[t]][t] = "COMPLETED"
        /\ got[t] # "garbled"
        /\ got[t] = "missing" => t \in removed

\* "Block until the job finishes, then return the deserialized result": where
\* nobody else uses the directory, no result is lost.
ResultsAreKept == \A t \in Tasks : got[t] # "missing"

\* A worker finds its payload, except where others sync into the directory.
PayloadInPlace ==
    \A j \in Jobs, t \in Tasks : real[j][t] = "PENDING" => t \in remote \cup robbed

\* Ctrl+C in flush: every job of that flush whose id it had heard, also the one
\* not yet in the pending list, has been named to scancel.
InterruptCancels == \A e \in Elements(stopped) : e \in scancelled

\* Seen through this mapping the driver, the workers and SLURM together keep the
\* promise of RemoteCalls: through bundles that are flushed again, syncs that
\* remove files, failures and Ctrl+C, a call moves forward only, and get answers
\* for it once (task.py, dispatcher.py).
Stage(t) ==
    LET phases == {real[j][t] : j \in Jobs} \ {None}
    IN  IF "COMPLETED" \in phases THEN "completed"
        ELSE IF phases \cap Terminal # {} THEN "failed"
        ELSE IF phases # {} THEN "submitted"
        ELSE IF t \in called THEN "called" ELSE "uncalled"

StageBar == [t \in Tasks |-> Stage(t)]

Promise == INSTANCE RemoteCalls WITH stage <- StageBar, answer <- got

ImplementsRemoteCalls == Promise!Spec
============================================================================
