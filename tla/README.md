# slurp: specifications

slurp is a Python library and command line for SLURM clusters: it synchronises a
project to a remote directory over rsync, submits jobs with sbatch over SSH,
follows them with sacct and squeue, keeps a local record of them, runs Python
functions as jobs, and shows all of it on a dashboard. This directory holds TLA+
specifications of the parts whose correctness depends on the order of events:
several processes on one machine, several people in one remote directory, and a
cluster whose answers come late or not at all.

Paths below are relative to `src/slurp/` of the repository unless they start
with `docs/` or `examples/`.

## 1. Inventory

| Component | State | Operations | Talks to |
| --- | --- | --- | --- |
| Job store (`core/store.py`) | `jobs.json`, `.lock`, temporary files, `log_offsets.json` | `read`, `write_jobs`, `append_job`, `update_job_status`, `get_job`, `list_jobs`, `check_idempotency`, `set_offset` | the file system, other slurp processes |
| Job states (`domain.py`) | none: enumerations and the mapping of SLURM's words | `is_terminal`, `SlurmJobInfo.status`, `exit_code_int` | |
| SLURM commands (`core/slurm.py`) | none | `sbatch_submit`, `sacct_query`, `squeue_query`, `scancel`, script generation | SSH, the cluster |
| Job tracking (`client.py`) | handles (`Job`), cached results | `refresh_job`, `status`, `wait_job`, `_reconcile_store` (`list_jobs`, `watch`), `cancel_job`, `cancel_job_by_id` | the store, sacct, squeue, scancel |
| Submission (`client.py`) | the remote directory, the virtual environment and its `.lockhash`, `.slurp/runs/<id>` | `submit`, `submit_array`, `_sync_venv` | rsync, sbatch, the store |
| Dispatcher, tasks, worker (`dispatcher.py`, `task.py`, `worker.py`) | the global dispatcher, buffers and pending lists, payload and result files, `Ref`s | `distribute`, `remote`, `remote_batch`, `join`, `get`, `JobBundling`, the worker's `main` | submission, tracking, the remote directory |
| SSH connections (`core/ssh.py`, the loop of `client.py`) | a connection per host, an `asyncio.Lock`, the background loop | `get_connection`, `run`, `run_with_retry`, `open_process`, `close` | asyncssh |
| File synchronisation (`core/sync.py`) | the remote directory | `sync_to_remote`, `rsync_from_remote`, `snapshot_remote` | rsync |
| Arrays and sweeps (`cli/submit.py`, `core/slurm.py`, `client.py`) | the array's record, its script | `_parse_sweep_params`, `_build_configs`, `generate_array_wrapper`, `array_results`, the array fallbacks of `refresh_job` and `status` | submission, sacct, squeue |
| Log streaming (`client.py`, `cli/logs.py`) | byte offsets, what has been shown | `wait_job`'s streaming and final read, `job_logs`, `_tail_remote` | SSH |
| Dashboard (`webui/`) | the stream's last round of jobs, log positions and event counter; the page's table | `JobStream.events`, routes, `dashboard.js` | tracking, the browser |
| Guard (`guard.py`) | one global flag | `check`, `disabled` | the task API |
| Command line, wizard (`cli/`) | the configuration file and its backup | one command per operation above | everything |
| Node setup, errors, re-exports | a registry of functions | | |

What makes each of them correct, and what makes that hard:

- **Job store.** Every call takes effect at one instant or not at all, although
  readers take no lock, processes die between `mkstemp` and `rename`, and a
  damaged file is moved aside by whoever meets it. No lock is kept, no update is
  lost, no temporary file is taken from under its writer, and abandoned ones do
  not pile up.
- **Job tracking.** Nothing is recorded that did not happen, although sacct and
  squeue disagree, fail, forget jobs and use words slurp does not know; a wait
  ends when an end can be read; a watch brings the records to rest.
- **Submission.** The thirty-second window against duplicates, although the test
  and the record are minutes apart; nobody is refused for nothing; a snapshot
  holds the code that was submitted, although the directory is shared.
- **Dispatcher, tasks, worker.** No call runs twice or is left behind however
  often a bundle is flushed; `join` waits; `get` reads whole results of calls
  that completed; Ctrl+C cancels what was submitted.
- **SSH connections.** One connection per host whatever runs concurrently; a
  retry does not go over the connection that failed; the lock, which is held
  across a connect, comes back however the connect ends, so that nobody waits
  behind it for ever.
- **Arrays and sweeps.** Each task runs the parameters that were written for it,
  through the parsing of flags, the configurations, the shell arrays and SLURM's
  numbering; no task is given the end of another, although the array's row or a
  sibling's may answer for it; waiting for the tasks ends.
- **Log streaming.** A reader is shown one piece of a log, nothing twice and
  nothing left out, although the file grows by bytes, the text counts characters
  and reads fail, are cut, or meet half a character; the result of a job holds
  what the job wrote last.
- **Dashboard stream.** Somebody who reads all events knows the status of every
  listed job, although only differences are sent and other processes write the
  records; the end of a job comes to be told; a failed poll does no lasting harm;
  a reconnect loses nothing.

`PROJECT.json` lists the hazards behind these at the lines where they bite. Some of
them the code simply has: two submissions that overlap, a payload that somebody
else's rsync takes, a snapshot that is gone, a stream whose connection is of another
loop. A property against one of these would be false, so the properties except the
case, and the hazard's note says so.

## 2. Modules

```
Domain                      JobStatus, the words of SLURM, the past of a status
  StoreData                 contents of jobs.json, what each call computes
    AtomicJobStore          abstract store: a call is one step
    JobStore                the store, system call by system call
      JobStoreProofs        refines AtomicJobStore
    Submission              submit and submit_array, over an atomic store
      SubmissionProofs
  SlurmCluster              jobs and the two lagging views of them (external)
    JobTracking             clients that query, wait, reconcile and cancel
      JobTrackingProofs
    ArrayJobs (and Sweep)   a job array, from its flags to array_results
      ArrayJobsProofs
  JobStream                 the events of the web UI over store and connection
    JobStreamProofs
    Dashboard               the page that reads them
  RemoteCalls               abstract remote calls: made, submitted, ended, answered
    Execution               distribute, bundle, join, get, worker, result files
      ExecutionProofs       refines RemoteCalls
Sweep                       flags, configurations, shell arrays: pure operators
SSHManager                  coroutines around one connection and its lock
  SSHManagerProofs
LogReader                   abstract reader of logs: one piece of each
LogFollowing                wait, follow and tail, byte by byte
  LogFollowingProofs        refines LogReader
MCJobStore, MCJobTracking, MCSubmission, MCExecution, MCSSHManager, MCArrayJobs
                            instances for TLC
```

`JobStore` implements `AtomicJobStore`; this is what allows `JobTracking` and
`Submission` to treat a call of the store as one step.

**JobStore.** One action per system call of `core/store.py`: lock, open and
read, clean up, `mkstemp`, write, rename, unlock. `disk` is the contents of
`jobs.json` (or absent, or corrupt), `temps` the temporary files, `lock` the
holder of the flock, and each process has a place, a call and what it has read.
A process may die anywhere; its lock is released by the kernel and its temporary
file stays. A write may fail. A record is its status; a timestamp is "older than
thirty seconds or not".

**JobTracking.** A client's operation is a sequence of remote queries; what a
query answered is held in `reply` until the client applies it, so two clients
interleave between question and record. `belief` is the handle. `SlurmCluster`
keeps for each job its real state, the row of squeue and the row of sacct, each
with a lag of its own; sacct forgets ended jobs (`Purge`). Requeued jobs are
assumed away: a job does not go back from an end.

**Submission.** One action per remote command: rsync (begun and finished, since
`--delete` acts first), `uv sync` (begun and finished), sbatch, the snapshot, the
record. Code is the version of the checkout it came from; a version also stands
for its `uv.lock` and everything else `uv sync` reads. `overlapped` and `alone`
are history: which calls ran while another client's did. A call may raise, be
interrupted or die anywhere (`Fail`). It counts as in progress until its coroutine
and the remote command of that have ended, since Ctrl+C and a timeout end only the
wait for them (`_run`); whoever calls again before that, in the same process even,
is another member of `Clients`, and the two calls overlap.

**Execution.** A script, sequential, that calls functions through the
SlurmDispatcher or a JobBundling, joins and gets; workers that load a payload,
run and write a result file; the rsync of each submission, and of other people,
that deletes result files. Ctrl+C and exceptions may come between any two
remote commands. What sacct or squeue answer is any state the job has been in
(`Past`), or nothing; that the views of `JobTracking` show no more than that is a
theorem about them (`AnswersAreLate`). `RemoteCalls` is what a script may think of
all this: a call is made once, submitted at most once, ends at most once, and is
answered at most once, with the answer of a call that completed (or the news that
its file is gone). `Stage` reads how far a call has come from buffers, jobs and
workers.

**JobStream.** One stream of the web UI and the client it owns: a round lists
the jobs (with a reconciliation), refreshes each, sends what differs from the
round before, polls the log. `told` is history: what somebody who read all events
so far takes each job to be. `conn` is the SSH connection that the client has
cached: none, one of its own background loop, or one whose loop is gone. The
third comes from `_run`: the log poll iterates the generator `job_logs` in the
server's event loop, so each of its commands runs in a loop that ends with it,
and a connection opened there stays in the cache. SLURM answers with one word
per job, since the lag of its views is `JobTracking`'s subject. Other processes
write any record at any time, the network comes and goes, and `jobs.json` may
start afresh.

**SSHManager.** Calls are coroutines of the client's background loop, so one
action is what runs between two awaits: waiting for the lock, the connect under
it, the command, the pause of a retry, its forgetting what is cached. Threads
call, wait, are interrupted (which leaves the coroutine running) and close the
client; `_shutdown_async` runs on the loop without the lock, and the loop is
stopped when it has ended or five seconds are over. `asyncio.Lock` is modelled
with its queue. A command over a connection that is lost may raise, fail, or return
as if it had ended with 0, which `check=False` makes of a missing exit status. `failed` and `dropped` are history: the connections a call has
failed on, and those that a retry took out of the cache without closing them.

**Sweep, ArrayJobs.** `Sweep` has the pure part: `ParseSweepParams`,
`BuildConfigs`, `ArrayWrapper` translate the code, `MeantFor` and `TaskCount` say
independently what a task is meant to get. `ArrayJobs` puts them to use: an
array is submitted with given flags, its tasks begin with the parameters that
the script gives them (`seen`), if bash can parse it (`Parses`), and its owner refreshes, waits, reconciles or
collects results, by the ids of tasks or of the array. `collapses` is chosen at
the start: whether this cluster's sacct lists tasks or merges them, as the
docstring of `_sacct_lookup` says of one.

**LogFollowing.** A log is a sequence of characters of one or two bytes, `ends`
says at which byte each ends, and a character may be there by half (`torn`). A
read gives the rest of the file, a part of it (a connection that is lost under
`check=False` is no failure), or nothing; the offset advances by the bytes of the
text. `shown` is what the reader has been shown, by position, and `LogReader`
promises that it is one piece without gaps or repetitions.

**Dashboard.** The page's table: filled by `GET /api/jobs` and by events. An
event's payload is `{"job": {...}}`, the handler takes it for the job, so that
its row is filed under `undefined` (`stray`).

`map` in `PROJECT.json` gives the lines of each definition.

## 3. Runs

| Run | Instance | Shows |
| --- | --- | --- |
| `job_store` | two processes, two appends with one hash, an update, a read, an offset; one death, one damage; 507,872 states | `AtMostOneStoreTemp`, `StoreTempSurvives`, `NoLostUpdate`, refinement of `AtomicJobStore`, `LockIsReleased` under fairness |
| `job_tracking` | one job, a user with all operations, a watch; ends COMPLETED, FAILED and one unreadable; 341,524 states | `RecordedEndIsReal`, `SuccessIsReal` |
| `tracking_liveness` | one job, a user who waits, asks and cancels, a watch; COMPLETED and CANCELLED; 182,369 states | `WaitEnds`, `StoreConverges` |
| `submission` | two people, two jobs, two versions, one hash, arrays and snapshots; 785,271 states | `OneJobPerSpecification`, `RefusedForDuplicate`, `SnapshotRunsOwnCode`, `BuildIsOwn` |
| `execution` | two calls, two jobs, one bundle with chunks of one; 1,474,690 states | `SubmittedOnce`, `FlushedIsSubmitted`, `JoinedHasEnded`, `GetIsTruthful`, `PayloadInPlace`, `InterruptCancels`, refinement of `RemoteCalls` |
| `job_stream` | two jobs of which one fits the list, a network that fails, a store that others write; 156,724 states | `StreamTellsAll`, `StreamConverges` under fairness |
| `ssh_manager` | one thread, a plain command and two that retry, one shutdown; 884,354 states | `OneConnection`, `RetryReconnects`, `CallsReturn` under fairness |
| `array_jobs` | arrays of one and two tasks from four sweeps, both kinds of sacct, ends COMPLETED and FAILED; 719,372 states | `TaskRunsItsConfig`, `TaskEndIsReal`, `ArrayEndIsReal`, `ResultsEnd` under fairness |
| `log_following` | two logs of up to two characters, tails of one, results of one; 98,102 states | `ResultIsLog`, refinement of `LogReader`, `FollowCatchesUp` under fairness |

Nine passing runs; every property of them is broken by a mutant of one mapped
definition (`mutants`), so none holds by the shape of the model.

Three further runs, `result_removed`, `page_stale` and `array_wait`, end in a
violation: each states what a document or a comment of the repository says, and
TLC shows a behaviour of the code against it (section 5).

### Bounds

- *Two processes* are enough for the store: every interference is between a
  writer and one other process, and the theorems cover any number. One death and
  one damage: a second damage is a fresh start with other contents.
- *One job* in tracking: clients interact only through the record of a job, and
  an operation on several jobs (`_reconcile_store`) applies its answers one job
  at a time. The merging of answers about two jobs is covered by the theorems.
- *Two clients, two jobs* in submission. An instance with three jobs is beyond
  TLC; the theorems hold for any number.
- *Two jobs and a list of one* in the stream: a job of another process then pushes
  the other off the list and lets it return, which is how jobs come to be
  removed without leaving the store.
- *Two calls* in execution let a bundle have two chunks, an array two tasks, and
  the rsync of one call delete the result of the other.
- *One thread, three calls, one shutdown* in the connections: Ctrl+C lets one
  thread have all three in flight at once, which is what two retries and a
  bystander need to use, lose and replace each other's connection beside `close`.
  The theorems hold for any number of threads, calls and retries.
- *Two tasks* in an array: a task and one sibling, which may answer for it. The
  four sweeps have lists of different lengths, a flag that is given twice, one
  without a value, two keys that differ only in case, and a key that is no name of
  a shell variable. Theorems about ends
  hold for any size.
- *Two characters* in each log are enough for a read to begin between them, to
  be cut between them and to meet half of the second; with `Lines` and `Limit` of
  one, a tail leaves one out and a result is cut.
- A call starts in `Submission` only while a job id is left (`IdLeft`), and a
  call of a function is made once; ids are never reused in reality either.

### Fairness

- `JobStore`: weak fairness of each process's steps. A process that is inside a
  call goes on or dies; nothing in the code waits, apart from flock, and the
  kernel grants that.
- `JobTracking`: weak fairness of a client's steps and of a watch's next round
  (`while True` with a sleep); *strong* fairness of sacct's answers and of store
  updates, because `wait_job` polls for ever and ends only if a query that is
  tried again and again succeeds at last; weak fairness of squeue's row following
  its job. Nothing is assumed about when jobs end: `WaitEnds` begins when sacct
  has a readable end.
- `JobStream`: weak fairness of the stream's next step, the browser's reconnect
  included (`EventSource` does that by itself), and strong fairness of an answered
  refresh of each job, as above. The network owes nothing: `StreamConverges`
  speaks of behaviours in which it and the stream stay up from some time on.
- `Dashboard`: besides, a reply that has been fetched is shown. Nobody is obliged
  to press Refresh.
- `SSHManager`: weak fairness of every coroutine and of a thread's taking its
  answer: the loop runs what is ready, and a connect or a command ends, by a
  timeout if by nothing else. Neither the success of a connect nor an open
  connection is assumed. A call that meets a stopped loop is never answered;
  `CallsReturn` excepts that.
- `ArrayJobs`: weak fairness of the operation, strong fairness of sacct's answers
  as in `JobTracking`. Only the specification of the violation `array_wait` has
  squeue follow its jobs as well, so that the wait cannot be blamed on squeue.
- `LogFollowing`: weak fairness of the reader's loop, and strong fairness of a
  read that gives the whole rest of a file: a follower polls for ever and a read
  that is tried again and again gets through at last.
- `Submission` and `Execution` have safety properties only.

## 4. Proofs

All theorems hold for every value of the constants; tlapm checks them with Z3,
Zenon and LS4. TLC checks the same invariants first, on the instances above.

- `JobStoreProofs`. The inductive invariant `StoreInv` ties each process's place
  to what it holds: whoever is between lock and unlock is the holder; what it has
  read is what the disk still has, because only the holder writes; its temporary
  file exists and is the only one. From it `NoLostUpdate`, `StoreTempSurvives`
  and `AtMostOneStoreTemp`; and the refinement: every step is a step or a stutter
  of `AtomicJobStore`, where rename is the instant a mutator takes effect. Of the
  way to `LockIsReleased` all but fairness: who holds the lock is inside a mutation
  (`HoldersAreInside`), and each step of a call, failures included, brings it nearer
  to its return, which is nine steps away at most (`CallsAreAlwaysShort`).
- `JobTrackingProofs`. `RecordedEndIsReal` is not inductive: a record is written
  from an answer, an answer from a view. `TrackingInv` says of every place a
  status passes through, view, reply, handle and record, that a terminal one is
  true, and that the mark CANCELLED follows an accepted scancel. With it
  `AnswersAreLate`: what a view shows, or anybody holds or has recorded, is a state
  the job has been in, unreadable, nothing or the mark, so never ahead of the job.
  `RecordsRest` says why a watch brings the records to rest: once the views show an
  end and squeue has dropped the job, no client hears anything else, and a recorded
  end that no client contradicts from before is for good. `WaitsAlwaysGetOn` is the
  same for `wait_job`: one answer of sacct after the end is enough, and from it to the
  result there are three steps that no other client takes back (`WaitsAreSingle`: a
  wait holds no answer about any other job).
- `JobStreamProofs`. First all tables are tables of statuses (`TablesInvariant`).
  `StreamTellsAll` speaks of the time between two rounds; `TellingInv` says what
  holds within one: of a job that was looked at the reader has the new status, of
  the others that of the round before, and a job is looked at only while it is
  listed. `ConnectionIsKept`, a fact about steps that no run has (nothing is cached
  in the place of a usable connection), needs no invariant but the cases of `Next`.
  `EndsAreTrue` says of every table a status passes through that an end in it is the
  job's own; hence `ToldEndsAreReal`: the reader never hears of an end that was not.
  `HeardEndsAreTold` adds that the answer of one refresh reaches the reader, by
  `TellingInv` also where the comparison with the round before finds no news.
- `SubmissionProofs`. Four invariants, each on top of the last. *Matching*: a job
  in a client's hands is its own, on the cluster, unrecorded, and in no other
  hands. *Refusing*: an idempotency entry names a recorded job with that very
  hash. *Guarding*: calls in progress at once are all noted as overlapped, and a
  waiting job within the window has the entry, unless a later call that
  overlapped took it. *Owning*: while a client runs alone, from the end of its
  rsync to its record, the remote directory and its snapshot have files of its
  version only. From the last, with the fact that the hash a lone client took is
  that of its own lock file, `BuildsAreOwn`: what it builds is its version.
- `ExecutionProofs`. First `Types`: where the script is and in which operation
  agree, and so do what it holds there. Then five invariants on top. *Once*: every
  call is unmade, in a buffer, in hand or in its job; while a bundle is flushed its
  buffer keeps what has gone, and what is left is neither in hand nor submitted.
  *Placing*: payloads are local before they are in hand and remote before their job
  is. *Files*: only jobs whose results are wanted have files, and a call that is
  saving or complete has its whole file or had it removed. *Joining*: what the
  SlurmDispatcher has tracked is pending or has ended, and of the jobs a join set
  out with, those it has passed have ended. *Flushes*: a buffered call of a flush
  is left, in hand or in a job of the pending list, which has every job of this
  flush, so that an interruption finds them all. They give the six safety
  properties of the run, for any number of calls, jobs and bundles. `Answered`
  (an answer belongs to a completed call, no file appears after the news that it is
  gone, a `Ref` that has its value is not read again) completes what the refinement
  of `RemoteCalls` needs: `CallsKeepTheirPromise` takes every step of the script, the
  workers and rsync to a step of the abstract calls or to a stutter.
- `SSHManagerProofs`. `OneConnection` is not inductive by itself. `ConnectionInv`
  adds that whoever connects holds the lock and nothing in the cache is live
  meanwhile, and that outside its pause no call finds in the cache a connection it
  has failed on. Theorems hold for any number of threads, calls and retries. Of
  the way to `CallsReturn` all but fairness: the lock is held across connects only
  and nobody queues for it twice (`QueueInvariant`); while the loop runs every call
  has a step of its own before it or queues behind a call that has
  (`NobodyIsEverStranded`); and each of its steps brings a call nearer to its end by
  a measure of at most ten per attempt that no other step raises
  (`CallsAdvanceAlways`).
- `ArrayJobsProofs`. `ArrayInv` says of every place a status passes through that an
  end in it is that of the task, or of all tasks if it is about the array
  (`EndOf`); a collapsed row says the same of all, a sibling's row of squeue is
  never an end (`RowsAreReal`). Besides, `array_results` has as many results as
  there are tasks before the one it waits for, so that each is filed under its own.
  `TasksRunAsConfigured` needs no more than that the script is that of the flags and
  that a running task has what the script has for its number; the work is in
  `CommandHasValue`, about the operators of `Sweep`. Before it comes the parsing of
  the flags, a recursive function over the arguments: `ParsedParams` says what it
  collects, for any number of flags, from a least and a greatest counterexample, and
  `TasksRunTheirConfigs` goes the whole way from the command line to what a task
  sees. Of the way to `ResultsEnd` all but fairness: once sacct knows all ends, every
  lookup that is answered reads an end (`TasksAreAnswered`). `LostWaitsStayLost` is
  the other side, the violation of `array_wait` for arrays of any size: a wait for
  the array's own id, when sacct lists the tasks one by one and squeue has dropped
  them, is left by an exception, a timeout or Ctrl+C only.
- `LogFollowingProofs`. `LogInv` says that the offset of a reader who follows is
  the end of the last character it was shown, and that the final reads come after
  the end of the job. With it every step is a step or a stutter of `LogReader`:
  `ReadersSeeOnePiece` is the refinement, for logs of any length. Of the way to
  `FollowCatchesUp` all but fairness: the offset is always one that the next read can
  go on from, and after the end of the job what is unread only shrinks, to nothing
  with the first whole read (`FollowersGetOn`).

The assumptions are the named `ASSUME`s of the modules: names that are distinct,
bounds that are natural numbers, ids for the tasks of every array.

Every safety property and every refinement of the passing runs is a theorem. Only
model-checked are the properties under fairness, since neither fairness nor ENABLED
is within the provers' reach: `LockIsReleased`, `WaitEnds`, `StoreConverges`,
`CallsReturn`, `ResultsEnd`, `FollowCatchesUp` and `StreamConverges`. For each of
them the theorems named above prove the part that is safety, that nothing met on
the way is lost again; for the calls of the store, waits and connections they
bound the way as well. What the violation runs state is false and has no proof.

## 5. Where the code and its documents disagree

Three runs show one each:

1. `result_removed`: the rsync of the next `remote()` deletes result files that
   `get` has not read, since `._slurp` is included and they exist only remotely.
2. `page_stale`: the stream tells the end of a job and the page never shows it,
   since `job_update` is filed under an id that is undefined. Only Refresh helps.
3. `array_wait`: the join of a `JobBundling` waits for the array's own id. Where
   sacct lists the tasks one by one, as standard SLURM does, there is no such row;
   once squeue has dropped the array, the wait polls for ever (`LostWaitsStayLost`).

Others, met on the way, that no run shows. Of joins and results:

- `slurp.join()` after a `JobBundling` block, as in the class's own example,
  returns at once: the block's exit restores the SlurmDispatcher, which knows
  nothing of the bundle's jobs.
- `array_results` raises at the first task that failed and loses the rest.
- A late PENDING or RUNNING replaces a recorded CANCELLED, although
  `docs/04-python-api.md:155` calls terminal states final. Under a running `watch`
  the record comes to an end again if sacct has a word for it that slurp reads
  (`StoreConverges`, whose run cancels and has the plain CANCELLED). With sacct's
  usual `CANCELLED by <uid>` it does not: the record becomes UNKNOWN and stays so.
- `cancel_job` marks a job CANCELLED that has completed.
- `wait_job` raises JobFailedError for a completed job when its second sacct
  lookup fails (against `docs/09-error-handling.md:78`).
- `Experiment.cancel_all` cancels among the first fifty jobs only, and the array's
  `watch` (`docs/04-python-api.md:284`) does not end with the array.
- A flush through the LocalDispatcher keeps its buffer when a function raises
  (`dispatcher.py:433`).

Of snapshots and submission:

- The rsync of the next submission deletes `.slurp/runs`, the "immutable"
  snapshots (`docs/01-overview.md:88`) of jobs that still wait; such a job runs in
  the live directory.
- `find -exec` (`core/sync.py:161`) hides a `cp` that failed: a snapshot may be
  incomplete and nobody is told.

Of sweeps:

- Lists of different lengths are accepted, the shorter ones repeat their last
  value, though `docs/03-cli.md:204` requires one length; missing keys become an
  empty text, though `docs/07-job-submission.md:306` has a ValueError.
- Two keys that differ only in case share a shell variable.
- A key in capitals need not be a name bash allows (`core/slurm.py:137`):
  `--batch-size 8,16` declares `BATCH-SIZE=("8" "16")`, a syntax error with which
  every task of the array exits before its command. The model has it (`Parses`).
- Values stand between double quotes unescaped (`core/slurm.py:136`): one with `"`,
  `$` or a backquote arrives as something else, or breaks the script.
- `slurp submit-array python train.py --seed ...`, the form of `docs/03-cli.md:190`,
  takes `python` alone as its template.

Of logs:

- Nothing resumes from a saved offset: `get_offset` has no caller
  (`docs/02-architecture.md:301`, `docs/03-cli.md:268`), and a wait without
  `follow_logs` overwrites saved offsets with 0.
- `slurp run` does not show what is written after its last poll
  (`docs/03-cli.md:156`).
- `stdout_tail` is the tail of the first MiB, not of the log
  (`docs/09-error-handling.md:83`; `client.py:666`).
- A byte that is no UTF-8 stops the following of its log for good; a connection
  lost under `check=False` passes a partial text as the whole.
- `array_logs` and `array_results` read the logs of tasks in the working directory
  "" and do not find them (`docs/04-python-api.md:297`).

Of connections:

- `run_with_retry` and `open_process` have no caller: the retries and automatic
  reconnects of `docs/05-ssh-transport.md:122`, `docs/09-error-handling.md:143`,
  `docs/12-testing.md:39` and `docs/14-risks.md:78` do not happen, and asyncssh's
  own exception for a lost connection would not be retried. A retry lets go of
  whatever is cached, unclosed, even a connection that another coroutine has just
  made (`dropped`).
- A connect in flight during `close` leaves its connection open; `close` gives up
  after five seconds; a call after `close` waits for ever.
- There is no lock around the respawning of a control master
  (`docs/05-ssh-transport.md:218`, `docs/09-error-handling.md:249`).

Of the configuration wizard (`cli/setup.py`): cancelled after its backup it says
that nothing was written, when `profiles.toml` has been moved away; it overwrites
a profile that `add-profile` has added meanwhile; `add-profile --force`
(`docs/03-cli.md:452`) appends a second table of the same name.

And:

- `.lockhash` outlives a `uv sync` that failed half-way (`domain.py:117`): the next
  submission takes the environment for a complete one. Two overlapping
  submissions can also leave a marker that names another version's lock file.
- Recovery of `jobs.json` moves away whatever is at the path by then, which may be
  a good file that somebody has written since (`docs/06-state-management.md:312`
  calls it non-destructive); `AtomicJobStore` allows this.
- When a log poll was the first to reach the login node, the stream's cached
  connection belongs to a loop that has ended, and every later query of it fails
  and is swallowed, which is what the comment at `client.py:131` set out to
  prevent. `StreamConverges` excepts this (`conn = "gone"`).
- `docs/11-web-ui.md` has a lost SSH connection reported as `server_error`;
  `list_jobs` and `sacct_query` swallow it, and the stream says nothing.
- For the same reason hardly any log text reaches the live stream: the log poll
  fails on a connection of another loop, and its failure is an empty text. While
  it runs it blocks the server's event loop.
- `list_jobs` takes the first records in the order of the file, which is sorted
  by id as text: with more than 200 records the newest may be missing.
- `webui/routes.py:52` creates a client, with its loop and thread, per request and
  closes none.
- `docs/07-job-submission.md:262` describes a fallback after Ctrl+C that the code
  does not have.
- `docs/14-risks.md:164` has the hash stored before sbatch; it is stored after.
- `submit_array(snapshot=True)` takes a snapshot the array script never enters.
- `docs/06-state-management.md:123` has a timeout for the lock; flock blocks.
  `set_offset` (`core/store.py:212`) takes no lock at all: of two processes that
  wait with logs, one loses its offsets, which nobody reads.
- `guard.py:44`: blocks of `disabled` that overlap in two threads restore the flag
  in the wrong order. Nothing in the repository starts such threads.
- After two overlapping submissions the idempotency entry names the later job
  only: once that has started, a third identical submission passes the test
  while the first job still waits.
- `task.py:334`: join "does not raise on job failure"; `wait_job` does.
- `dispatcher.py:149`: get raises "the original exception"; `wait_job` raises
  JobFailedError first, and the error file has three fields where get expects
  two.
- `dispatcher.py:447` calls the window in which Ctrl+C loses a job one bytecode;
  it is the whole of the remote sbatch, which goes on in the loop's thread.
- `dispatcher.py:407` asks whether a class is an instance of KeyboardInterrupt.
- `dispatcher.py:493` submits every bundle with `gpus=0`.
- `get_dispatcher` falls back to local execution if `SlurmDispatcher()` raises,
  which it cannot.

## 6. What is abstracted or left out

- In the job store: damage that is not valid UTF-8 (it escapes `read` and is not
  recovered); `write_jobs`, which only tests call, is in the model and the
  proofs but not in the instance; the clean-up's glob and unlink are one step;
  abandoned temporary files of the offsets are not counted.
- KeyboardInterrupt has the effect of a death or an exception at the same place
  (`Crash`, `Abort`, `Fail`), except in `Execution`, where handlers exist.
- In tracking: failures inside the store, beyond an update that raises. Arrays are
  `ArrayJobs`', the logs of `wait_job` `LogFollowing`'s; `Experiment.cancel_all` and
  the cancelling of an array repeat `cancel_job`, and `watch` draws a table.
- In arrays: one owner at a time, since `JobTracking` has the interleavings; sacct
  does not forget the array; no task is cancelled by scancel. Values of a sweep are
  taken to have no character that means something to bash between double quotes;
  names are not (`ShellNames`).
- In the connections: one profile; the stdin and stdout of processes; the control
  master, which no command of asyncssh goes through.
- In logs: one reader at a time; lines are characters, since nothing depends on
  where they end; a file that shrinks (no step of slurp or of a job shortens one).
- In submission: what an interrupted call has left running on the cluster is a part
  of that call (section 2); how a job ends is `JobTracking`'s; a profile without `[sync]` or
  `[venv]` skips steps and has no others; `_resolve_working_dir` keeps no state.
- In the stream: the text of logs, the filter by experiment (as a smaller list),
  heartbeats and event ids; the routes that cancel and synchronise are
  `JobTracking`'s and `Submission`'s operations by other clients. Of the page only
  the table: no panels, no filters. One stream at a time, as the page has.
- In execution: the LocalDispatcher, `put`, `Ref.ready`, a block entered again
  while it is open, damage of `jobs.json` (a recorded job always has a status);
  lists are sets, since no property depends on their order.

### Not modelled

- **Execution guard.** One flag, saved and restored around a block of one thread.
- **Configuration wizard.** A sequence of questions with one rename and one write, in
  one process. What it does against its own text is listed in section 5.
- **Dashboard security.** A token per session compared at each request: no state
  that several steps could break.
- **Command line.** Arguments and printing around the client; what it computes is in
  `Sweep`, `LogFollowing` and `JobTracking`.
- **Node setup, errors, re-exports.** No state.

## 7. What remains

The components whose behaviour depends on the order of events are modelled. What
could still be added, in this order:

1. The log text of the stream (`webui/sse.py:80`), which finds new text by comparing
   a window of 500 lines with a count of characters: with the reader of
   `LogFollowing` in the place of the empty text of `JobStream`.
2. The composition of `SSHManager` and `JobStream`: `JobStream` has the cached
   connection as a variable of its own.
3. A script that shares its directory with itself, in `Execution`: bundles entered
   again while they are open, and the LocalDispatcher.
4. `DispatcherRestored`, the order in which nested blocks restore the dispatcher,
   which `Execution` models and no run states.
