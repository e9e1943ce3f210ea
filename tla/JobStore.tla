------------------------------ MODULE JobStore ------------------------------
(***************************************************************************)
(* JobStore and LogOffsetStore (src/slurp/core/store.py) as processes of    *)
(* one machine share them: jobs.json replaced by rename under the flock on  *)
(* .store.lock, readers that take no lock, log_offsets.json written with    *)
(* no lock at all in the same directory, processes that die, writes that   *)
(* fail, a jobs.json damaged from outside and the recovery from it.        *)
(* One action is one system call or one stretch of code that touches       *)
(* nothing shared.                                                         *)
(***************************************************************************)
EXTENDS StoreData, FiniteSets

CONSTANTS
    Procs,           \* processes (or threads: each call opens its own lock fd)
    Ops,             \* the calls they make
    Absent,          \* jobs.json does not exist
    Corrupt,         \* jobs.json is not JSON
    MaxCrashes,      \* bound: processes that die during a call
    MaxCorruptions   \* bound: times jobs.json is damaged from outside

ASSUME OpsAssumption == Ops \subseteq AllOps
ASSUME ProcsAssumption == None \notin Procs
ASSUME FileAssumption == Absent # Corrupt /\ Absent \notin Content /\ Corrupt \notin Content
ASSUME BoundsAssumption == MaxCrashes \in Nat /\ MaxCorruptions \in Nat

VARIABLES
    live,         \* jobs.json: its contents, or Absent, or Corrupt
    lock,         \* who holds the flock on .store.lock, or None
    tmp,          \* tmp[p]: p's temporary file: none, present, unlinked by another
    debris,       \* temporary files of jobs.json that their writer abandoned
    offsets,      \* log_offsets.json
    issued,       \* ids of the jobs submitted so far
    aged,         \* those submitted more than 30 s ago
    pc, op,       \* per process: where it is, and in which call
    data,         \* data[p]: the dict p read, then the dict it will write
    offsetData,   \* the same for log_offsets.json
    crashes, corruptions

fileVars == <<live, debris, offsets>>
procVars == <<op, data, offsetData>>
envVars  == <<issued, aged, crashes, corruptions>>
vars == <<live, lock, tmp, debris, offsets, issued, aged, pc, op, data, offsetData,
          crashes, corruptions>>

NoOffsets == [j \in Jobs |-> 0]

Labels == {"idle", "acquire", "exists", "open", "recover", "cleanup", "mkstemp",
           "dump", "rename", "readOffsets", "writeOffsets", "renameOffsets",
           "done", "failed"}

TypeOK ==
    /\ live \in Content \cup {Absent, Corrupt}
    /\ lock \in Procs \cup {None}
    /\ tmp \in [Procs -> {"none", "present", "unlinked"}]
    /\ debris \in Nat
    /\ offsets \in [Jobs -> Nat]
    /\ issued \in SUBSET Jobs
    /\ aged \in SUBSET issued
    /\ pc \in [Procs -> Labels]
    /\ op \in [Procs -> AllOps \cup {NoOp}]
    /\ data \in [Procs -> Content]
    /\ offsetData \in [Procs -> [Jobs -> Nat]]
    /\ crashes \in 0..MaxCrashes
    /\ corruptions \in 0..MaxCorruptions

Init ==
    /\ live = Absent
    /\ lock = None
    /\ tmp = [p \in Procs |-> "none"]
    /\ debris = 0
    /\ offsets = NoOffsets
    /\ issued = {}
    /\ aged = {}
    /\ pc = [p \in Procs |-> "idle"]
    /\ op = [p \in Procs |-> NoOp]
    /\ data = [p \in Procs |-> Empty]
    /\ offsetData = [p \in Procs |-> NoOffsets]
    /\ crashes = 0
    /\ corruptions = 0

Goto(p, label) == pc' = [pc EXCEPT ![p] = label]

----------------------------------------------------------------------------
(* Calls and the lock *)

\* SLURM gives every submission an id of its own, so nobody appends an id twice.
MayCall(o) == o.kind = "append" => o.job \notin issued

\* Mutant: update_job_status reads and writes without the lock.
EntryPointUpdateUnlocked(o) ==
    CASE o.kind \in {"append", "replace"} -> "acquire"
      [] o.kind \in {"update", "read"}    -> "exists"
      [] o.kind = "offset"                -> "readOffsets"

EntryPoint(o) ==
    CASE IsMutator(o)        -> "acquire"
      [] o.kind = "read"     -> "exists"
      [] o.kind = "offset"   -> "readOffsets"

Call(p, o) ==
    /\ pc[p] = "idle"
    /\ MayCall(o)
    /\ op' = [op EXCEPT ![p] = o]
    /\ Goto(p, EntryPoint(o))
    /\ issued' = IF o.kind = "append" THEN issued \cup {o.job} ELSE issued
    /\ UNCHANGED <<fileVars, lock, tmp, data, offsetData, aged, crashes, corruptions>>

\* Mutant: the lock is taken without waiting for its holder.
AcquireIgnoringHolder(p) ==
    /\ pc[p] = "acquire"
    /\ lock' = p
    /\ Goto(p, "exists")
    /\ UNCHANGED <<fileVars, tmp, procVars, envVars>>

\* flock(LOCK_EX) blocks for as long as another process holds the lock.
Acquire(p) ==
    /\ pc[p] = "acquire"
    /\ lock = None
    /\ lock' = p
    /\ Goto(p, "exists")
    /\ UNCHANGED <<fileVars, tmp, procVars, envVars>>

\* flock itself fails: the fd is closed and SlurpError raised.
AcquireFails(p) ==
    /\ pc[p] = "acquire"
    /\ Goto(p, "failed")
    /\ UNCHANGED <<fileVars, lock, tmp, procVars, envVars>>

----------------------------------------------------------------------------
(* read(): by a reader without the lock, by a mutator while it holds it *)

\* The dict c is in memory: a reader returns it, a mutator changes it and
\* goes on to write it, except update_job_status of a job it does not know.
Loaded(p, c) ==
    IF Writes(op[p], c)
      THEN /\ data' = [data EXCEPT ![p] = Apply(op[p], c, aged)]
           /\ Goto(p, "cleanup")
      ELSE /\ data' = [data EXCEPT ![p] = c]
           /\ Goto(p, "done")

Exists(p) ==
    /\ pc[p] = "exists"
    /\ IF live = Absent
         THEN Loaded(p, Empty)
         ELSE Goto(p, "open") /\ UNCHANGED data
    /\ UNCHANGED <<fileVars, lock, tmp, op, offsetData, envVars>>

\* Mutant: a reader hands on whatever the file holds.
OpenWithoutRecovery(p) ==
    /\ pc[p] = "open"
    /\ \/ live = Absent /\ Loaded(p, Empty)
       \/ live = Corrupt /\ data' = [data EXCEPT ![p] = live] /\ Goto(p, "done")
       \/ live \in Content /\ Loaded(p, live)
    /\ UNCHANGED <<fileVars, lock, tmp, op, offsetData, envVars>>

\* open and json.load: the bytes are those of the file that was current at
\* the open, since a file is complete before it is renamed into place.
Open(p) ==
    /\ pc[p] = "open"
    /\ \/ live = Absent /\ Loaded(p, Empty)
       \/ live = Corrupt /\ Goto(p, "recover") /\ UNCHANGED data
       \/ live \in Content /\ Loaded(p, live)
    /\ UNCHANGED <<fileVars, lock, tmp, op, offsetData, envVars>>

\* The handler of JSONDecodeError moves away whatever is at the path by now,
\* and raises FileNotFoundError if nothing is.
Recover(p) ==
    /\ pc[p] = "recover"
    /\ \/ /\ live # Absent
          /\ live' = Absent
          /\ Loaded(p, Empty)
       \/ /\ live = Absent
          /\ Goto(p, "failed")
          /\ UNCHANGED <<live, data>>
    /\ UNCHANGED <<lock, tmp, debris, offsets, op, offsetData, envVars>>

----------------------------------------------------------------------------
(* _atomic_write(): only by the holder of the lock *)

\* Mutant: stale temporary files are left alone.
CleanupNothing(p) ==
    /\ pc[p] = "cleanup"
    /\ Goto(p, "mkstemp")
    /\ UNCHANGED <<fileVars, tmp, lock, procVars, envVars>>

\* Every file that matches *.tmp.* is unlinked: abandoned ones, and those of
\* log_offsets.json that another process has not renamed yet.
Cleanup(p) ==
    /\ pc[p] = "cleanup"
    /\ debris' = 0
    /\ tmp' = [q \in Procs |-> IF tmp[q] = "present" THEN "unlinked" ELSE tmp[q]]
    /\ Goto(p, "mkstemp")
    /\ UNCHANGED <<live, offsets, lock, procVars, envVars>>

\* An OSError of mkstemp itself is outside the try: raised as it is.
Mkstemp(p) ==
    /\ pc[p] = "mkstemp"
    /\ \/ tmp' = [tmp EXCEPT ![p] = "present"] /\ Goto(p, "dump")
       \/ Goto(p, "failed") /\ UNCHANGED tmp
    /\ UNCHANGED <<fileVars, lock, procVars, envVars>>

\* p lets go of its temporary file: still on disk, it becomes debris.
Abandon(p) ==
    /\ tmp' = [tmp EXCEPT ![p] = "none"]
    /\ debris' = debris + (IF tmp[p] = "present" /\ IsMutator(op[p]) THEN 1 ELSE 0)

\* json.dump, flush and fsync; an OSError becomes a ConfigError and leaves
\* the temporary file where it is.
Dump(p) ==
    /\ pc[p] = "dump"
    /\ \/ Goto(p, "rename") /\ UNCHANGED <<tmp, debris>>
       \/ Goto(p, "failed") /\ Abandon(p)
    /\ UNCHANGED <<live, offsets, lock, procVars, envVars>>

Rename(p) ==
    /\ pc[p] = "rename"
    /\ \/ /\ tmp[p] = "present"
          /\ live' = data[p]
          /\ tmp' = [tmp EXCEPT ![p] = "none"]
          /\ Goto(p, "done")
          /\ UNCHANGED debris
       \/ Goto(p, "failed") /\ Abandon(p) /\ UNCHANGED live
    /\ UNCHANGED <<offsets, lock, procVars, envVars>>

----------------------------------------------------------------------------
(* LogOffsetStore.set_offset(): no lock.  An abandoned temporary file of    *)
(* log_offsets.json is read by nobody and not tracked.                      *)

ReadOffsets(p) ==
    /\ pc[p] = "readOffsets"
    /\ offsetData' = [offsetData EXCEPT ![p] = [offsets EXCEPT ![op[p].job] = op[p].position]]
    /\ Goto(p, "writeOffsets")
    /\ UNCHANGED <<fileVars, lock, tmp, op, data, envVars>>

\* mkstemp and dump; a failed dump is swallowed, a failed mkstemp is not.
WriteOffsets(p) ==
    /\ pc[p] = "writeOffsets"
    /\ \/ tmp' = [tmp EXCEPT ![p] = "present"] /\ Goto(p, "renameOffsets")
       \/ Goto(p, "done") /\ UNCHANGED tmp
       \/ Goto(p, "failed") /\ UNCHANGED tmp
    /\ UNCHANGED <<fileVars, lock, procVars, envVars>>

\* A rename that fails, for instance because a JobStore writer unlinked the
\* temporary file meanwhile, is swallowed.
RenameOffsets(p) ==
    /\ pc[p] = "renameOffsets"
    /\ \/ tmp[p] = "present" /\ offsets' = offsetData[p]
       \/ UNCHANGED offsets
    /\ tmp' = [tmp EXCEPT ![p] = "none"]
    /\ Goto(p, "done")
    /\ UNCHANGED <<live, debris, lock, procVars, envVars>>

----------------------------------------------------------------------------
(* Return, death, time and damage *)

\* Mutant: no finally clause, an exception leaves the lock held.
ReleaseUnlessFailed(p) == IF lock = p /\ pc[p] # "failed" THEN None ELSE lock

\* Who holds the lock once p is gone.
Release(p) == IF lock = p THEN None ELSE lock

\* p forgets its call; the lock, if it holds it, is free.
Clear(p) ==
    /\ lock' = Release(p)
    /\ Goto(p, "idle")
    /\ op' = [op EXCEPT ![p] = NoOp]
    /\ data' = [data EXCEPT ![p] = Empty]
    /\ offsetData' = [offsetData EXCEPT ![p] = NoOffsets]

\* The finally clause releases the lock on every path out, normal or not.
Return(p) ==
    /\ pc[p] \in {"done", "failed"}
    /\ Clear(p)
    /\ UNCHANGED <<fileVars, tmp, envVars>>

\* The process is killed in the middle of a call: the kernel drops its flock.
\* A KeyboardInterrupt there changes the same state through the finally clause.
Crash(p) ==
    /\ pc[p] # "idle"
    /\ crashes < MaxCrashes
    /\ crashes' = crashes + 1
    /\ Clear(p)
    /\ Abandon(p)
    /\ UNCHANGED <<live, offsets, issued, aged, corruptions>>

Age(j) ==
    /\ j \in issued \ aged
    /\ aged' = aged \cup {j}
    /\ UNCHANGED <<fileVars, lock, tmp, pc, procVars, issued, crashes, corruptions>>

\* Something other than slurp truncates or edits jobs.json.
Damage ==
    /\ live \in Content
    /\ corruptions < MaxCorruptions
    /\ corruptions' = corruptions + 1
    /\ live' = Corrupt
    /\ UNCHANGED <<lock, tmp, debris, offsets, pc, procVars, issued, aged, crashes>>

----------------------------------------------------------------------------
Step(p) ==
    \/ Acquire(p) \/ AcquireFails(p)
    \/ Exists(p) \/ Open(p) \/ Recover(p)
    \/ Cleanup(p) \/ Mkstemp(p) \/ Dump(p) \/ Rename(p)
    \/ ReadOffsets(p) \/ WriteOffsets(p) \/ RenameOffsets(p)
    \/ Return(p)

Next ==
    \/ \E p \in Procs : \/ \E o \in Ops : Call(p, o)
                        \/ Step(p)
                        \/ Crash(p)
    \/ \E j \in Jobs : Age(j)
    \/ Damage

Spec == Init /\ [][Next]_vars

\* A process inside a call keeps running; nothing makes a process call.
Fairness == \A p \in Procs : WF_vars(Step(p))

FairSpec == Spec /\ Fairness

----------------------------------------------------------------------------
(* Properties *)

\* Where a process is agrees with the call it makes.
CallMatchesPc ==
    \A p \in Procs :
        /\ pc[p] = "idle" <=> op[p] = NoOp
        /\ pc[p] \in {"acquire", "cleanup", "mkstemp", "dump", "rename"} => op[p] \in Mutators
        /\ pc[p] \in {"exists", "open", "recover"} => op[p] \in StoreOps
        /\ pc[p] \in {"readOffsets", "writeOffsets", "renameOffsets"} => op[p] \in OffsetOps

\* Processes whose temporary file of jobs.json is on disk.
StoreTemps == {p \in Procs : tmp[p] = "present" /\ IsMutator(op[p])}

\* Temporary files of jobs.json never pile up, whatever dies or fails: there
\* is at most one, in flight or abandoned, because every writer removes the
\* stale ones before it makes its own and writers exclude each other
\* (_atomic_write's cleanup under _acquire_lock).
AtMostOneStoreTemp == Cardinality(StoreTemps) + debris <= 1

\* Although every writer unlinks all *.tmp.* files of the directory, it never
\* unlinks the file another writer of jobs.json is about to rename: a call of
\* the store cannot fail because of another process (_atomic_write).
StoreTempSurvives ==
    \A p \in Procs : pc[p] \in {"dump", "rename"} => tmp[p] = "present"

\* A write is computed from the contents it replaces: as long as nothing
\* damages the file, what a mutator holds in memory between its read and its
\* rename is its own change applied to what is in jobs.json at that moment,
\* so no concurrent call is lost (append_job, update_job_status, write_jobs).
Contents == IF live \in {Absent, Corrupt} THEN Empty ELSE live

NoLostUpdate ==
    corruptions = 0 =>
        \A p \in Procs : pc[p] \in {"cleanup", "mkstemp", "dump", "rename"} =>
            \E old \in SUBSET aged : data[p] = Apply(op[p], Contents, old)

\* The inductive invariant behind the four above.
Critical == {"exists", "open", "recover", "cleanup", "mkstemp", "dump", "rename"}

MutatorHoldsLock ==
    \A p \in Procs : op[p] \in Mutators /\ pc[p] \in Critical => lock = p

TempsAccounted ==
    /\ \A p \in Procs : tmp[p] # "none" => pc[p] \in {"dump", "rename", "renameOffsets"}
    /\ StoreTempSurvives
    /\ debris <= 1
    /\ \A p \in Procs : pc[p] \in {"mkstemp", "dump", "rename"} => debris = 0

RecoveryHasCause ==
    live = Corrupt \/ (\E p \in Procs : pc[p] = "recover") => corruptions > 0

StoreInv == MutatorHoldsLock /\ TempsAccounted /\ RecoveryHasCause /\ NoLostUpdate

\* The lock is given back on every path: no holder keeps it for ever, whether
\* its call succeeds, raises or dies (_release_lock in finally, flock's own
\* release at exit).  Nobody inside it waits for anything but the file system.
LockIsReleased == \A p \in Procs : (lock = p) ~> (lock # p)

\* Seen through this mapping the store keeps the promise of AtomicJobStore:
\* calls are atomic, readers without a lock included, and a crash leaves all
\* of a call or nothing of it.
StoreOp(p) == IF op[p].kind = "offset" THEN NoOp ELSE op[p]

StorePhase(p) ==
    CASE op[p].kind \in {"none", "offset"} -> "idle"
      [] OTHER -> IF pc[p] \in {"done", "failed"} THEN pc[p] ELSE "called"

StoreSeen(p) == IF op[p] = ReadOp /\ pc[p] = "done" THEN data[p] ELSE Empty

OpBar    == [p \in Procs |-> StoreOp(p)]
PhaseBar == [p \in Procs |-> StorePhase(p)]
SeenBar  == [p \in Procs |-> StoreSeen(p)]

Promise == INSTANCE AtomicJobStore WITH
    Ops <- Ops \ OffsetOps, store <- Contents, damaged <- corruptions > 0,
    op <- OpBar, phase <- PhaseBar, seen <- SeenBar

ImplementsAtomicStore == Promise!Spec
============================================================================
