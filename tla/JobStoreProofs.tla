--------------------------- MODULE JobStoreProofs ---------------------------
(***************************************************************************)
(* Proofs about JobStore for every set of processes, jobs, hashes and      *)
(* calls, and every number of crashes and corruptions.                     *)
(***************************************************************************)
EXTENDS JobStore, FiniteSetTheorems, TLAPS

----------------------------------------------------------------------------
(* Lemmas about the operators of StoreData *)

\* The kind of a call tells which set it belongs to.
LEMMA KindOfCall ==
    ASSUME NEW o \in AllOps \cup {NoOp}
    PROVE  /\ IsMutator(o) <=> o \in Mutators
           /\ o.kind = "append" <=> o \in AppendOps
           /\ o.kind = "update" <=> o \in UpdateOps
           /\ o.kind = "replace" <=> o \in ReplaceOps
           /\ o.kind = "read" <=> o = ReadOp
           /\ o.kind = "offset" <=> o \in OffsetOps
           /\ o.kind = "none" <=> o = NoOp
           /\ o.kind \in {"append", "update", "replace", "read", "offset", "none"}
  BY DEF AllOps, StoreOps, Mutators, AppendOps, UpdateOps, ReplaceOps, OffsetOps,
         ReadOp, NoOp, IsMutator

\* Every mutation of well-formed contents gives well-formed contents.
LEMMA ApplyType ==
    ASSUME NEW o \in Mutators, NEW c \in Content, NEW old \in SUBSET Jobs
    PROVE  Apply(o, c, old) \in Content
<1>1. CASE o \in AppendOps
  <2>1. o.kind = "append" /\ o.job \in Jobs /\ o.hash \in Hashes \cup {None}
    BY <1>1 DEF AppendOps
  <2>2. [c.jobs EXCEPT ![o.job] = "PENDING"] \in JobTable
    BY <2>1 DEF Content, JobTable, JobStatus
  <2>3. PruneIdempotency(c.idem, old) \in [Hashes -> Jobs \cup {None}]
    BY DEF Content, PruneIdempotency
  <2>4. PruneIdempotency([c.idem EXCEPT ![o.hash] = o.job], old)
            \in [Hashes -> Jobs \cup {None}]
    BY <2>1 DEF Content, PruneIdempotency
  <2>5. AppendJob(c, o.job, o.hash, old) \in Content
    BY <2>2, <2>3, <2>4 DEF AppendJob, Content
  <2> QED BY <2>1, <2>5 DEF Apply
<1>2. CASE o \in UpdateOps
  BY <1>2 DEF UpdateOps, Apply, UpdateStatus, Content, JobTable
<1>3. CASE o \in ReplaceOps
  BY <1>3 DEF ReplaceOps, Apply, Content
<1> QED BY <1>1, <1>2, <1>3 DEF Mutators

\* The empty store is well-formed.
LEMMA EmptyType == Empty \in Content
  BY DEF Empty, Content, JobTable

----------------------------------------------------------------------------
(* Type correctness *)

\* What read() leaves in memory is well-formed contents.
LEMMA LoadedType ==
    ASSUME TypeOK, NEW p \in Procs, NEW c \in Content, Loaded(p, c)
    PROVE  data' \in [Procs -> Content] /\ pc' \in [Procs -> Labels]
<1>1. op[p] \in AllOps \cup {NoOp} /\ aged \in SUBSET Jobs
  BY DEF TypeOK
<1>2. CASE Writes(op[p], c)
  <2>1. op[p] \in Mutators
    BY <1>1, <1>2, KindOfCall DEF Writes
  <2>2. Apply(op[p], c, aged) \in Content
    BY <1>1, <2>1, ApplyType
  <2> QED BY <1>2, <2>2 DEF Loaded, Goto, TypeOK, Labels
<1>3. CASE ~Writes(op[p], c)
  BY <1>3 DEF Loaded, Goto, TypeOK, Labels
<1> QED BY <1>2, <1>3

\* A process that lets go of its temporary file leaves countable debris.
LEMMA AbandonType ==
    ASSUME TypeOK, NEW p \in Procs, Abandon(p)
    PROVE  tmp' \in [Procs -> {"none", "present", "unlinked"}] /\ debris' \in Nat
  BY DEF Abandon, TypeOK

\* A process that forgets its call leaves well-typed locals behind.
LEMMA ClearType ==
    ASSUME TypeOK, NEW p \in Procs, Clear(p)
    PROVE  /\ lock' \in Procs \cup {None}
           /\ pc' \in [Procs -> Labels]
           /\ op' \in [Procs -> AllOps \cup {NoOp}]
           /\ data' \in [Procs -> Content]
           /\ offsetData' \in [Procs -> [Jobs -> Nat]]
<1>1. lock' \in Procs \cup {None} /\ pc' \in [Procs -> Labels]
  BY DEF Clear, Release, Goto, TypeOK, Labels
<1>2. op' \in [Procs -> AllOps \cup {NoOp}]
  BY DEF Clear, TypeOK
<1>3. data' \in [Procs -> Content]
  BY EmptyType DEF Clear, TypeOK
<1>4. offsetData' \in [Procs -> [Jobs -> Nat]]
  BY DEF Clear, TypeOK, NoOffsets
<1> QED BY <1>1, <1>2, <1>3, <1>4

\* One step keeps the types.
LEMMA TypeStep == TypeOK /\ CallMatchesPc /\ [Next]_vars => TypeOK'
  <2> SUFFICES ASSUME TypeOK, CallMatchesPc, [Next]_vars PROVE TypeOK'
    OBVIOUS
  <2> USE DEF Goto, fileVars, procVars, envVars
  <2>1. ASSUME NEW p \in Procs, NEW o \in Ops, Call(p, o) PROVE TypeOK'
    <3>1. o \in AllOps
      BY OpsAssumption
    <3>2. EntryPoint(o) \in Labels
      <4>1. o.kind \in {"append", "update", "replace", "read", "offset"}
        BY <3>1 DEF AllOps, StoreOps, Mutators, AppendOps, UpdateOps, ReplaceOps,
                    OffsetOps, ReadOp
      <4> QED BY <4>1 DEF EntryPoint, IsMutator, Labels
    <3>3. issued' \in SUBSET Jobs /\ issued \subseteq issued'
      BY <2>1, <3>1, KindOfCall DEF Call, TypeOK, AppendOps
    <3> QED BY <2>1, <3>1, <3>2, <3>3 DEF Call, TypeOK
  <2>2. ASSUME NEW p \in Procs, Acquire(p) \/ AcquireFails(p) PROVE TypeOK'
    BY <2>2 DEF Acquire, AcquireFails, TypeOK, Labels
  <2>3. ASSUME NEW p \in Procs, Exists(p) PROVE TypeOK'
    <3>1. data' \in [Procs -> Content] /\ pc' \in [Procs -> Labels]
      BY <2>3, LoadedType, EmptyType DEF Exists, TypeOK, Labels
    <3> QED BY <2>3, <3>1 DEF Exists, TypeOK
  <2>4. ASSUME NEW p \in Procs, Open(p) PROVE TypeOK'
    <3>1. data' \in [Procs -> Content] /\ pc' \in [Procs -> Labels]
      BY <2>4, LoadedType, EmptyType DEF Open, TypeOK, Labels
    <3> QED BY <2>4, <3>1 DEF Open, TypeOK
  <2>5. ASSUME NEW p \in Procs, Recover(p) PROVE TypeOK'
    <3>1. data' \in [Procs -> Content] /\ pc' \in [Procs -> Labels]
      BY <2>5, LoadedType, EmptyType DEF Recover, TypeOK, Labels
    <3> QED BY <2>5, <3>1 DEF Recover, TypeOK
  <2>6. ASSUME NEW p \in Procs, Cleanup(p) PROVE TypeOK'
    <3>1. tmp' \in [Procs -> {"none", "present", "unlinked"}]
      BY <2>6 DEF Cleanup, TypeOK
    <3> QED BY <2>6, <3>1 DEF Cleanup, TypeOK, Labels
  <2>7. ASSUME NEW p \in Procs, Mkstemp(p) PROVE TypeOK'
    <3>1. tmp' \in [Procs -> {"none", "present", "unlinked"}] /\ pc' \in [Procs -> Labels]
      BY <2>7 DEF Mkstemp, TypeOK, Labels
    <3> QED BY <2>7, <3>1 DEF Mkstemp, TypeOK
  <2>8. ASSUME NEW p \in Procs, Dump(p) PROVE TypeOK'
    <3>1. tmp' \in [Procs -> {"none", "present", "unlinked"}] /\ debris' \in Nat
      BY <2>8, AbandonType DEF Dump, TypeOK
    <3>2. pc' \in [Procs -> Labels]
      BY <2>8 DEF Dump, TypeOK, Labels
    <3> QED BY <2>8, <3>1, <3>2 DEF Dump, TypeOK
  <2>9. ASSUME NEW p \in Procs, Rename(p) PROVE TypeOK'
    <3>1. tmp' \in [Procs -> {"none", "present", "unlinked"}] /\ debris' \in Nat
      BY <2>9, AbandonType DEF Rename, TypeOK
    <3>2. pc' \in [Procs -> Labels]
      BY <2>9 DEF Rename, TypeOK, Labels
    <3>4. live' \in Content \cup {Absent, Corrupt}
      BY <2>9 DEF Rename, TypeOK
    <3>3. UNCHANGED <<lock, offsets, issued, aged, op, data, offsetData, crashes, corruptions>>
      BY <2>9 DEF Rename
    <3> QED BY <3>1, <3>2, <3>3, <3>4 DEF TypeOK
  <2>10. ASSUME NEW p \in Procs, ReadOffsets(p) PROVE TypeOK'
    <3>1. offsetData' \in [Procs -> [Jobs -> Nat]]
      <4>1. op[p] \in OffsetOps
        BY <2>10 DEF ReadOffsets, CallMatchesPc
      <4>2. [offsets EXCEPT ![op[p].job] = op[p].position] \in [Jobs -> Nat]
        BY <4>1 DEF OffsetOps, TypeOK
      <4> QED BY <2>10, <4>2 DEF ReadOffsets, TypeOK
    <3>2. pc' \in [Procs -> Labels]
      BY <2>10 DEF ReadOffsets, TypeOK, Labels
    <3> QED BY <2>10, <3>1, <3>2 DEF ReadOffsets, TypeOK
  <2>11. ASSUME NEW p \in Procs, WriteOffsets(p) PROVE TypeOK'
    <3>1. tmp' \in [Procs -> {"none", "present", "unlinked"}] /\ pc' \in [Procs -> Labels]
      BY <2>11 DEF WriteOffsets, TypeOK, Labels
    <3> QED BY <2>11, <3>1 DEF WriteOffsets, TypeOK
  <2>12. ASSUME NEW p \in Procs, RenameOffsets(p) PROVE TypeOK'
    <3>1. tmp' \in [Procs -> {"none", "present", "unlinked"}] /\ pc' \in [Procs -> Labels]
      BY <2>12 DEF RenameOffsets, TypeOK, Labels
    <3>2. offsets' \in [Jobs -> Nat]
      BY <2>12 DEF RenameOffsets, TypeOK
    <3> QED BY <2>12, <3>1, <3>2 DEF RenameOffsets, TypeOK
  <2>13. ASSUME NEW p \in Procs, Return(p) PROVE TypeOK'
    BY <2>13, ClearType DEF Return, TypeOK
  <2>14. ASSUME NEW p \in Procs, Crash(p) PROVE TypeOK'
    <3>1. tmp' \in [Procs -> {"none", "present", "unlinked"}] /\ debris' \in Nat
      BY <2>14, AbandonType DEF Crash
    <3>2. crashes' \in 0..MaxCrashes
      BY <2>14, BoundsAssumption DEF Crash, TypeOK
    <3> QED BY <2>14, <3>1, <3>2, ClearType DEF Crash, TypeOK
  <2>15. ASSUME NEW j \in Jobs, Age(j) PROVE TypeOK'
    BY <2>15 DEF Age, TypeOK
  <2>16. CASE Damage
    <3>1. corruptions' \in 0..MaxCorruptions
      BY <2>16, BoundsAssumption DEF Damage, TypeOK
    <3> QED BY <2>16, <3>1 DEF Damage, TypeOK
  <2>17. CASE UNCHANGED vars
    BY <2>17 DEF vars, TypeOK
  <2> QED
    BY <2>1, <2>2, <2>3, <2>4, <2>5, <2>6, <2>7, <2>8, <2>9, <2>10, <2>11, <2>12,
       <2>13, <2>14, <2>15, <2>16, <2>17 DEF Next, Step

\* After read() a process is done or about to write.
LEMMA LoadedPc ==
    ASSUME TypeOK, NEW p \in Procs, NEW c, Loaded(p, c)
    PROVE  \E l \in {"cleanup", "done"} :
              /\ pc' = [pc EXCEPT ![p] = l]
              /\ l = "cleanup" => op[p] \in Mutators
  BY KindOfCall DEF Loaded, Goto, Writes, TypeOK

\* One step keeps every process in a place that fits its call.
LEMMA CallStep == TypeOK /\ CallMatchesPc /\ [Next]_vars => CallMatchesPc'
  <2> SUFFICES ASSUME TypeOK, CallMatchesPc, [Next]_vars PROVE CallMatchesPc'
    OBVIOUS
  <2> USE DEF Goto, procVars
  <2>1. ASSUME NEW p \in Procs, NEW o \in Ops, Call(p, o) PROVE CallMatchesPc'
    <3>1. o \in AllOps /\ o # NoOp
      BY OpsAssumption DEF AllOps, StoreOps, Mutators, AppendOps, UpdateOps, ReplaceOps,
                           OffsetOps, ReadOp, NoOp
    <3>2. \/ EntryPoint(o) = "acquire" /\ o \in Mutators
          \/ EntryPoint(o) = "exists" /\ o \in StoreOps
          \/ EntryPoint(o) = "readOffsets" /\ o \in OffsetOps
      <4>1. \/ IsMutator(o) /\ o \in Mutators
            \/ ~IsMutator(o) /\ o.kind = "read" /\ o = ReadOp
            \/ ~IsMutator(o) /\ o.kind = "offset" /\ o \in OffsetOps
        BY <3>1, KindOfCall DEF AllOps, StoreOps
      <4> QED BY <4>1 DEF EntryPoint, IsMutator, StoreOps
    <3> QED BY <2>1, <3>1, <3>2 DEF Call, CallMatchesPc, TypeOK
  <2>2. ASSUME NEW p \in Procs, Acquire(p) \/ AcquireFails(p) PROVE CallMatchesPc'
    BY <2>2 DEF Acquire, AcquireFails, CallMatchesPc, TypeOK, StoreOps
  <2>3. ASSUME NEW p \in Procs, Exists(p) \/ Open(p) \/ Recover(p) PROVE CallMatchesPc'
    <3>1. \E l \in {"cleanup", "done", "open", "recover", "failed"} :
             /\ pc' = [pc EXCEPT ![p] = l]
             /\ l = "cleanup" => op[p] \in Mutators
      BY <2>3, LoadedPc DEF Exists, Open, Recover
    <3>2. op' = op /\ pc[p] \in {"exists", "open", "recover"}
      BY <2>3 DEF Exists, Open, Recover
    <3> QED BY <3>1, <3>2 DEF CallMatchesPc, TypeOK
  <2>4. ASSUME NEW p \in Procs, Cleanup(p) \/ Mkstemp(p) \/ Dump(p) \/ Rename(p)
        PROVE  CallMatchesPc'
    <3>1. \E l \in {"mkstemp", "dump", "rename", "done", "failed"} : pc' = [pc EXCEPT ![p] = l]
      BY <2>4 DEF Cleanup, Mkstemp, Dump, Rename
    <3>2. op' = op /\ op[p] \in Mutators /\ pc[p] # "idle"
      BY <2>4 DEF Cleanup, Mkstemp, Dump, Rename, CallMatchesPc
    <3> QED BY <3>1, <3>2 DEF CallMatchesPc, TypeOK
  <2>5. ASSUME NEW p \in Procs, ReadOffsets(p) \/ WriteOffsets(p) \/ RenameOffsets(p)
        PROVE  CallMatchesPc'
    <3>1. \E l \in {"writeOffsets", "renameOffsets", "done", "failed"} : pc' = [pc EXCEPT ![p] = l]
      BY <2>5 DEF ReadOffsets, WriteOffsets, RenameOffsets
    <3>2. op' = op /\ op[p] \in OffsetOps /\ pc[p] # "idle"
      BY <2>5 DEF ReadOffsets, WriteOffsets, RenameOffsets, CallMatchesPc
    <3> QED BY <3>1, <3>2 DEF CallMatchesPc, TypeOK
  <2>6. ASSUME NEW p \in Procs, Return(p) \/ Crash(p) PROVE CallMatchesPc'
    BY <2>6 DEF Return, Crash, Clear, CallMatchesPc, TypeOK
  <2>7. CASE UNCHANGED <<pc, op>>
    BY <2>7 DEF CallMatchesPc
  <2>8. ASSUME NEW j \in Jobs, Age(j) PROVE UNCHANGED <<pc, op>>
    BY <2>8 DEF Age
  <2> QED
    BY <2>1, <2>2, <2>3, <2>4, <2>5, <2>6, <2>7, <2>8 DEF Next, Step, Damage, vars

\* Every variable of the store keeps its type, and every process is where its
\* call has code for it (the model of store.py).
THEOREM TypeCorrect == Spec => [](TypeOK /\ CallMatchesPc)
<1>1. Init => TypeOK /\ CallMatchesPc
  BY EmptyType, BoundsAssumption DEF Init, TypeOK, CallMatchesPc, NoOffsets, Labels
<1> QED BY <1>1, TypeStep, CallStep, PTL DEF Spec

----------------------------------------------------------------------------
(* Mutual exclusion, temporary files and lost updates *)

\* A process in the part of a mutation that touches the file holds the lock,
\* so no two processes are there.
LEMMA LockStep ==
    TypeOK /\ CallMatchesPc /\ MutatorHoldsLock /\ [Next]_vars => MutatorHoldsLock'
  <2> SUFFICES ASSUME TypeOK, CallMatchesPc, MutatorHoldsLock, [Next]_vars
               PROVE  MutatorHoldsLock'
    OBVIOUS
  <2> USE DEF Goto, procVars, Critical
  <2>1. ASSUME NEW p \in Procs, NEW o \in Ops, Call(p, o) PROVE MutatorHoldsLock'
    <3>1. o \in Mutators => EntryPoint(o) = "acquire"
      <4>1. o \in AllOps \cup {NoOp}
        BY OpsAssumption
      <4> QED BY <4>1, KindOfCall DEF EntryPoint, IsMutator
    <3>2. \A q \in Procs : q # p => op'[q] = op[q] /\ pc'[q] = pc[q]
      BY <2>1 DEF Call, TypeOK
    <3>3. op'[p] = o /\ pc'[p] = EntryPoint(o) /\ lock' = lock
      BY <2>1 DEF Call, TypeOK
    <3> QED BY <3>1, <3>2, <3>3 DEF MutatorHoldsLock
  <2>2. ASSUME NEW p \in Procs, Acquire(p) PROVE MutatorHoldsLock'
    BY <2>2, ProcsAssumption DEF Acquire, MutatorHoldsLock, TypeOK
  <2>3. ASSUME NEW p \in Procs, NEW l \in Labels,
               pc' = [pc EXCEPT ![p] = l], UNCHANGED <<lock, op>>,
               l \in Critical => pc[p] \in Critical
        PROVE  MutatorHoldsLock'
    BY <2>3 DEF MutatorHoldsLock, TypeOK
  <2>4. ASSUME NEW p \in Procs, Exists(p) \/ Open(p) \/ Recover(p) PROVE MutatorHoldsLock'
    <3>1. \E l \in Labels : pc' = [pc EXCEPT ![p] = l]
      BY <2>4, LoadedPc DEF Exists, Open, Recover, Labels
    <3>2. UNCHANGED <<lock, op>> /\ pc[p] \in Critical
      BY <2>4 DEF Exists, Open, Recover
    <3> QED BY <2>3, <3>1, <3>2
  <2>5. ASSUME NEW p \in Procs,
               AcquireFails(p) \/ Cleanup(p) \/ Mkstemp(p) \/ Dump(p) \/ Rename(p)
        PROVE  MutatorHoldsLock'
    <3>1. \E l \in Labels : pc' = [pc EXCEPT ![p] = l] /\ (l \in Critical => pc[p] \in Critical)
      BY <2>5 DEF AcquireFails, Cleanup, Mkstemp, Dump, Rename, Labels
    <3>2. UNCHANGED <<lock, op>>
      BY <2>5 DEF AcquireFails, Cleanup, Mkstemp, Dump, Rename
    <3> QED BY <2>3, <3>1, <3>2
  <2>6. ASSUME NEW p \in Procs, ReadOffsets(p) \/ WriteOffsets(p) \/ RenameOffsets(p)
        PROVE  MutatorHoldsLock'
    <3>1. \E l \in Labels : pc' = [pc EXCEPT ![p] = l] /\ l \notin Critical
      BY <2>6 DEF ReadOffsets, WriteOffsets, RenameOffsets, Labels
    <3>2. UNCHANGED <<lock, op>>
      BY <2>6 DEF ReadOffsets, WriteOffsets, RenameOffsets
    <3> QED BY <2>3, <3>1, <3>2
  <2>7. ASSUME NEW p \in Procs, Return(p) \/ Crash(p) PROVE MutatorHoldsLock'
    <3>1. pc' = [pc EXCEPT ![p] = "idle"] /\ op' = [op EXCEPT ![p] = NoOp]
      BY <2>7 DEF Return, Crash, Clear
    <3>2. \A q \in Procs : lock = q /\ q # p => lock' = q
      BY <2>7 DEF Return, Crash, Clear, Release
    <3> QED BY <3>1, <3>2 DEF MutatorHoldsLock, TypeOK
  <2>8. CASE UNCHANGED <<pc, op, lock>>
    BY <2>8 DEF MutatorHoldsLock
  <2>9. ASSUME NEW j \in Jobs, Age(j) PROVE UNCHANGED <<pc, op, lock>>
    BY <2>9 DEF Age
  <2> QED
    BY <2>1, <2>2, <2>4, <2>5, <2>6, <2>7, <2>8, <2>9 DEF Next, Step, Damage, vars

\* Two processes are never both in the part of a mutation that touches the file.
LEMMA Exclusive ==
    ASSUME TypeOK, CallMatchesPc, MutatorHoldsLock, NEW p \in Procs, NEW q \in Procs,
           pc[p] \in {"cleanup", "mkstemp", "dump", "rename"},
           pc[q] \in {"cleanup", "mkstemp", "dump", "rename"}
    PROVE  p = q
<1>1. op[p] \in Mutators /\ op[q] \in Mutators
  BY DEF CallMatchesPc
<1>2. pc[p] \in Critical /\ pc[q] \in Critical
  BY DEF Critical
<1> QED BY <1>1, <1>2 DEF MutatorHoldsLock

\* Temporary files of jobs.json: whose they are and how many.
LEMMA TempStep ==
    /\ TypeOK /\ CallMatchesPc /\ MutatorHoldsLock /\ TempsAccounted /\ [Next]_vars
    => TempsAccounted'
  <2> SUFFICES ASSUME TypeOK, CallMatchesPc, MutatorHoldsLock, TempsAccounted, [Next]_vars
               PROVE  TempsAccounted'
    OBVIOUS
  <2> USE DEF Goto, procVars, fileVars
  \* Most steps of p leave the temporary files alone and p outside Temporary.
  <2> DEFINE Quiet(l) == l \notin {"mkstemp", "dump", "rename", "renameOffsets"}
  <2>1. ASSUME NEW p \in Procs, NEW l \in Labels, Quiet(l), tmp[p] = "none",
               pc' = [pc EXCEPT ![p] = l], UNCHANGED <<tmp, debris>>
        PROVE  TempsAccounted'
    BY <2>1 DEF TempsAccounted, StoreTempSurvives, TypeOK
  <2>2. ASSUME NEW p \in Procs, NEW o \in Ops, Call(p, o) PROVE TempsAccounted'
    <3>1. EntryPoint(o) \in Labels /\ Quiet(EntryPoint(o))
      <4>1. o \in AllOps
        BY OpsAssumption
      <4>2. o.kind \in {"append", "update", "replace", "read", "offset"}
        BY <4>1 DEF AllOps, StoreOps, Mutators, AppendOps, UpdateOps, ReplaceOps,
                    OffsetOps, ReadOp
      <4> QED BY <4>2 DEF EntryPoint, IsMutator, Labels
    <3>2. tmp[p] = "none" /\ pc' = [pc EXCEPT ![p] = EntryPoint(o)] /\ UNCHANGED <<tmp, debris>>
      BY <2>2 DEF Call, TempsAccounted, TypeOK
    <3> QED BY <2>1, <3>1, <3>2
  <2>3. ASSUME NEW p \in Procs,
               Acquire(p) \/ AcquireFails(p) \/ Exists(p) \/ Open(p) \/ Recover(p) \/ ReadOffsets(p)
        PROVE  TempsAccounted'
    <3>1. \E l \in Labels : pc' = [pc EXCEPT ![p] = l] /\ Quiet(l)
      BY <2>3, LoadedPc DEF Acquire, AcquireFails, Exists, Open, Recover, ReadOffsets, Labels
    <3>2. pc[p] \notin {"dump", "rename", "renameOffsets"} /\ UNCHANGED <<tmp, debris>>
      BY <2>3 DEF Acquire, AcquireFails, Exists, Open, Recover, ReadOffsets
    <3>3. tmp[p] = "none"
      BY <3>2 DEF TempsAccounted, TypeOK
    <3> QED BY <2>1, <3>1, <3>2, <3>3
  <2>4. ASSUME NEW p \in Procs, Cleanup(p) PROVE TempsAccounted'
    <3>1. \A q \in Procs : pc[q] \in {"dump", "rename"} => q = p
      BY <2>4, Exclusive DEF Cleanup
    <3>2. /\ pc[p] = "cleanup" /\ pc' = [pc EXCEPT ![p] = "mkstemp"] /\ debris' = 0
          /\ \A q \in Procs : tmp'[q] = IF tmp[q] = "present" THEN "unlinked" ELSE tmp[q]
      BY <2>4 DEF Cleanup
    <3> QED BY <3>1, <3>2 DEF TempsAccounted, StoreTempSurvives, TypeOK
  <2>5. ASSUME NEW p \in Procs, Mkstemp(p) PROVE TempsAccounted'
    BY <2>5 DEF Mkstemp, TempsAccounted, StoreTempSurvives, TypeOK
  <2>6. ASSUME NEW p \in Procs, NEW l \in {"idle", "failed"}, Abandon(p),
               pc' = [pc EXCEPT ![p] = l]
        PROVE  TempsAccounted'
    <3>1. tmp' = [tmp EXCEPT ![p] = "none"]
      BY <2>6 DEF Abandon
    <3>2. CASE pc[p] \in {"dump", "rename"}
      <4>1. \A q \in Procs : pc[q] \in {"mkstemp", "dump", "rename"} => q = p
        BY <3>2, Exclusive
      <4>2. debris' \in {0, 1}
        BY <2>6, <3>2 DEF Abandon, TempsAccounted
      <4>3. \A q \in Procs : pc'[q] \notin {"mkstemp", "dump", "rename"}
        BY <2>6, <4>1 DEF TypeOK
      <4> QED BY <2>6, <3>1, <4>2, <4>3 DEF TempsAccounted, StoreTempSurvives, TypeOK
    <3>3. CASE pc[p] \notin {"dump", "rename"}
      <4>1. ~(tmp[p] = "present" /\ IsMutator(op[p]))
        <5>1. CASE pc[p] = "renameOffsets"
          BY <5>1, KindOfCall DEF CallMatchesPc, OffsetOps, IsMutator
        <5>2. CASE pc[p] # "renameOffsets"
          BY <3>3, <5>2 DEF TempsAccounted
        <5> QED BY <5>1, <5>2
      <4>2. debris' = debris
        BY <2>6, <4>1 DEF Abandon, TypeOK
      <4> QED BY <2>6, <3>1, <4>2 DEF TempsAccounted, StoreTempSurvives, TypeOK
    <3> QED BY <3>2, <3>3
  <2>7. ASSUME NEW p \in Procs, Dump(p) PROVE TempsAccounted'
    <3>1. CASE Goto(p, "rename") /\ UNCHANGED <<tmp, debris>>
      BY <2>7, <3>1 DEF Dump, TempsAccounted, StoreTempSurvives, TypeOK
    <3> QED BY <2>6, <2>7, <3>1 DEF Dump
  <2>8. ASSUME NEW p \in Procs, Rename(p) PROVE TempsAccounted'
    <3>1. CASE tmp' = [tmp EXCEPT ![p] = "none"] /\ Goto(p, "done") /\ UNCHANGED debris
      BY <2>8, <3>1 DEF Rename, TempsAccounted, StoreTempSurvives, TypeOK
    <3> QED BY <2>6, <2>8, <3>1 DEF Rename
  <2>9. ASSUME NEW p \in Procs, WriteOffsets(p) \/ RenameOffsets(p) PROVE TempsAccounted'
    BY <2>9 DEF WriteOffsets, RenameOffsets, TempsAccounted, StoreTempSurvives, TypeOK
  <2>10. ASSUME NEW p \in Procs, Return(p) PROVE TempsAccounted'
    <3>1. tmp[p] = "none"
      BY <2>10 DEF Return, TempsAccounted, TypeOK
    <3>2. pc' = [pc EXCEPT ![p] = "idle"] /\ UNCHANGED <<tmp, debris>>
      BY <2>10 DEF Return, Clear
    <3> QED BY <2>1, <3>1, <3>2 DEF Labels
  <2>11. ASSUME NEW p \in Procs, Crash(p) PROVE TempsAccounted'
    BY <2>6, <2>11 DEF Crash, Clear
  <2>12. CASE UNCHANGED <<tmp, debris, pc>>
    BY <2>12 DEF TempsAccounted, StoreTempSurvives
  <2>13. ASSUME NEW j \in Jobs, Age(j) PROVE UNCHANGED <<tmp, debris, pc>>
    BY <2>13 DEF Age
  <2> QED
    BY <2>2, <2>3, <2>4, <2>5, <2>7, <2>8, <2>9, <2>10, <2>11, <2>12, <2>13
       DEF Next, Step, Damage, vars

\* Only outside damage makes the file corrupt or starts a recovery.
LEMMA RecoveryStep ==
    TypeOK /\ CallMatchesPc /\ RecoveryHasCause /\ [Next]_vars => RecoveryHasCause'
  <2> SUFFICES ASSUME TypeOK, CallMatchesPc, RecoveryHasCause, [Next]_vars
               PROVE  RecoveryHasCause'
    OBVIOUS
  <2> USE DEF Goto, envVars, fileVars
  <2>1. ASSUME NEW p \in Procs, NEW l, l # "recover", pc' = [pc EXCEPT ![p] = l],
               live' # Corrupt \/ live' = live, UNCHANGED corruptions
        PROVE  RecoveryHasCause'
    BY <2>1 DEF RecoveryHasCause, TypeOK
  <2>2. ASSUME NEW p \in Procs, NEW o \in Ops, Call(p, o) PROVE RecoveryHasCause'
    <3>1. EntryPoint(o) # "recover"
      <4>1. o \in AllOps
        BY OpsAssumption
      <4>2. o.kind \in {"append", "update", "replace", "read", "offset"}
        BY <4>1 DEF AllOps, StoreOps, Mutators, AppendOps, UpdateOps, ReplaceOps,
                    OffsetOps, ReadOp
      <4> QED BY <4>2 DEF EntryPoint, IsMutator
    <3> QED BY <2>1, <2>2, <3>1 DEF Call
  <2>3. ASSUME NEW p \in Procs,
               Acquire(p) \/ AcquireFails(p) \/ Exists(p) \/ Cleanup(p) \/ Mkstemp(p)
                 \/ Dump(p) \/ ReadOffsets(p) \/ WriteOffsets(p) \/ RenameOffsets(p)
                 \/ Return(p)
        PROVE  RecoveryHasCause'
    <3>1. \E l \in Labels : pc' = [pc EXCEPT ![p] = l] /\ l # "recover"
      BY <2>3, LoadedPc DEF Acquire, AcquireFails, Exists, Cleanup, Mkstemp, Dump,
         ReadOffsets, WriteOffsets, RenameOffsets, Return, Clear, Labels
    <3>2. live' = live /\ UNCHANGED corruptions
      BY <2>3 DEF Acquire, AcquireFails, Exists, Cleanup, Mkstemp, Dump,
         ReadOffsets, WriteOffsets, RenameOffsets, Return
    <3> QED BY <2>1, <3>1, <3>2
  <2>4. ASSUME NEW p \in Procs, Open(p) PROVE RecoveryHasCause'
    <3>1. CASE live = Corrupt
      BY <2>4, <3>1 DEF Open, RecoveryHasCause
    <3>2. CASE live # Corrupt
      <4>1. \E l \in {"cleanup", "done"} : pc' = [pc EXCEPT ![p] = l]
        BY <2>4, <3>2, LoadedPc DEF Open
      <4> QED BY <2>1, <2>4, <4>1 DEF Open
    <3> QED BY <3>1, <3>2
  <2>5. ASSUME NEW p \in Procs, Recover(p) PROVE RecoveryHasCause'
    BY <2>5 DEF Recover, RecoveryHasCause
  <2>6. ASSUME NEW p \in Procs, Rename(p) PROVE RecoveryHasCause'
    <3>1. \E l \in {"done", "failed"} : pc' = [pc EXCEPT ![p] = l]
      BY <2>6 DEF Rename
    <3>2. (live' # Corrupt \/ live' = live) /\ UNCHANGED corruptions
      BY <2>6, FileAssumption DEF Rename, TypeOK
    <3> QED BY <2>1, <3>1, <3>2
  <2>7. ASSUME NEW p \in Procs, Crash(p) PROVE RecoveryHasCause'
    BY <2>1, <2>7 DEF Crash, Clear
  <2>8. ASSUME NEW j \in Jobs, Age(j) PROVE RecoveryHasCause'
    BY <2>8 DEF Age, RecoveryHasCause
  <2>9. CASE Damage
    BY <2>9 DEF Damage, RecoveryHasCause, TypeOK
  <2>10. CASE UNCHANGED vars
    BY <2>10 DEF vars, RecoveryHasCause
  <2> QED
    BY <2>2, <2>3, <2>4, <2>5, <2>6, <2>7, <2>8, <2>9, <2>10 DEF Next, Step

\* What a writer holds in memory stays its change applied to the file: the
\* file cannot change under it, because whoever would change it would hold
\* the lock as well.
LEMMA DataStep ==
    /\ TypeOK /\ CallMatchesPc /\ MutatorHoldsLock /\ RecoveryHasCause /\ NoLostUpdate
    /\ [Next]_vars
    => NoLostUpdate'
  <2> DEFINE Writing == {"cleanup", "mkstemp", "dump", "rename"}
  <2> SUFFICES ASSUME TypeOK, CallMatchesPc, MutatorHoldsLock, RecoveryHasCause,
                      NoLostUpdate, [Next]_vars, corruptions' = 0,
                      NEW q \in Procs, pc'[q] \in Writing
               PROVE  \E old \in SUBSET aged' : data'[q] = Apply(op'[q], Contents', old)
    BY DEF NoLostUpdate
  <2> USE DEF Goto
  <2>1. corruptions = 0
    BY DEF Next, Step, vars, envVars, Call, Acquire, AcquireFails, Exists, Open, Recover,
           Cleanup, Mkstemp, Dump, Rename, ReadOffsets, WriteOffsets, RenameOffsets,
           Return, Crash, Age, Damage, TypeOK
  <2>2. live # Corrupt /\ \A p \in Procs : pc[p] # "recover"
    BY <2>1 DEF RecoveryHasCause
  \* q was already writing, and nothing it depends on changed.
  <2>3. ASSUME pc[q] \in Writing, data'[q] = data[q], op'[q] = op[q], live' = live,
               aged \subseteq aged'
        PROVE  \E old \in SUBSET aged' : data'[q] = Apply(op'[q], Contents', old)
    <3>1. PICK old \in SUBSET aged : data[q] = Apply(op[q], Contents, old)
      BY <2>1, <2>3 DEF NoLostUpdate
    <3>2. Contents' = Contents
      BY <2>3 DEF Contents
    <3> QED BY <2>3, <3>1, <3>2
  \* Most steps are of this kind.
  <2>4. ASSUME NEW p \in Procs, NEW l \in Labels, pc' = [pc EXCEPT ![p] = l],
               l \in Writing => pc[p] \in Writing,
               p # q => data'[q] = data[q] /\ op'[q] = op[q],
               pc[p] \in Writing /\ l \in Writing => UNCHANGED <<data, op>>,
               live' = live, aged' = aged
        PROVE  \E old \in SUBSET aged' : data'[q] = Apply(op'[q], Contents', old)
    BY <2>3, <2>4 DEF TypeOK
  <2>5. ASSUME NEW p \in Procs, NEW o \in Ops, Call(p, o)
        PROVE  \E old \in SUBSET aged' : data'[q] = Apply(op'[q], Contents', old)
    <3>1. EntryPoint(o) \in {"acquire", "exists", "readOffsets"}
      <4>1. o \in AllOps
        BY OpsAssumption
      <4>2. o.kind \in {"append", "update", "replace", "read", "offset"}
        BY <4>1 DEF AllOps, StoreOps, Mutators, AppendOps, UpdateOps, ReplaceOps,
                    OffsetOps, ReadOp
      <4> QED BY <4>2 DEF EntryPoint, IsMutator
    <3>2. /\ pc' = [pc EXCEPT ![p] = EntryPoint(o)] /\ op' = [op EXCEPT ![p] = o]
          /\ UNCHANGED <<data, live, aged>>
      BY <2>5 DEF Call, fileVars
    <3> QED BY <2>4, <3>1, <3>2 DEF Labels, TypeOK
  <2>6. ASSUME NEW p \in Procs,
               Acquire(p) \/ AcquireFails(p) \/ Cleanup(p) \/ Mkstemp(p) \/ Dump(p)
                 \/ ReadOffsets(p) \/ WriteOffsets(p) \/ RenameOffsets(p)
        PROVE  \E old \in SUBSET aged' : data'[q] = Apply(op'[q], Contents', old)
    <3>1. \E l \in Labels : pc' = [pc EXCEPT ![p] = l] /\ (l \in Writing => pc[p] \in Writing)
      BY <2>6 DEF Acquire, AcquireFails, Cleanup, Mkstemp, Dump,
         ReadOffsets, WriteOffsets, RenameOffsets, Labels
    <3>2. UNCHANGED <<data, op, live, aged>>
      BY <2>6 DEF Acquire, AcquireFails, Cleanup, Mkstemp, Dump,
         ReadOffsets, WriteOffsets, RenameOffsets, fileVars, procVars, envVars
    <3> QED BY <2>4, <3>1, <3>2
  <2>7. ASSUME NEW p \in Procs, NEW c \in Content, Loaded(p, c), c = Contents,
               pc[p] \notin Writing, UNCHANGED <<live, op, aged>>
        PROVE  \E old \in SUBSET aged' : data'[q] = Apply(op'[q], Contents', old)
    <3>1. CASE p = q
      <4>1. data'[q] = Apply(op[q], c, aged)
        BY <2>7, <3>1 DEF Loaded, TypeOK
      <4>2. Contents' = Contents
        BY <2>7 DEF Contents
      <4> QED BY <2>7, <4>1, <4>2
    <3>2. CASE p # q
      <4>1. data'[q] = data[q] /\ pc'[q] = pc[q]
        BY <2>7, <3>2 DEF Loaded, TypeOK
      <4> QED BY <2>3, <2>7, <4>1
    <3> QED BY <3>1, <3>2
  <2>8. ASSUME NEW p \in Procs, Exists(p)
        PROVE  \E old \in SUBSET aged' : data'[q] = Apply(op'[q], Contents', old)
    <3>1. CASE live = Absent
      BY <2>7, <2>8, <3>1, EmptyType DEF Exists, Contents, fileVars, envVars
    <3>2. CASE live # Absent
      BY <2>4, <2>8, <3>2 DEF Exists, Labels, fileVars, envVars
    <3> QED BY <3>1, <3>2
  <2>9. ASSUME NEW p \in Procs, Open(p)
        PROVE  \E old \in SUBSET aged' : data'[q] = Apply(op'[q], Contents', old)
    <3>1. Loaded(p, Contents) /\ Contents \in Content
      BY <2>2, <2>9, EmptyType, FileAssumption DEF Open, Contents, TypeOK
    <3>2. pc[p] \notin Writing /\ UNCHANGED <<live, op, aged>>
      BY <2>9 DEF Open, fileVars, envVars
    <3> QED BY <2>7, <3>1, <3>2
  <2>10. ASSUME NEW p \in Procs, Recover(p) PROVE FALSE
    BY <2>2, <2>10 DEF Recover
  <2>11. ASSUME NEW p \in Procs, Rename(p)
        PROVE  \E old \in SUBSET aged' : data'[q] = Apply(op'[q], Contents', old)
    <3>1. pc'[p] \notin Writing
      BY <2>11 DEF Rename, TypeOK
    <3>2. p # q /\ pc[q] \in Writing
      BY <2>11, <3>1 DEF Rename, TypeOK
    <3> QED BY <2>11, <3>2, Exclusive DEF Rename
  <2>12. ASSUME NEW p \in Procs, Return(p) \/ Crash(p)
        PROVE  \E old \in SUBSET aged' : data'[q] = Apply(op'[q], Contents', old)
    <3>1. /\ pc' = [pc EXCEPT ![p] = "idle"] /\ UNCHANGED <<live, aged>>
          /\ p # q => data'[q] = data[q] /\ op'[q] = op[q]
      BY <2>12 DEF Return, Crash, Clear, fileVars, envVars, TypeOK
    <3> QED BY <2>4, <3>1 DEF Labels
  <2>13. ASSUME NEW j \in Jobs, Age(j)
        PROVE  \E old \in SUBSET aged' : data'[q] = Apply(op'[q], Contents', old)
    BY <2>3, <2>13 DEF Age, procVars, fileVars
  <2>14. CASE Damage
    BY <2>1, <2>14 DEF Damage
  <2>15. CASE UNCHANGED vars
    BY <2>3, <2>15 DEF vars
  <2> QED
    BY <2>5, <2>6, <2>8, <2>9, <2>10, <2>11, <2>12, <2>13, <2>14, <2>15 DEF Next, Step

\* Writers exclude each other, temporary files are accounted for, a recovery
\* has its cause outside, and no update is lost (store.py _acquire_lock,
\* _atomic_write, append_job, update_job_status, write_jobs).
THEOREM StoreSafe == Spec => []StoreInv
<1>1. Init => StoreInv
  BY FileAssumption, ProcsAssumption DEF Init, StoreInv, MutatorHoldsLock, TempsAccounted, StoreTempSurvives,
         RecoveryHasCause, NoLostUpdate, Critical
<1>2. TypeOK /\ CallMatchesPc /\ StoreInv /\ [Next]_vars => StoreInv'
  BY LockStep, TempStep, RecoveryStep, DataStep DEF StoreInv
<1> QED BY <1>1, <1>2, TypeCorrect, PTL DEF Spec

\* As long as nothing damages jobs.json, a mutator's write is its own change
\* applied to the contents it replaces: no concurrent call is lost.
THEOREM UpdatesAreNotLost == Spec => []NoLostUpdate
<1>1. StoreInv => NoLostUpdate
  BY DEF StoreInv
<1> QED BY <1>1, StoreSafe, PTL

\* No writer's temporary file is unlinked by another one's cleanup.
THEOREM StoreTempsSurvive == Spec => []StoreTempSurvives
<1>1. StoreInv => StoreTempSurvives
  BY DEF StoreInv, TempsAccounted
<1> QED BY <1>1, StoreSafe, PTL

\* At most one temporary file of jobs.json exists, in flight or abandoned.
THEOREM StoreTempsBounded == Spec => []AtMostOneStoreTemp
<1>1. TypeOK /\ CallMatchesPc /\ StoreInv => AtMostOneStoreTemp
  <2> SUFFICES ASSUME TypeOK, CallMatchesPc, StoreInv PROVE AtMostOneStoreTemp
    OBVIOUS
  <2>1. \A p \in StoreTemps : p \in Procs /\ pc[p] \in {"dump", "rename"}
    BY KindOfCall DEF StoreTemps, StoreInv, TempsAccounted, CallMatchesPc, TypeOK,
       OffsetOps, IsMutator
  <2>2. CASE StoreTemps = {}
    BY <2>2, FS_EmptySet DEF AtMostOneStoreTemp, StoreInv, TempsAccounted, TypeOK
  <2>3. CASE StoreTemps # {}
    <3>1. PICK p \in StoreTemps : TRUE
      BY <2>3
    <3>2. StoreTemps = {p}
      BY <2>1, <3>1, Exclusive DEF StoreInv
    <3>3. debris = 0
      BY <2>1, <3>1 DEF StoreInv, TempsAccounted
    <3> QED BY <3>2, <3>3, FS_Singleton DEF AtMostOneStoreTemp
  <2> QED BY <2>2, <2>3
<1> QED BY <1>1, StoreSafe, TypeCorrect, PTL

----------------------------------------------------------------------------
(* Why LockIsReleased holds, as far as it can be said without fairness: the
   holder is in the middle of a mutation, where no step waits for anything, and
   every step brings it nearer to the release. *)

\* Who holds the flock is inside _locked, and has all the steps of a mutation
\* before it at most: nobody keeps the lock while idle or while waiting for it.
HolderInside ==
    lock # None => /\ lock \in Procs /\ op[lock] \in Mutators
                   /\ pc[lock] \in Critical \cup {"done", "failed"}

\* The steps that a call has before it at most.
StepsLeft(p) ==
    CASE pc[p] = "idle" -> 0
      [] pc[p] \in {"done", "failed"} -> 1
      [] pc[p] \in {"rename", "renameOffsets"} -> 2
      [] pc[p] \in {"dump", "writeOffsets"} -> 3
      [] pc[p] \in {"mkstemp", "readOffsets"} -> 4
      [] pc[p] = "cleanup" -> 5
      [] pc[p] = "recover" -> 6
      [] pc[p] = "open" -> 7
      [] pc[p] = "exists" -> 8
      [] OTHER -> 9

\* A step of p, through whatever failures, leaves p nearer to its return, and
\* leaves the others where they are.
Nearer(p) ==
    /\ StepsLeft(p)' < StepsLeft(p)
    /\ \A q \in Procs \ {p} : pc'[q] = pc[q] /\ op'[q] = op[q]

\* Where each step of a call takes it.
LEMMA StepIsNearer ==
    ASSUME TypeOK, NEW p \in Procs, Step(p)
    PROVE  Nearer(p)
<1>0. pc \in [Procs -> Labels] /\ op \in [Procs -> AllOps \cup {NoOp}] BY DEF TypeOK
<1> USE DEF Goto, procVars, Nearer, StepsLeft
<1>1. CASE Acquire(p) \/ AcquireFails(p)
    BY <1>0, <1>1 DEF Acquire, AcquireFails
<1>2. CASE Exists(p) \/ Open(p) \/ Recover(p)
    <2>1. /\ pc[p] \in {"exists", "open", "recover"} /\ op' = op
          /\ \/ pc' = [pc EXCEPT ![p] = "cleanup"]
             \/ pc' = [pc EXCEPT ![p] = "done"]
             \/ pc' = [pc EXCEPT ![p] = "failed"]
             \/ pc[p] = "exists" /\ pc' = [pc EXCEPT ![p] = "open"]
             \/ pc[p] = "open" /\ pc' = [pc EXCEPT ![p] = "recover"]
        BY <1>2 DEF Exists, Open, Recover, Loaded
    <2> QED BY <1>0, <2>1
<1>3. CASE Cleanup(p) \/ Mkstemp(p)
    BY <1>0, <1>3 DEF Cleanup, Mkstemp
<1>4. CASE Dump(p) \/ Rename(p)
    BY <1>0, <1>4 DEF Dump, Rename
<1>5. CASE ReadOffsets(p) \/ WriteOffsets(p) \/ RenameOffsets(p)
    BY <1>0, <1>5 DEF ReadOffsets, WriteOffsets, RenameOffsets
<1>6. CASE Return(p)
    BY <1>0, <1>6 DEF Return, Clear
<1> QED BY <1>1, <1>2, <1>3, <1>4, <1>5, <1>6 DEF Step

\* The holder stays inside until it lets go.
LEMMA HolderStep ==
    TypeOK /\ CallMatchesPc /\ HolderInside /\ [Next]_vars => HolderInside'
<1> SUFFICES ASSUME TypeOK, CallMatchesPc, HolderInside, [Next]_vars PROVE HolderInside'
    OBVIOUS
<1>0. pc \in [Procs -> Labels] /\ op \in [Procs -> AllOps \cup {NoOp}] BY DEF TypeOK
<1> USE DEF Goto, procVars, Critical
<1>1. ASSUME NEW p \in Procs, NEW o \in Ops, Call(p, o) PROVE HolderInside'
    <2>1. /\ pc[p] = "idle" /\ lock' = lock
          /\ \A q \in Procs \ {p} : pc'[q] = pc[q] /\ op'[q] = op[q]
        BY <1>0, <1>1 DEF Call
    <2> QED BY <2>1 DEF HolderInside
<1>2. ASSUME NEW p \in Procs, Acquire(p) PROVE HolderInside'
    BY <1>0, <1>2 DEF Acquire, HolderInside, CallMatchesPc
<1>3. ASSUME NEW p \in Procs, UNCHANGED <<lock, op>>,
             \A q \in Procs \ {p} : pc'[q] = pc[q],
             pc[p] \in Critical => pc'[p] \in Critical \cup {"done", "failed"},
             pc[p] \notin {"done", "failed"}
      PROVE  HolderInside'
    BY <1>3 DEF HolderInside
<1>4. ASSUME NEW p \in Procs, Exists(p) \/ Open(p) \/ Recover(p) PROVE HolderInside'
    <2>1. /\ UNCHANGED <<lock, op>> /\ pc[p] \notin {"done", "failed"}
          /\ \E l \in Critical \cup {"done", "failed"} : pc' = [pc EXCEPT ![p] = l]
        BY <1>4 DEF Exists, Open, Recover, Loaded
    <2> QED BY <1>0, <1>3, <2>1
<1>5. ASSUME NEW p \in Procs,
             AcquireFails(p) \/ Cleanup(p) \/ Mkstemp(p) \/ Dump(p) \/ Rename(p)
      PROVE  HolderInside'
    <2>1. /\ UNCHANGED <<lock, op>> /\ pc[p] \notin {"done", "failed"}
          /\ \E l \in Critical \cup {"done", "failed"} : pc' = [pc EXCEPT ![p] = l]
        BY <1>5 DEF AcquireFails, Cleanup, Mkstemp, Dump, Rename
    <2> QED BY <1>0, <1>3, <2>1
<1>6. ASSUME NEW p \in Procs, ReadOffsets(p) \/ WriteOffsets(p) \/ RenameOffsets(p)
      PROVE  HolderInside'
    <2>1. /\ UNCHANGED <<lock, op>> /\ pc[p] \notin Critical \cup {"done", "failed"}
          /\ \A q \in Procs \ {p} : pc'[q] = pc[q]
        BY <1>0, <1>6 DEF ReadOffsets, WriteOffsets, RenameOffsets
    <2> QED BY <1>3, <2>1
<1>7. ASSUME NEW p \in Procs, Return(p) \/ Crash(p) PROVE HolderInside'
    <2>1. /\ lock' = IF lock = p THEN None ELSE lock
          /\ \A q \in Procs \ {p} : pc'[q] = pc[q] /\ op'[q] = op[q]
        BY <1>0, <1>7 DEF Return, Crash, Clear, Release
    <2> QED BY <2>1 DEF HolderInside
<1>8. CASE UNCHANGED <<pc, op, lock>> BY <1>8 DEF HolderInside
<1>9. ASSUME NEW j \in Jobs, Age(j) PROVE UNCHANGED <<pc, op, lock>> BY <1>9 DEF Age
<1> QED BY <1>1, <1>2, <1>4, <1>5, <1>6, <1>7, <1>8, <1>9 DEF Next, Step, Damage, vars

\* Nobody holds the lock outside a mutation: not idle, not while it waits for
\* the lock, not as a reader and not as the writer of an offset (_acquire_lock,
\* _release_lock).
THEOREM HoldersAreInside == Spec => []HolderInside
<1>1. Init => HolderInside BY DEF Init, HolderInside
<1> QED BY <1>1, HolderStep, TypeCorrect, PTL DEF Spec

\* Every step of a call brings it nearer to its return, nine steps at most, and
\* nothing that others do takes it back.  Of those steps Acquire alone waits for
\* another process, which by HolderInside does not wait in turn.
CallsAreShort ==
    [][\A p \in Procs :
          /\ StepsLeft(p) \in 0 .. 9
          /\ Step(p) => StepsLeft(p)' < StepsLeft(p)
          /\ pc[p] # "idle" => StepsLeft(p)' <= StepsLeft(p)]_vars

\* No call of the store runs for ever, for any number of processes, failures
\* and deaths.
THEOREM CallsAreAlwaysShort == Spec => CallsAreShort
<1>1. ASSUME TypeOK, [Next]_vars
      PROVE  \A p \in Procs :
                /\ StepsLeft(p) \in 0 .. 9
                /\ Step(p) => StepsLeft(p)' < StepsLeft(p)
                /\ pc[p] # "idle" => StepsLeft(p)' <= StepsLeft(p)
    <2> SUFFICES ASSUME NEW p \in Procs
                 PROVE  /\ StepsLeft(p) \in 0 .. 9
                        /\ Step(p) => StepsLeft(p)' < StepsLeft(p)
                        /\ pc[p] # "idle" => StepsLeft(p)' <= StepsLeft(p)
        OBVIOUS
    <2>0. StepsLeft(p) \in 0 .. 9 BY DEF StepsLeft
    <2>1. Step(p) => StepsLeft(p)' < StepsLeft(p) BY StepIsNearer, <1>1 DEF Nearer
    <2>2. pc'[p] = pc[p] => StepsLeft(p)' <= StepsLeft(p) BY <2>0 DEF StepsLeft
    <2>3. ASSUME NEW q \in Procs, Step(q) PROVE StepsLeft(p)' <= StepsLeft(p)
        <3>1. Nearer(q) BY <1>1, <2>3, StepIsNearer
        <3>2. StepsLeft(p) \in 0 .. 9 /\ StepsLeft(p)' \in 0 .. 9 BY DEF StepsLeft
        <3>3. q = p => Step(p) BY <2>3
        <3>4. q # p => pc'[p] = pc[p] BY <3>1 DEF Nearer
        <3> QED BY <2>1, <2>2, <3>2, <3>3, <3>4
    <2>4. ASSUME NEW q \in Procs, NEW o \in Ops, Call(q, o), pc[p] # "idle"
          PROVE  StepsLeft(p)' <= StepsLeft(p)
        <3>1. pc'[p] = pc[p] BY <1>1, <2>4 DEF TypeOK, Call, Goto
        <3> QED BY <2>2, <3>1
    <2>5. ASSUME NEW q \in Procs, Crash(q) PROVE StepsLeft(p)' <= StepsLeft(p)
        <3>1. pc'[p] = pc[p] \/ pc'[p] = "idle" BY <1>1, <2>5 DEF TypeOK, Crash, Clear, Goto
        <3>2. CASE pc'[p] = "idle"
            <4>1. StepsLeft(p)' = 0 BY <3>2 DEF StepsLeft
            <4> QED BY <2>0, <4>1
        <3> QED BY <2>2, <3>1, <3>2
    <2>6. ASSUME pc' = pc PROVE StepsLeft(p)' <= StepsLeft(p) BY <2>2, <2>6
    <2>7. ASSUME NEW j \in Jobs, Age(j) PROVE pc' = pc BY <2>7 DEF Age
    <2> QED
        BY <1>1, <2>0, <2>1, <2>3, <2>4, <2>5, <2>6, <2>7 DEF Next, Damage, vars
<1>2. TypeOK /\ [Next]_vars
      => [\A p \in Procs :
             /\ StepsLeft(p) \in 0 .. 9
             /\ Step(p) => StepsLeft(p)' < StepsLeft(p)
             /\ pc[p] # "idle" => StepsLeft(p)' <= StepsLeft(p)]_vars
    BY <1>1
<1> QED BY <1>2, TypeCorrect, PTL DEF Spec, CallsAreShort

----------------------------------------------------------------------------
(* The store implements the atomic store *)

\* AtomicJobStore computes with the same contents.
LEMMA SameData ==
    /\ Promise!NoOp = NoOp /\ Promise!ReadOp = ReadOp /\ Promise!Empty = Empty
    /\ \A o : Promise!IsMutator(o) = IsMutator(o)
    /\ \A o, c, old : Promise!Apply(o, c, old) = Apply(o, c, old)
<1>1. \A idem, old : Promise!PruneIdempotency(idem, old) = PruneIdempotency(idem, old)
  BY DEF PruneIdempotency, Promise!PruneIdempotency
<1>2. \A c, j, h, old : Promise!AppendJob(c, j, h, old) = AppendJob(c, j, h, old)
  BY <1>1 DEF AppendJob, Promise!AppendJob
<1>3. \A c, j, st : Promise!UpdateStatus(c, j, st) = UpdateStatus(c, j, st)
  BY DEF UpdateStatus, Promise!UpdateStatus
<1>4. \A o, c, old : Promise!Apply(o, c, old) = Apply(o, c, old)
  BY <1>2, <1>3 DEF Apply, Promise!Apply
<1> QED
  BY <1>4 DEF NoOp, Promise!NoOp, ReadOp, Promise!ReadOp, Empty, Promise!Empty,
              IsMutator, Promise!IsMutator

\* A step of p changes the abstract state of p alone.
LEMMA BarStep ==
    ASSUME NEW p \in Procs,
           \A q \in Procs \ {p} : op'[q] = op[q] /\ pc'[q] = pc[q] /\ data'[q] = data[q]
    PROVE  /\ OpBar' = [OpBar EXCEPT ![p] = StoreOp(p)']
           /\ PhaseBar' = [PhaseBar EXCEPT ![p] = StorePhase(p)']
           /\ SeenBar' = [SeenBar EXCEPT ![p] = StoreSeen(p)']
<1>1. \A q \in Procs \ {p} : /\ StoreOp(q)' = StoreOp(q)
                              /\ StorePhase(q)' = StorePhase(q)
                              /\ StoreSeen(q)' = StoreSeen(q)
  BY DEF StoreOp, StorePhase, StoreSeen
<1> QED BY <1>1 DEF OpBar, PhaseBar, SeenBar

\* The abstract state of p in the terms of its call and its place.
LEMMA BarValues ==
    ASSUME TypeOK, CallMatchesPc, NEW p \in Procs
    PROVE  /\ OpBar[p] = StoreOp(p) /\ PhaseBar[p] = StorePhase(p) /\ SeenBar[p] = StoreSeen(p)
           /\ op[p] \in OffsetOps \cup {NoOp} => StoreOp(p) = NoOp /\ StorePhase(p) = "idle"
           /\ op[p] \in StoreOps => /\ StoreOp(p) = op[p]
                                    /\ StorePhase(p) = IF pc[p] \in {"done", "failed"}
                                                         THEN pc[p] ELSE "called"
           /\ op[p] \in OffsetOps \cup {NoOp} => StoreSeen(p) = Empty
           /\ pc[p] # "done" => StoreSeen(p) = Empty
           /\ op[p] \in Mutators => StoreSeen(p) = Empty
<1>1. op[p] \in AllOps \cup {NoOp}
  BY DEF TypeOK
<1>2. op[p] \in StoreOps => op[p].kind \notin {"none", "offset"}
  BY <1>1, KindOfCall DEF StoreOps, IsMutator, ReadOp
<1>3. op[p] \in OffsetOps \cup {NoOp} => op[p].kind \in {"none", "offset"} /\ op[p] # ReadOp
  BY <1>1, KindOfCall DEF OffsetOps, NoOp, ReadOp
<1>4. op[p] \in Mutators => op[p] # ReadOp
  BY <1>1, KindOfCall DEF IsMutator, ReadOp
<1>5. op[p].kind = "none" => op[p] = NoOp
  BY <1>1, KindOfCall
<1> QED BY <1>2, <1>3, <1>4, <1>5 DEF OpBar, PhaseBar, SeenBar, StoreOp, StorePhase, StoreSeen

\* A step that changes the place of p but not what it stands for.
LEMMA MoveStutters ==
    ASSUME TypeOK, CallMatchesPc, TypeOK', CallMatchesPc', NEW p \in Procs,
           NEW l \in Labels \ {"idle", "done", "failed"},
           pc[p] \notin {"idle", "done", "failed"}, pc' = [pc EXCEPT ![p] = l], op' = op,
           \A q \in Procs \ {p} : data'[q] = data[q],
           Contents' = Contents, aged' = aged, UNCHANGED corruptions
    PROVE  UNCHANGED Promise!absvars
<1>1. \A q \in Procs \ {p} : op'[q] = op[q] /\ pc'[q] = pc[q] /\ data'[q] = data[q]
  BY DEF TypeOK
<1>2. pc'[p] = l
  BY DEF TypeOK
<1>3. StoreOp(p)' = StoreOp(p) /\ StorePhase(p)' = StorePhase(p)
  BY <1>2 DEF StoreOp, StorePhase
<1>4. StoreSeen(p)' = StoreSeen(p)
  BY <1>2 DEF StoreSeen
<1>5. OpBar' = OpBar /\ PhaseBar' = PhaseBar /\ SeenBar' = SeenBar
  BY <1>1, <1>3, <1>4, BarStep DEF OpBar, PhaseBar, SeenBar
<1> QED BY <1>5 DEF Promise!absvars

\* A call of log_offsets.json is not a step of the job store.
LEMMA OffsetsStutter ==
    ASSUME TypeOK, CallMatchesPc, TypeOK', CallMatchesPc', NEW p \in Procs,
           op[p] \in OffsetOps \cup {NoOp}, op'[p] \in OffsetOps \cup {NoOp},
           \A q \in Procs \ {p} : op'[q] = op[q] /\ pc'[q] = pc[q] /\ data'[q] = data[q],
           Contents' = Contents, aged' = aged, UNCHANGED corruptions
    PROVE  UNCHANGED Promise!absvars
<1>1. StoreOp(p) = NoOp /\ StorePhase(p) = "idle" /\ StoreSeen(p) = Empty
  BY BarValues
<1>2. op[p].kind \in {"none", "offset"} /\ op'[p].kind \in {"none", "offset"}
  BY DEF OffsetOps, NoOp
<1>3. op'[p] # ReadOp
  BY DEF OffsetOps, NoOp, ReadOp
<1>4. op'[p].kind = "none" => op'[p] = NoOp
  BY DEF OffsetOps, NoOp
<1>5. StoreOp(p)' = NoOp /\ StorePhase(p)' = "idle" /\ StoreSeen(p)' = Empty
  BY <1>2, <1>3, <1>4 DEF StoreOp, StorePhase, StoreSeen
<1>6. OpBar' = OpBar /\ PhaseBar' = PhaseBar /\ SeenBar' = SeenBar
  BY <1>1, <1>5, BarStep DEF OpBar, PhaseBar, SeenBar
<1> QED BY <1>6 DEF Promise!absvars

\* A mutator that gives up before its rename has had no effect.
LEMMA GivingUpFails ==
    ASSUME TypeOK, CallMatchesPc, TypeOK', CallMatchesPc', NEW p \in Procs,
           op[p] \in Mutators, pc[p] \notin {"idle", "done", "failed"},
           pc' = [pc EXCEPT ![p] = "failed"], op' = op,
           \A q \in Procs \ {p} : data'[q] = data[q],
           Contents' = Contents, aged' = aged
    PROVE  Promise!Fail(p)
<1>1. \A q \in Procs \ {p} : op'[q] = op[q] /\ pc'[q] = pc[q] /\ data'[q] = data[q]
  BY DEF TypeOK
<1>2. pc'[p] = "failed" /\ op[p] \in StoreOps
  BY DEF TypeOK, StoreOps
<1>3. PhaseBar[p] = "called" /\ OpBar[p] = op[p] /\ IsMutator(op[p])
  BY <1>2, BarValues, KindOfCall DEF TypeOK
<1>4. StorePhase(p)' = "failed"
  <2>1. op'[p].kind \notin {"none", "offset"}
    BY <1>3 DEF IsMutator
  <2> QED BY <1>2, <2>1 DEF StorePhase
<1>5. StoreOp(p)' = StoreOp(p)
  BY DEF StoreOp
<1>6. StoreSeen(p) = Empty /\ StoreSeen(p)' = Empty
  BY <1>2, BarValues DEF StoreSeen
<1>7. PhaseBar' = [PhaseBar EXCEPT ![p] = "failed"] /\ OpBar' = OpBar /\ SeenBar' = SeenBar
  BY <1>1, <1>4, <1>5, <1>6, BarStep, BarValues DEF OpBar, SeenBar
<1> QED BY <1>3, <1>7, SameData DEF Promise!Fail

\* A mutator takes effect when its contents replace the file, or, when it
\* finds nothing to write, as it reads.
LEMMA EffectCommits ==
    ASSUME TypeOK, CallMatchesPc, TypeOK', CallMatchesPc', NEW p \in Procs,
           op[p] \in Mutators, pc[p] \notin {"idle", "done", "failed"},
           pc' = [pc EXCEPT ![p] = "done"], op' = op,
           \A q \in Procs \ {p} : data'[q] = data[q],
           NEW old \in SUBSET aged, Contents' = Apply(op[p], Contents, old), aged' = aged
    PROVE  Promise!Commit(p)
<1>1. \A q \in Procs \ {p} : op'[q] = op[q] /\ pc'[q] = pc[q] /\ data'[q] = data[q]
  BY DEF TypeOK
<1>2. pc'[p] = "done" /\ op[p] \in StoreOps
  BY DEF TypeOK, StoreOps
<1>3. PhaseBar[p] = "called" /\ OpBar[p] = op[p] /\ IsMutator(op[p])
  BY <1>2, BarValues, KindOfCall DEF TypeOK
<1>4. StorePhase(p)' = "done"
  <2>1. op'[p].kind \notin {"none", "offset"}
    BY <1>3 DEF IsMutator
  <2> QED BY <1>2, <2>1 DEF StorePhase
<1>5. StoreOp(p)' = StoreOp(p)
  BY DEF StoreOp
<1>6. StoreSeen(p) = Empty /\ StoreSeen(p)' = Empty
  <2>1. op[p] # ReadOp
    BY <1>3 DEF IsMutator, ReadOp
  <2> QED BY <2>1 DEF StoreSeen
<1>7. PhaseBar' = [PhaseBar EXCEPT ![p] = "done"] /\ OpBar' = OpBar /\ SeenBar' = SeenBar
  BY <1>1, <1>4, <1>5, <1>6, BarStep, BarValues DEF OpBar, SeenBar
<1> QED BY <1>3, <1>7, SameData DEF Promise!Commit

\* A reader sees the contents of the instant it opens the file, or of the
\* instant it finds that there is none.
LEMMA ReadingObserves ==
    ASSUME TypeOK, CallMatchesPc, TypeOK', CallMatchesPc', NEW p \in Procs,
           op[p] = ReadOp, pc[p] \notin {"idle", "done", "failed"},
           pc' = [pc EXCEPT ![p] = "done"], op' = op,
           data' = [data EXCEPT ![p] = Contents],
           Contents' = Contents, aged' = aged
    PROVE  Promise!Observe(p)
<1>1. \A q \in Procs \ {p} : op'[q] = op[q] /\ pc'[q] = pc[q] /\ data'[q] = data[q]
  BY DEF TypeOK
<1>2. pc'[p] = "done" /\ data'[p] = Contents /\ op[p] \in StoreOps
  BY DEF TypeOK, StoreOps
<1>3. PhaseBar[p] = "called" /\ OpBar[p] = ReadOp
  BY <1>2, BarValues
<1>4. StorePhase(p)' = "done"
  BY <1>2 DEF StorePhase, ReadOp
<1>5. StoreOp(p)' = StoreOp(p) /\ StoreSeen(p)' = Contents
  BY <1>2 DEF StoreOp, StoreSeen
<1>6. PhaseBar' = [PhaseBar EXCEPT ![p] = "done"] /\ OpBar' = OpBar
        /\ SeenBar' = [SeenBar EXCEPT ![p] = Contents]
  BY <1>1, <1>4, <1>5, BarStep, BarValues DEF OpBar
<1> QED BY <1>3, <1>6, SameData DEF Promise!Observe

\* Returning and dying leave the contents as they are.
LEMMA ClearingLeaves ==
    ASSUME TypeOK, CallMatchesPc, TypeOK', CallMatchesPc', NEW p \in Procs,
           op[p] \in StoreOps, pc[p] # "idle", Clear(p),
           Contents' = Contents, aged' = aged
    PROVE  Promise!Leave(p)
<1>1. \A q \in Procs \ {p} : op'[q] = op[q] /\ pc'[q] = pc[q] /\ data'[q] = data[q]
  BY DEF Clear, Goto, TypeOK
<1>2. op'[p] = NoOp
  BY DEF Clear, TypeOK
<1>3. PhaseBar[p] # "idle"
  BY BarValues
<1>4. StoreOp(p)' = NoOp /\ StorePhase(p)' = "idle" /\ StoreSeen(p)' = Empty
  BY <1>2 DEF StoreOp, StorePhase, StoreSeen, NoOp, ReadOp
<1>5. /\ PhaseBar' = [PhaseBar EXCEPT ![p] = "idle"] /\ OpBar' = [OpBar EXCEPT ![p] = NoOp]
      /\ SeenBar' = [SeenBar EXCEPT ![p] = Empty]
  BY <1>1, <1>4, BarStep
<1> QED BY <1>3, <1>5, SameData DEF Promise!Leave

\* Reading, by a mutator or by a reader, while nothing has damaged the file.
LEMMA LoadedMaps ==
    ASSUME TypeOK, CallMatchesPc, TypeOK', CallMatchesPc', NEW p \in Procs,
           pc[p] \in {"exists", "open"}, Loaded(p, Contents), op' = op,
           live' = live, aged' = aged, UNCHANGED corruptions
    PROVE  Promise!Commit(p) \/ Promise!Observe(p) \/ UNCHANGED Promise!absvars
<1>1. Contents' = Contents /\ op[p] \in StoreOps
  BY DEF Contents, CallMatchesPc
<1>2. \A q \in Procs \ {p} : data'[q] = data[q]
  BY DEF Loaded, TypeOK
<1>3. CASE Writes(op[p], Contents)
  <2>1. pc' = [pc EXCEPT ![p] = "cleanup"]
    BY <1>3 DEF Loaded, Goto
  <2> QED BY <1>1, <1>2, <2>1, MoveStutters DEF Labels
<1>4. CASE ~Writes(op[p], Contents)
  <2>1. pc' = [pc EXCEPT ![p] = "done"] /\ data' = [data EXCEPT ![p] = Contents]
    BY <1>4 DEF Loaded, Goto
  <2>2. CASE op[p] = ReadOp
    BY <1>1, <2>1, <2>2, ReadingObserves
  <2>3. CASE op[p] # ReadOp
    <3>1. op[p] \in Mutators /\ IsMutator(op[p])
      BY <1>1, <2>3, KindOfCall DEF StoreOps, TypeOK
    <3>2. op[p].kind = "update" /\ Contents.jobs[op[p].job] = None
      BY <1>4, <3>1 DEF Writes
    <3>3. Contents' = Apply(op[p], Contents, {}) /\ {} \in SUBSET aged
      BY <1>1, <3>2 DEF Apply, UpdateStatus
    <3>4. pc[p] \notin {"idle", "done", "failed"}
      OBVIOUS
    <3>5. Promise!Commit(p)
      BY <1>2, <2>1, <3>1, <3>3, <3>4, EffectCommits
    <3> QED BY <3>5
  <2> QED BY <2>2, <2>3
<1> QED BY <1>3, <1>4

\* Every step of the store is a step of the atomic store or a stutter.
LEMMA StepImplements ==
    /\ TypeOK /\ CallMatchesPc /\ StoreInv /\ [Next]_vars
    /\ TypeOK' /\ CallMatchesPc'
    => [Promise!Next]_(Promise!absvars)
  <2> SUFFICES ASSUME TypeOK, CallMatchesPc, StoreInv, [Next]_vars, TypeOK', CallMatchesPc'
               PROVE  [Promise!Next]_(Promise!absvars)
    OBVIOUS
  <2> USE DEF Goto
  <2>1. CASE corruptions' > 0
    BY <2>1 DEF Promise!Next
  <2>2. CASE ~(corruptions' > 0)
    <3>1. corruptions = 0 /\ corruptions' = 0
      BY <2>2 DEF Next, Step, vars, envVars, Call, Acquire, AcquireFails, Exists, Open, Recover,
         Cleanup, Mkstemp, Dump, Rename, ReadOffsets, WriteOffsets, RenameOffsets,
         Return, Crash, Age, Damage, TypeOK
    <3>2. live # Corrupt /\ \A q \in Procs : pc[q] # "recover"
      BY <3>1 DEF StoreInv, RecoveryHasCause
    <3>3. UNCHANGED (corruptions > 0)
      BY <3>1
    <3>4. SUFFICES Promise!Promised \/ UNCHANGED Promise!absvars
      BY <3>3 DEF Promise!Next
    <3>5. ASSUME NEW p \in Procs, NEW o \in Ops, Call(p, o)
          PROVE  Promise!Promised \/ UNCHANGED Promise!absvars
      <4>1. op[p] = NoOp /\ op'[p] = o /\ pc'[p] = EntryPoint(o)
        BY <3>5 DEF Call, CallMatchesPc, TypeOK
      <4>2. \A q \in Procs \ {p} : op'[q] = op[q] /\ pc'[q] = pc[q] /\ data'[q] = data[q]
        BY <3>5 DEF Call, TypeOK
      <4>3. Contents' = Contents /\ aged' = aged /\ corruptions' = corruptions
        BY <3>5 DEF Call, Contents, fileVars
      <4>4. CASE o \in OffsetOps
        BY <4>1, <4>2, <4>3, <4>4, OffsetsStutter
      <4>5. CASE o \notin OffsetOps
        <5>1. o \in StoreOps /\ o.kind \notin {"none", "offset"}
          BY <4>5, OpsAssumption DEF AllOps, StoreOps, Mutators, AppendOps, UpdateOps,
             ReplaceOps, ReadOp
        <5>2. pc'[p] \in {"acquire", "exists"}
          BY <4>1, <5>1 DEF EntryPoint, IsMutator, StoreOps, Mutators, AppendOps, UpdateOps,
             ReplaceOps, ReadOp
        <5>3. StoreOp(p)' = o /\ StorePhase(p)' = "called" /\ StoreSeen(p)' = Empty
          BY <4>1, <5>1, <5>2 DEF StoreOp, StorePhase, StoreSeen
        <5>4. PhaseBar[p] = "idle" /\ SeenBar[p] = Empty
          BY <4>1, BarValues
        <5>5. /\ OpBar' = [OpBar EXCEPT ![p] = o]
              /\ PhaseBar' = [PhaseBar EXCEPT ![p] = "called"]
              /\ SeenBar' = SeenBar
          BY <4>2, <5>3, <5>4, BarStep DEF SeenBar
        <5>6. Promise!Call(p, o)
          BY <4>3, <5>4, <5>5 DEF Promise!Call
        <5> QED BY <4>5, <5>6 DEF Promise!Promised
      <4> QED BY <4>4, <4>5
    <3>6. ASSUME NEW p \in Procs, Acquire(p) \/ Cleanup(p)
          PROVE  UNCHANGED Promise!absvars
      <4>1. \E l \in {"exists", "mkstemp"} : pc' = [pc EXCEPT ![p] = l]
        BY <3>6 DEF Acquire, Cleanup
      <4>2. /\ pc[p] \notin {"idle", "done", "failed"} /\ op' = op /\ data' = data
            /\ Contents' = Contents /\ aged' = aged /\ corruptions' = corruptions
        BY <3>6 DEF Acquire, Cleanup, Contents, fileVars, procVars, envVars
      <4> QED BY <4>1, <4>2, MoveStutters DEF Labels
    <3>7. ASSUME NEW p \in Procs, AcquireFails(p) \/ Mkstemp(p) \/ Dump(p) \/ Rename(p)
          PROVE  Promise!Promised \/ UNCHANGED Promise!absvars
      <4>1. /\ pc[p] \notin {"idle", "done", "failed"} /\ op[p] \in Mutators /\ op' = op
            /\ data' = data /\ aged' = aged /\ corruptions' = corruptions
        BY <3>7 DEF AcquireFails, Mkstemp, Dump, Rename, CallMatchesPc, procVars, envVars
      <4>2. CASE live' = live /\ pc' = [pc EXCEPT ![p] = "failed"]
        <5>1. Promise!Fail(p)
          BY <4>1, <4>2, GivingUpFails DEF Contents
        <5> QED BY <5>1 DEF Promise!Promised
      <4>3. CASE live' = live /\ \E l \in {"dump", "rename"} : pc' = [pc EXCEPT ![p] = l]
        BY <4>1, <4>3, MoveStutters DEF Contents, Labels
      <4>4. CASE pc[p] = "rename" /\ live' = data[p] /\ pc' = [pc EXCEPT ![p] = "done"]
        <5>1. PICK old \in SUBSET aged : data[p] = Apply(op[p], Contents, old)
          BY <3>1, <4>4 DEF StoreInv, NoLostUpdate
        <5>2. Contents' = data[p]
          BY <4>4, FileAssumption DEF Contents, TypeOK
        <5>3. Promise!Commit(p)
          BY <4>1, <4>4, <5>1, <5>2, EffectCommits
        <5> QED BY <5>3 DEF Promise!Promised
      <4> QED BY <3>7, <4>2, <4>3, <4>4 DEF AcquireFails, Mkstemp, Dump, Rename, fileVars
    <3>8. ASSUME NEW p \in Procs, Exists(p) \/ Open(p)
          PROVE  Promise!Promised \/ UNCHANGED Promise!absvars
      <4>1. /\ pc[p] \in {"exists", "open"} /\ op' = op /\ live' = live
            /\ aged' = aged /\ corruptions' = corruptions
        BY <3>8 DEF Exists, Open, fileVars, envVars
      <4>2. \/ Loaded(p, Contents)
            \/ pc' = [pc EXCEPT ![p] = "open"] /\ data' = data
        BY <3>2, <3>8, FileAssumption DEF Exists, Open, Contents, TypeOK
      <4>3. CASE Loaded(p, Contents)
        BY <4>1, <4>3, LoadedMaps DEF Promise!Promised
      <4>4. CASE pc' = [pc EXCEPT ![p] = "open"] /\ data' = data
        BY <4>1, <4>4, MoveStutters DEF Contents, Labels
      <4> QED BY <4>2, <4>3, <4>4
    <3>9. ASSUME NEW p \in Procs, ReadOffsets(p) \/ WriteOffsets(p) \/ RenameOffsets(p)
          PROVE  UNCHANGED Promise!absvars
      <4>1. \E l \in Labels : pc' = [pc EXCEPT ![p] = l]
        BY <3>9 DEF ReadOffsets, WriteOffsets, RenameOffsets, Labels
      <4>2. /\ op[p] \in OffsetOps /\ op' = op /\ data' = data /\ Contents' = Contents
            /\ aged' = aged /\ corruptions' = corruptions
        BY <3>9 DEF ReadOffsets, WriteOffsets, RenameOffsets, CallMatchesPc, Contents,
           fileVars, procVars, envVars
      <4>3. \A q \in Procs \ {p} : op'[q] = op[q] /\ pc'[q] = pc[q] /\ data'[q] = data[q]
        BY <4>1, <4>2 DEF TypeOK
      <4> QED BY <4>2, <4>3, OffsetsStutter
    <3>10. ASSUME NEW p \in Procs, Return(p) \/ Crash(p)
           PROVE  Promise!Promised \/ UNCHANGED Promise!absvars
      <4>1. /\ Clear(p) /\ pc[p] # "idle" /\ Contents' = Contents
            /\ aged' = aged /\ corruptions' = corruptions
        BY <3>10 DEF Return, Crash, Contents, fileVars, envVars
      <4>2. op[p] \in StoreOps \/ op[p] \in OffsetOps
        BY <4>1 DEF CallMatchesPc, TypeOK, AllOps
      <4>3. CASE op[p] \in StoreOps
        BY <4>1, <4>3, ClearingLeaves DEF Promise!Promised
      <4>4. CASE op[p] \in OffsetOps
        <5>1. op'[p] = NoOp
          BY <4>1 DEF Clear, TypeOK
        <5>2. \A q \in Procs \ {p} : op'[q] = op[q] /\ pc'[q] = pc[q] /\ data'[q] = data[q]
          BY <4>1 DEF Clear, TypeOK
        <5> QED BY <4>1, <4>4, <5>1, <5>2, OffsetsStutter
      <4> QED BY <4>2, <4>3, <4>4
    <3>11. ASSUME NEW j \in Jobs, Age(j) PROVE Promise!Promised
      <4>1. aged' = aged \cup {j} /\ UNCHANGED <<pc, op, data, live>>
        BY <3>11 DEF Age, procVars, fileVars
      <4>2. UNCHANGED <<Contents, OpBar, PhaseBar, SeenBar>>
        BY <4>1 DEF Contents, OpBar, PhaseBar, SeenBar, StoreOp, StorePhase, StoreSeen
      <4>3. Promise!Age(j)
        BY <4>1, <4>2 DEF Promise!Age
      <4> QED BY <4>3 DEF Promise!Promised
    <3>12. CASE UNCHANGED vars
      BY <3>12 DEF vars, Promise!absvars, Contents, OpBar, PhaseBar, SeenBar,
         StoreOp, StorePhase, StoreSeen
    <3>13. ASSUME NEW p \in Procs, Recover(p) PROVE FALSE
      BY <3>2, <3>13 DEF Recover
    <3>14. CASE Damage
      BY <3>1, <3>14 DEF Damage
    <3> QED
      BY <3>5, <3>6, <3>7, <3>8, <3>9, <3>10, <3>11, <3>12, <3>13, <3>14 DEF Next, Step
  <2> QED BY <2>1, <2>2

\* The job store implements the atomic job store: whatever its processes,
\* crashes and failures, and until something else damages jobs.json, every
\* call is atomic, readers without a lock included (all of class JobStore).
THEOREM StoreIsAtomic == Spec => ImplementsAtomicStore
<1>1. Init => Promise!Init
  BY SameData DEF Init, Promise!Init, Contents, OpBar, PhaseBar, SeenBar, StoreOp, StorePhase,
     StoreSeen, NoOp, ReadOp
<1>2. Spec => [](TypeOK /\ CallMatchesPc /\ StoreInv)
  BY TypeCorrect, StoreSafe, PTL
<1> QED
  BY <1>1, <1>2, StepImplements, PTL DEF Spec, ImplementsAtomicStore, Promise!Spec
============================================================================
