-------------------------- MODULE ExecutionProofs --------------------------
(***************************************************************************)
(* Proofs about Execution, for any calls, jobs, bundles and chunk sizes.    *)
(***************************************************************************)
EXTENDS Execution, TLAPS

Submitting == pc \in {"sync", "sbatch", "reply", "track"}
Getting == op.kind \in {"get", "getAll"}

\* Where the script is, and what the operation holds there.
Placed ==
    /\ \A i \in DOMAIN with : inner[with[i]] \in Dispatchers
    /\ pc = "user" => rest = {} /\ chunk = {} /\ left = {}
    /\ pc = "next" => op.kind \in {"flush", "join"} /\ chunk = {}
    /\ Submitting => op.kind \in {"distribute", "remote", "batch", "flush", "join"} /\ chunk # {}
    /\ Flushing => op.who \in Bundles /\ left \subseteq Jobs
    /\ pc \in {"reply", "track"} => job \in Jobs
    /\ pc \in {"join", "wait"} => op.kind = "join" /\ op.who \in Dispatchers /\ left \subseteq Jobs
    /\ pc = "wait" => job \in left
    /\ pc \in {"get", "watch", "fetch"} <=> Getting
    /\ Getting => left \subseteq Tasks /\ \A t \in left : ref[t] \in Jobs
    /\ pc \in {"watch", "fetch"} => job \in left

Types == TypeOK /\ Placed

\* Every step keeps the types and the agreement of place and operation.
LEMMA TypesKept ==
    ASSUME Types, [Next]_vars
    PROVE  Types'
<1> USE DEF Types, TypeOK, Placed, Flushing, Submitting, Getting, Dispatchers, Phases, Terminal,
            Ops, NoOp, scriptVars, opVars, fileVars, driverVars, clusterVars, noteVars
<1>1. ASSUME NEW t \in Tasks, Buffer(t) PROVE Types'
  BY <1>1 DEF Buffer
<1>2. ASSUME NEW t \in Tasks, Distribute(t) PROVE Types'
  BY <1>2 DEF Distribute, Call, Enter, Goto
<1>3. ASSUME NEW t \in Tasks, Remote(t) PROVE Types'
  BY <1>3 DEF Remote, Call, Enter, Goto
<1>4. ASSUME NEW t \in Tasks, Cancel(t) PROVE Types'
  BY <1>4 DEF Cancel, Scancel
<1>5. ASSUME NEW ts \in SUBSET Tasks, RemoteBatch(ts) PROVE Types'
  BY <1>5 DEF RemoteBatch, Call, Enter, Goto
<1>6. CASE Sync
  BY <1>6 DEF Sync, Goto
<1>7. CASE Sbatch
  BY <1>7 DEF Sbatch, Goto
<1>8. CASE Reply
  BY <1>8 DEF Reply, Goto
<1>9. CASE TrackCall
  BY <1>9 DEF TrackCall, Leave, Goto
<1>10. CASE TrackBatch
  BY <1>10 DEF TrackBatch, Leave, Goto
<1>11. CASE TrackChunk
  BY <1>11 DEF TrackChunk, Goto
<1>12. ASSUME NEW b \in Bundles, EnterBundle(b) PROVE Types'
  BY <1>12 DEF EnterBundle
<1>13. ASSUME NEW b \in Bundles, ExitBundle(b) PROVE Types'
  BY <1>13 DEF ExitBundle, Enter, Goto
<1>14. ASSUME NEW b \in Bundles, ExitRaising(b) PROVE Types'
  BY <1>14 DEF ExitRaising
<1>15. ASSUME NEW b \in Bundles, Flush(b) PROVE Types'
  BY <1>15 DEF Flush, Enter, Goto
<1>16. CASE NextChunk
  BY <1>16 DEF NextChunk, IsChunk, Goto
<1>17. CASE FlushEnds
  BY <1>17 DEF FlushEnds, Leave, Goto
<1>18. ASSUME NEW d \in Dispatchers, NEW global \in BOOLEAN, Join(d, global) PROVE Types'
  BY <1>18 DEF Join, Enter, Goto
<1>19. ASSUME NEW j \in Jobs, JoinPasses(j) PROVE Types'
  BY <1>19 DEF JoinPasses
<1>20. ASSUME NEW j \in Jobs, JoinWaits(j) PROVE Types'
  BY <1>20 DEF JoinWaits, Goto
<1>21. CASE JoinWaited
  BY <1>21 DEF JoinWaited, Goto
<1>22. CASE JoinReturns
  BY <1>22 DEF JoinReturns, Leave, Goto
<1>23. ASSUME NEW kind \in {"get", "getAll"}, NEW ts \in SUBSET Tasks, Get(kind, ts) PROVE Types'
  BY <1>23 DEF Get, Enter, Goto
<1>24. ASSUME NEW t \in Tasks, GetCached(t) PROVE Types'
  BY <1>24 DEF GetCached
<1>25. ASSUME NEW t \in Tasks, GetWaits(t) PROVE Types'
  BY <1>25 DEF GetWaits, Goto
<1>26. CASE GetFetches
  BY <1>26 DEF GetFetches, Goto
<1>27. CASE Fetch
  BY <1>27 DEF Fetch, Leave, Fetched, Goto
<1>28. CASE GetReturns
  BY <1>28 DEF GetReturns, Leave, Goto
<1>29. CASE Fails
  BY <1>29 DEF Fails, Leave, Flushing, Goto
<1>30. CASE InterruptFlush
  BY <1>30 DEF InterruptFlush, Leave, Scancel, Elements, Flushing, Goto
<1>31. CASE InterruptJoin
  BY <1>31 DEF InterruptJoin, Leave, Scancel, Elements, Goto
<1>32. CASE InterruptGet
  BY <1>32 DEF InterruptGet, Leave, Scancel, Goto
<1>33. ASSUME NEW j \in Jobs, NEW t \in Tasks, Start(j, t) PROVE Types'
  BY <1>33 DEF Start, Set
<1>34. ASSUME NEW j \in Jobs, NEW t \in Tasks, Run(j, t) PROVE Types'
  BY <1>34 DEF Run, Set
<1>35. ASSUME NEW j \in Jobs, NEW t \in Tasks, Save(j, t) PROVE Types'
  BY <1>35 DEF Save, Set
<1>36. ASSUME NEW j \in Jobs, NEW t \in Tasks, Saved(j, t) PROVE Types'
  BY <1>36 DEF Saved, Set
<1>37. ASSUME NEW j \in Jobs, NEW t \in Tasks, Kill(j, t) PROVE Types'
  <2>1. ASSUME NEW phase \in Phases, Set(j, t, phase) PROVE real' \in [Jobs -> [Tasks -> Phases \cup {None}]]
    BY <2>1 DEF Set
  <2>2. real' \in [Jobs -> [Tasks -> Phases \cup {None}]]
    BY <1>37, <2>1 DEF Kill
  <2> QED  BY <1>37, <2>2 DEF Kill
<1>38. CASE OthersSync
  BY <1>38 DEF OthersSync
<1>39. CASE UNCHANGED vars
  BY <1>39 DEF vars
<1> HIDE DEF Types
<1> QED
      BY <1>1, <1>2, <1>3, <1>4, <1>5, <1>6, <1>7, <1>8, <1>9, <1>10, <1>11, <1>12, <1>13,
       <1>14, <1>15, <1>16, <1>17, <1>18, <1>19, <1>20, <1>21, <1>22, <1>23, <1>24, <1>25,
       <1>26, <1>27, <1>28, <1>29, <1>30, <1>31, <1>32, <1>33, <1>34, <1>35, <1>36, <1>37,
       <1>38, <1>39
    DEF Next, Calling, Submits, Bundling, Joins, Gets, Interrupt, Workers

\* Nothing is called, submitted or written at the start.
LEMMA TypesInitially == Init => Types
  BY NamesAssumption
  DEF Init, Types, TypeOK, Placed, Flushing, Submitting, Getting, Dispatchers, Ops, NoOp, Phases

\* A worker or SLURM moves a call on that has not ended.
Works(j, t) ==
    /\ real[j][t] \in {"PENDING", "RUNNING", "SAVING"}
    /\ \E phase \in Phases \ {"PENDING"} : Set(j, t, phase)

\* The states of calls change through sbatch and the workers only.
LEMMA RealSteps ==
    ASSUME [Next]_vars
    PROVE  UNCHANGED real \/ Sbatch \/ \E j \in Jobs, t \in Tasks : Works(j, t)
<1> DEFINE Moves == UNCHANGED real \/ Sbatch \/ \E i \in Jobs, u \in Tasks : Works(i, u)
<1> USE DEF scriptVars, opVars, fileVars, driverVars, clusterVars, noteVars
<1>1. ASSUME NEW t \in Tasks, Buffer(t) PROVE Moves
  BY <1>1 DEF Buffer
<1>2. ASSUME NEW t \in Tasks, Distribute(t) PROVE Moves
  BY <1>2 DEF Distribute, Call, Enter, Goto
<1>3. ASSUME NEW t \in Tasks, Remote(t) PROVE Moves
  BY <1>3 DEF Remote, Call, Enter, Goto
<1>4. ASSUME NEW t \in Tasks, Cancel(t) PROVE Moves
  BY <1>4 DEF Cancel, Scancel
<1>5. ASSUME NEW ts \in SUBSET Tasks, RemoteBatch(ts) PROVE Moves
  BY <1>5 DEF RemoteBatch, Call, Enter, Goto
<1>6. CASE Sync
  BY <1>6 DEF Sync, Goto
<1>7. CASE Sbatch
  BY <1>7 DEF Sbatch, Goto
<1>8. CASE Reply
  BY <1>8 DEF Reply, Goto
<1>9. CASE TrackCall
  BY <1>9 DEF TrackCall, Leave, Goto
<1>10. CASE TrackBatch
  BY <1>10 DEF TrackBatch, Leave, Goto
<1>11. CASE TrackChunk
  BY <1>11 DEF TrackChunk, Goto
<1>12. ASSUME NEW b \in Bundles, EnterBundle(b) PROVE Moves
  BY <1>12 DEF EnterBundle
<1>13. ASSUME NEW b \in Bundles, ExitBundle(b) PROVE Moves
  BY <1>13 DEF ExitBundle, Enter, Goto
<1>14. ASSUME NEW b \in Bundles, ExitRaising(b) PROVE Moves
  BY <1>14 DEF ExitRaising
<1>15. ASSUME NEW b \in Bundles, Flush(b) PROVE Moves
  BY <1>15 DEF Flush, Enter, Goto
<1>16. CASE NextChunk
  BY <1>16 DEF NextChunk, IsChunk, Goto
<1>17. CASE FlushEnds
  BY <1>17 DEF FlushEnds, Leave, Goto
<1>18. ASSUME NEW d \in Dispatchers, NEW global \in BOOLEAN, Join(d, global) PROVE Moves
  BY <1>18 DEF Join, Enter, Goto
<1>19. ASSUME NEW j \in Jobs, JoinPasses(j) PROVE Moves
  BY <1>19 DEF JoinPasses
<1>20. ASSUME NEW j \in Jobs, JoinWaits(j) PROVE Moves
  BY <1>20 DEF JoinWaits, Goto
<1>21. CASE JoinWaited
  BY <1>21 DEF JoinWaited, Goto
<1>22. CASE JoinReturns
  BY <1>22 DEF JoinReturns, Leave, Goto
<1>23. ASSUME NEW kind \in {"get", "getAll"}, NEW ts \in SUBSET Tasks, Get(kind, ts) PROVE Moves
  BY <1>23 DEF Get, Enter, Goto
<1>24. ASSUME NEW t \in Tasks, GetCached(t) PROVE Moves
  BY <1>24 DEF GetCached
<1>25. ASSUME NEW t \in Tasks, GetWaits(t) PROVE Moves
  BY <1>25 DEF GetWaits, Goto
<1>26. CASE GetFetches
  BY <1>26 DEF GetFetches, Goto
<1>27. CASE Fetch
  BY <1>27 DEF Fetch, Leave, Fetched, Goto
<1>28. CASE GetReturns
  BY <1>28 DEF GetReturns, Leave, Goto
<1>29. CASE Fails
  BY <1>29 DEF Fails, Leave, Flushing, Goto
<1>30. CASE InterruptFlush
  BY <1>30 DEF InterruptFlush, Leave, Scancel, Elements, Flushing, Goto
<1>31. CASE InterruptJoin
  BY <1>31 DEF InterruptJoin, Leave, Scancel, Elements, Goto
<1>32. CASE InterruptGet
  BY <1>32 DEF InterruptGet, Leave, Scancel, Goto
<1>33. ASSUME NEW j \in Jobs, NEW t \in Tasks, Start(j, t) PROVE Moves
  BY <1>33 DEF Start, Set, Works, Phases, Terminal
<1>34. ASSUME NEW j \in Jobs, NEW t \in Tasks, Run(j, t) PROVE Moves
  BY <1>34 DEF Run, Set, Works, Phases, Terminal
<1>35. ASSUME NEW j \in Jobs, NEW t \in Tasks, Save(j, t) PROVE Moves
  BY <1>35 DEF Save, Set, Works, Phases, Terminal
<1>36. ASSUME NEW j \in Jobs, NEW t \in Tasks, Saved(j, t) PROVE Moves
  BY <1>36 DEF Saved, Set, Works, Phases, Terminal
<1>37. ASSUME NEW j \in Jobs, NEW t \in Tasks, Kill(j, t) PROVE Moves
  BY <1>37 DEF Kill, Set, Works, Phases, Terminal
<1>38. CASE OthersSync
  BY <1>38 DEF OthersSync
<1>39. CASE UNCHANGED vars
  BY <1>39 DEF vars
<1> HIDE DEF scriptVars, opVars, fileVars, driverVars, clusterVars, noteVars
<1> QED
      BY <1>1, <1>2, <1>3, <1>4, <1>5, <1>6, <1>7, <1>8, <1>9, <1>10, <1>11, <1>12, <1>13,
       <1>14, <1>15, <1>16, <1>17, <1>18, <1>19, <1>20, <1>21, <1>22, <1>23, <1>24, <1>25,
       <1>26, <1>27, <1>28, <1>29, <1>30, <1>31, <1>32, <1>33, <1>34, <1>35, <1>36, <1>37,
       <1>38, <1>39
    DEF Next, Calling, Submits, Bundling, Joins, Gets, Interrupt, Workers

Working(j, t) == Start(j, t) \/ Run(j, t) \/ Save(j, t) \/ Saved(j, t) \/ Kill(j, t)

\* A step of a worker changes the state and the file of its own call only.
LEMMA WorkersWork ==
    ASSUME NEW j \in Jobs, NEW t \in Tasks, Working(j, t)
    PROVE  /\ Works(j, t)
           /\ UNCHANGED <<scriptVars, opVars, collect, payloads, remote, removed, robbed,
                          driverVars, noteVars, scancelled>>
<1> USE DEF Works, Phases, Terminal, fileVars
<1>1. CASE Start(j, t)
  <2>1. CASE t \in remote  BY <1>1, <2>1 DEF Start
  <2>2. CASE t \notin remote  BY <1>1, <2>2 DEF Start
  <2> QED  BY <2>1, <2>2
<1>2. CASE Run(j, t)  BY <1>2 DEF Run, Set
<1>3. CASE Save(j, t)  BY <1>3 DEF Save
<1>4. CASE Saved(j, t)  BY <1>4 DEF Saved, Set
<1>5. CASE Kill(j, t)  BY <1>5 DEF Kill, Set
<1> QED  BY <1>1, <1>2, <1>3, <1>4, <1>5 DEF Working

\* What has been submitted keeps its calls, and what has ended stays so.
LEMMA LaterSteps ==
    ASSUME Types, [Next]_vars, NEW j \in Submitted
    PROVE  /\ Calls(j)' = Calls(j) /\ j \in Submitted'
           /\ Ended(j) => Ended(j)'
           /\ \A t \in Tasks : real[j][t] = "COMPLETED" => real'[j][t] = "COMPLETED"
<1> USE DEF Submitted, Calls, Ended
<1>1. CASE UNCHANGED real
  BY <1>1
<1>2. CASE Sbatch
  BY <1>2 DEF Sbatch, Types, TypeOK
<1>3. ASSUME NEW i \in Jobs, NEW u \in Tasks, Works(i, u)
      PROVE  /\ Calls(j)' = Calls(j) /\ j \in Submitted'
             /\ Ended(j) => Ended(j)'
             /\ \A t \in Tasks : real[j][t] = "COMPLETED" => real'[j][t] = "COMPLETED"
  BY <1>3, NoneAssumption DEF Works, Set, Types, TypeOK, Phases, Terminal
<1> QED  BY <1>1, <1>2, <1>3, RealSteps

----------------------------------------------------------------------------
(* No call is in two jobs *)

Unsubmitted(t) == \A j \in Jobs : real[j][t] = None

\* Every call is in one place: still to be made, in a buffer or in hand, or in
\* its job.  While a bundle is flushed its buffer keeps what has gone.
Once ==
    /\ \A t \in Tasks : t \notin called => Unsubmitted(t)
    /\ Submitting => chunk \subseteq called
    /\ \A b \in Bundles : buffer[b] \subseteq called
    /\ \A b, c \in Bundles : b # c => buffer[b] \cap buffer[c] = {}
    /\ \A b \in Bundles : ~(Flushing /\ op.who = b) => \A t \in buffer[b] : Unsubmitted(t)
    /\ Flushing => /\ rest \subseteq buffer[op.who]
                   /\ chunk \subseteq buffer[op.who] \ rest
                   /\ \A t \in rest : Unsubmitted(t)
    /\ Submitting /\ ~Flushing => \A b \in Bundles : chunk \cap buffer[b] = {}
    /\ pc \in {"sync", "sbatch"} => \A t \in chunk : Unsubmitted(t)
    /\ SubmittedOnce

\* Workers neither add calls to jobs nor take them out.
LEMMA WorkersKeepOnce ==
    ASSUME Types, Once, NEW j \in Jobs, NEW t \in Tasks, Working(j, t)
    PROVE  Once'
<1>1. \A i \in Jobs, u \in Tasks : real[i][u] = None <=> real'[i][u] = None
  <2>1. PICK phase \in Phases : Set(j, t, phase) /\ real[j][t] \in Phases
    BY WorkersWork DEF Works, Phases
  <2> QED  BY <2>1, NoneAssumption DEF Set, Types, TypeOK
<1>2. \A u \in Tasks : Unsubmitted(u) <=> Unsubmitted(u)'
  BY <1>1 DEF Unsubmitted
<1>3. SubmittedOnce'
  BY <1>1 DEF Once, SubmittedOnce
<1>4. UNCHANGED <<called, buffer, pc, op, rest, chunk>>
  BY WorkersWork DEF scriptVars, opVars
<1> QED  BY <1>2, <1>3, <1>4 DEF Once, Types, TypeOK, Placed, Submitting, Flushing, Dispatchers

\* Every step keeps each call in one place.
LEMMA OnceKept ==
    ASSUME Types, Types', Once, [Next]_vars
    PROVE  Once'
<1> USE DEF Once, Types, TypeOK, Placed, Submitting, Flushing, Unsubmitted, SubmittedOnce, Dispatchers,
            scriptVars, opVars, fileVars, driverVars, clusterVars, noteVars
<1>1. ASSUME NEW t \in Tasks, Buffer(t) PROVE Once'
  BY <1>1 DEF Buffer
<1>2. ASSUME NEW t \in Tasks, Distribute(t) PROVE Once'
  BY <1>2 DEF Distribute, Call, Enter, Goto
<1>3. ASSUME NEW t \in Tasks, Remote(t) PROVE Once'
  BY <1>3 DEF Remote, Call, Enter, Goto
<1>4. ASSUME NEW t \in Tasks, Cancel(t) PROVE Once'
  BY <1>4 DEF Cancel, Scancel
<1>5. ASSUME NEW ts \in SUBSET Tasks, RemoteBatch(ts) PROVE Once'
  BY <1>5 DEF RemoteBatch, Call, Enter, Goto
<1>6. CASE Sync
  BY <1>6 DEF Sync, Goto
<1>7. CASE Sbatch
  BY <1>7 DEF Sbatch, Goto
<1>8. CASE Reply
  BY <1>8 DEF Reply, Goto
<1>9. CASE TrackCall
  BY <1>9 DEF TrackCall, Leave, Goto
<1>10. CASE TrackBatch
  BY <1>10 DEF TrackBatch, Leave, Goto
<1>11. CASE TrackChunk
  BY <1>11 DEF TrackChunk, Goto
<1>12. ASSUME NEW b \in Bundles, EnterBundle(b) PROVE Once'
  BY <1>12 DEF EnterBundle
<1>13. ASSUME NEW b \in Bundles, ExitBundle(b) PROVE Once'
  BY <1>13 DEF ExitBundle, Enter, Goto
<1>14. ASSUME NEW b \in Bundles, ExitRaising(b) PROVE Once'
  BY <1>14 DEF ExitRaising
<1>15. ASSUME NEW b \in Bundles, Flush(b) PROVE Once'
  BY <1>15 DEF Flush, Enter, Goto
<1>16. CASE NextChunk
  BY <1>16 DEF NextChunk, IsChunk, Goto
<1>17. CASE FlushEnds
  BY <1>17 DEF FlushEnds, Leave, Goto
<1>18. ASSUME NEW d \in Dispatchers, NEW global \in BOOLEAN, Join(d, global) PROVE Once'
  BY <1>18 DEF Join, Enter, Goto
<1>19. ASSUME NEW j \in Jobs, JoinPasses(j) PROVE Once'
  BY <1>19 DEF JoinPasses
<1>20. ASSUME NEW j \in Jobs, JoinWaits(j) PROVE Once'
  BY <1>20 DEF JoinWaits, Goto
<1>21. CASE JoinWaited
  BY <1>21 DEF JoinWaited, Goto
<1>22. CASE JoinReturns
  BY <1>22 DEF JoinReturns, Leave, Goto
<1>23. ASSUME NEW kind \in {"get", "getAll"}, NEW ts \in SUBSET Tasks, Get(kind, ts) PROVE Once'
  BY <1>23 DEF Get, Enter, Goto
<1>24. ASSUME NEW t \in Tasks, GetCached(t) PROVE Once'
  BY <1>24 DEF GetCached
<1>25. ASSUME NEW t \in Tasks, GetWaits(t) PROVE Once'
  BY <1>25 DEF GetWaits, Goto
<1>26. CASE GetFetches
  BY <1>26 DEF GetFetches, Goto
<1>27. CASE Fetch
  BY <1>27 DEF Fetch, Leave, Fetched, Goto
<1>28. CASE GetReturns
  BY <1>28 DEF GetReturns, Leave, Goto
<1>29. CASE Fails
  BY <1>29 DEF Fails, Leave, Flushing, Goto
<1>30. CASE InterruptFlush
  BY <1>30 DEF InterruptFlush, Leave, Scancel, Elements, Flushing, Goto
<1>31. CASE InterruptJoin
  BY <1>31 DEF InterruptJoin, Leave, Scancel, Elements, Goto
<1>32. CASE InterruptGet
  BY <1>32 DEF InterruptGet, Leave, Scancel, Goto
<1>33. ASSUME NEW j \in Jobs, NEW t \in Tasks, Working(j, t) PROVE Once'
  BY <1>33, WorkersKeepOnce
<1>34. CASE OthersSync
  BY <1>34 DEF OthersSync
<1>35. CASE UNCHANGED vars
  BY <1>35 DEF vars
<1> HIDE DEF Once, Types
<1> QED
      BY <1>1, <1>2, <1>3, <1>4, <1>5, <1>6, <1>7, <1>8, <1>9, <1>10, <1>11, <1>12, <1>13,
       <1>14, <1>15, <1>16, <1>17, <1>18, <1>19, <1>20, <1>21, <1>22, <1>23, <1>24, <1>25,
       <1>26, <1>27, <1>28, <1>29, <1>30, <1>31, <1>32, <1>33, <1>34, <1>35
    DEF Next, Calling, Submits, Bundling, Joins, Gets, Interrupt, Workers, Working

----------------------------------------------------------------------------
(* Payloads and results *)

\* A payload is written before its job is submitted and travels with the rsync
\* before sbatch; afterwards only others remove it.
Placing ==
    /\ \A j \in Jobs, t \in Tasks : real[j][t] # None => t \in payloads
    /\ Submitting => chunk \subseteq payloads
    /\ pc = "sbatch" => chunk \subseteq remote \cup robbed
    /\ PayloadInPlace

\* Workers remove no payload, and none goes back to the queue.
LEMMA WorkersKeepPlacing ==
    ASSUME Types, Placing, NEW j \in Jobs, NEW t \in Tasks, Working(j, t)
    PROVE  Placing'
<1>1. PICK phase \in Phases \ {"PENDING"} : Set(j, t, phase) /\ real[j][t] \in Phases
  BY WorkersWork DEF Works, Phases
<1>2. \A i \in Jobs, u \in Tasks :
          /\ real'[i][u] # None => real[i][u] # None
          /\ real'[i][u] = "PENDING" => real[i][u] = "PENDING"
  BY <1>1, NoneAssumption DEF Set, Types, TypeOK
<1> QED
  BY <1>2, WorkersWork DEF Placing, PayloadInPlace, Submitting, scriptVars, opVars

\* Every step keeps the payloads in place.
LEMMA PlacingKept ==
    ASSUME Types, Placing, [Next]_vars
    PROVE  Placing'
<1> USE DEF Placing, Types, TypeOK, Placed, Submitting, PayloadInPlace, Phases,
            scriptVars, opVars, fileVars, driverVars, clusterVars, noteVars
<1>1. ASSUME NEW t \in Tasks, Buffer(t) PROVE Placing'
  BY <1>1 DEF Buffer
<1>2. ASSUME NEW t \in Tasks, Distribute(t) PROVE Placing'
  BY <1>2 DEF Distribute, Call, Enter, Goto
<1>3. ASSUME NEW t \in Tasks, Remote(t) PROVE Placing'
  BY <1>3 DEF Remote, Call, Enter, Goto
<1>4. ASSUME NEW t \in Tasks, Cancel(t) PROVE Placing'
  BY <1>4 DEF Cancel, Scancel
<1>5. ASSUME NEW ts \in SUBSET Tasks, RemoteBatch(ts) PROVE Placing'
  BY <1>5 DEF RemoteBatch, Call, Enter, Goto
<1>6. CASE Sync
  BY <1>6, NoneAssumption DEF Sync, Goto
<1>7. CASE Sbatch
  BY <1>7, NoneAssumption DEF Sbatch, Goto
<1>8. CASE Reply
  BY <1>8 DEF Reply, Goto
<1>9. CASE TrackCall
  BY <1>9 DEF TrackCall, Leave, Goto
<1>10. CASE TrackBatch
  BY <1>10 DEF TrackBatch, Leave, Goto
<1>11. CASE TrackChunk
  BY <1>11 DEF TrackChunk, Goto
<1>12. ASSUME NEW b \in Bundles, EnterBundle(b) PROVE Placing'
  BY <1>12 DEF EnterBundle
<1>13. ASSUME NEW b \in Bundles, ExitBundle(b) PROVE Placing'
  BY <1>13 DEF ExitBundle, Enter, Goto
<1>14. ASSUME NEW b \in Bundles, ExitRaising(b) PROVE Placing'
  BY <1>14 DEF ExitRaising
<1>15. ASSUME NEW b \in Bundles, Flush(b) PROVE Placing'
  BY <1>15 DEF Flush, Enter, Goto
<1>16. CASE NextChunk
  BY <1>16 DEF NextChunk, IsChunk, Goto
<1>17. CASE FlushEnds
  BY <1>17 DEF FlushEnds, Leave, Goto
<1>18. ASSUME NEW d \in Dispatchers, NEW global \in BOOLEAN, Join(d, global) PROVE Placing'
  BY <1>18 DEF Join, Enter, Goto
<1>19. ASSUME NEW j \in Jobs, JoinPasses(j) PROVE Placing'
  BY <1>19 DEF JoinPasses
<1>20. ASSUME NEW j \in Jobs, JoinWaits(j) PROVE Placing'
  BY <1>20 DEF JoinWaits, Goto
<1>21. CASE JoinWaited
  BY <1>21 DEF JoinWaited, Goto
<1>22. CASE JoinReturns
  BY <1>22 DEF JoinReturns, Leave, Goto
<1>23. ASSUME NEW kind \in {"get", "getAll"}, NEW ts \in SUBSET Tasks, Get(kind, ts) PROVE Placing'
  BY <1>23 DEF Get, Enter, Goto
<1>24. ASSUME NEW t \in Tasks, GetCached(t) PROVE Placing'
  BY <1>24 DEF GetCached
<1>25. ASSUME NEW t \in Tasks, GetWaits(t) PROVE Placing'
  BY <1>25 DEF GetWaits, Goto
<1>26. CASE GetFetches
  BY <1>26 DEF GetFetches, Goto
<1>27. CASE Fetch
  BY <1>27 DEF Fetch, Leave, Fetched, Goto
<1>28. CASE GetReturns
  BY <1>28 DEF GetReturns, Leave, Goto
<1>29. CASE Fails
  BY <1>29 DEF Fails, Leave, Flushing, Goto
<1>30. CASE InterruptFlush
  BY <1>30 DEF InterruptFlush, Leave, Scancel, Elements, Flushing, Goto
<1>31. CASE InterruptJoin
  BY <1>31 DEF InterruptJoin, Leave, Scancel, Elements, Goto
<1>32. CASE InterruptGet
  BY <1>32 DEF InterruptGet, Leave, Scancel, Goto
<1>33. ASSUME NEW j \in Jobs, NEW t \in Tasks, Working(j, t) PROVE Placing'
  BY <1>33, WorkersKeepPlacing
<1>34. CASE OthersSync
  BY <1>34 DEF OthersSync
<1>35. CASE UNCHANGED vars
  BY <1>35 DEF vars
<1> HIDE DEF Placing
<1> QED
      BY <1>1, <1>2, <1>3, <1>4, <1>5, <1>6, <1>7, <1>8, <1>9, <1>10, <1>11, <1>12, <1>13,
       <1>14, <1>15, <1>16, <1>17, <1>18, <1>19, <1>20, <1>21, <1>22, <1>23, <1>24, <1>25,
       <1>26, <1>27, <1>28, <1>29, <1>30, <1>31, <1>32, <1>33, <1>34, <1>35
    DEF Next, Calling, Submits, Bundling, Joins, Gets, Interrupt, Workers, Working

\* Only the worker of a call whose result is wanted writes its file: a whole
\* one if it completes, unless an rsync deletes it.
Files ==
    /\ collect \subseteq Submitted
    /\ \A t \in Tasks : ref[t] # None => ref[t] \in collect /\ t \in Calls(ref[t])
    /\ \A t \in Tasks : got[t] # None => ref[t] # None
    /\ pc \in {"reply", "track"} =>
          /\ Calls(job) = chunk
          /\ op.kind \in {"remote", "batch"} => job \in collect
    /\ \A j \in collect, t \in Tasks :
          /\ real[j][t] = "COMPLETED" => file[t] \in {None, "ok"}
          /\ real[j][t] \in {"SAVING", "COMPLETED"} /\ file[t] = None => t \in removed
    /\ pc = "fetch" => real[ref[job]][job] = "COMPLETED"
    /\ GetIsTruthful

\* The Refs of a job that has just been submitted.
LEMMA RefsOfChunk ==
    ASSUME Types, Types', Once, Files, pc = "track", pc' = "user",
           Calls(job) = chunk, job \in collect,
           ref' = [t \in Tasks |-> IF t \in chunk THEN job ELSE ref[t]],
           UNCHANGED <<real, collect, file, removed, got>>
    PROVE  Files'
<1>1. \A t \in Tasks : got[t] = "value" => ref'[t] = ref[t]
  BY NoneAssumption, NamesAssumption DEF Files, Calls, Once, SubmittedOnce, Types, TypeOK, Placed, Submitted
<1>2. job \in Jobs
  BY DEF Files, Submitted
<1>3. GetIsTruthful'
  BY <1>1 DEF GetIsTruthful, Files
<1>4. \A t \in Tasks :
          /\ ref'[t] # None => ref'[t] \in collect /\ t \in Calls(ref'[t])
          /\ got[t] # None => ref'[t] # None
  BY <1>2, NamesAssumption DEF Files
<1>5. Submitted' = Submitted /\ \A j : Calls(j)' = Calls(j)
  BY DEF Submitted, Calls
<1> QED  BY <1>3, <1>4, <1>5 DEF Files

\* A worker that completes has renamed its whole result file (_write_result).
LEMMA WorkersKeepFiles ==
    ASSUME Types, Types', Once, Files, NEW j \in Jobs, NEW t \in Tasks, Working(j, t)
    PROVE  Files'
<1> USE DEF Types, TypeOK
<1>1. PICK phase \in Phases \ {"PENDING"} :
          Set(j, t, phase) /\ real[j][t] \in {"PENDING", "RUNNING", "SAVING"}
  BY WorkersWork DEF Works
<1>2. /\ real'[j][t] = phase
      /\ \A i \in Jobs, u \in Tasks : i # j \/ u # t => real'[i][u] = real[i][u]
  BY <1>1 DEF Set
<1>3. /\ \A i \in Jobs : Calls(i)' = Calls(i)
      /\ Submitted' = Submitted
  <2>1. real[j][t] # None /\ real'[j][t] # None
    BY <1>1, <1>2, NoneAssumption DEF Phases
  <2>2. \A i \in Jobs, u \in Tasks : real'[i][u] = None <=> real[i][u] = None
    BY <2>1, <1>2
  <2> QED  BY <2>2 DEF Calls, Submitted
<1>4. UNCHANGED <<collect, ref, got, op, pc, job, chunk, removed>>
  BY WorkersWork DEF opVars, driverVars
<1>5. \A i \in Jobs : i # j => real[i][t] = None
  BY <1>1, NoneAssumption DEF Once, SubmittedOnce, Phases
<1>6. \A u \in Tasks : u # t => file'[u] = file[u]
  BY DEF Working, Start, Run, Save, Saved, Kill, fileVars
<1>7. \A i \in collect, u \in Tasks :
          /\ real'[i][u] = "COMPLETED" => file'[u] \in {None, "ok"}
          /\ real'[i][u] \in {"SAVING", "COMPLETED"} /\ file'[u] = None => u \in removed
  <2>1. ASSUME NEW i \in collect, NEW u \in Tasks, i # j \/ u # t
        PROVE  /\ real'[i][u] = "COMPLETED" => file'[u] \in {None, "ok"}
               /\ real'[i][u] \in {"SAVING", "COMPLETED"} /\ file'[u] = None => u \in removed
    <3>1. i \in Jobs /\ real'[i][u] = real[i][u]
      BY <2>1, <1>2 DEF Files, Submitted
    <3>2. CASE u = t
      BY <2>1, <3>1, <3>2, <1>5, NoneAssumption DEF Phases, Terminal
    <3>3. CASE u # t
      BY <3>1, <3>3, <1>6 DEF Files
    <3> QED  BY <3>2, <3>3
  <2>2. ASSUME j \in collect
        PROVE  /\ real'[j][t] = "COMPLETED" => file'[t] \in {None, "ok"}
               /\ real'[j][t] \in {"SAVING", "COMPLETED"} /\ file'[t] = None => t \in removed
    <3>1. CASE Start(j, t)  BY <3>1 DEF Start, Set
    <3>2. CASE Run(j, t)  BY <3>2, <2>2 DEF Run
    <3>3. CASE Save(j, t)  BY <3>3, NoneAssumption DEF Save, Set
    <3>4. CASE Saved(j, t)
      BY <3>4, <2>2, NoneAssumption DEF Saved, Set, Files
    <3>5. CASE Kill(j, t)  BY <3>5 DEF Kill, Set
    <3> QED  BY <3>1, <3>2, <3>3, <3>4, <3>5 DEF Working
  <2> QED  BY <2>1, <2>2
<1>8. \A u \in Tasks : got[u] = "value" \/ (pc = "fetch" /\ u = job) =>
          real[ref[u]][u] = "COMPLETED" /\ ref[u] \in Jobs
  BY NoneAssumption DEF Files, GetIsTruthful, Submitted, Placed
<1>9. \A u \in Tasks : got[u] = "value" \/ (pc = "fetch" /\ u = job) => real'[ref[u]][u] = "COMPLETED"
  <2> SUFFICES ASSUME NEW u \in Tasks, got[u] = "value" \/ (pc = "fetch" /\ u = job)
               PROVE  real'[ref[u]][u] = "COMPLETED"
    OBVIOUS
  <2>1. real[ref[u]][u] = "COMPLETED" /\ ref[u] \in Jobs
    BY <1>8
  <2>2. ref[u] # j \/ u # t
    BY <1>1, <2>1
  <2> QED  BY <1>2, <2>1, <2>2
<1>10. pc = "fetch" => job \in Tasks
  BY DEF Placed, Getting
<1>11. GetIsTruthful'
  <2>1. \A u \in Tasks : got[u] # "garbled" /\ (got[u] = "missing" => u \in removed)
    BY DEF Files, GetIsTruthful
  <2>2. \A u \in Tasks : got[u] = "value" => real'[ref[u]][u] = "COMPLETED"
    BY <1>9
  <2> HIDE DEF Types, TypeOK
  <2> QED  BY <1>4, <2>1, <2>2 DEF GetIsTruthful
<1>12. pc' = "fetch" => real'[ref'[job']][job'] = "COMPLETED"
  BY <1>4, <1>9, <1>10
<1>13. \A u \in Tasks : ref'[u] # None => ref'[u] \in collect' /\ u \in Calls(ref[u])'
  BY <1>3, <1>4 DEF Files, Submitted
<1>14. pc' \in {"reply", "track"} =>
          Calls(job)' = chunk' /\ (op'.kind \in {"remote", "batch"} => job' \in collect')
  BY <1>3, <1>4 DEF Files, Placed
<1> QED  BY <1>3, <1>4, <1>7, <1>11, <1>12, <1>13, <1>14 DEF Files

\* Every step keeps the files and what get makes of them.
LEMMA FilesKept ==
    ASSUME Types, Types', Once, Files, [Next]_vars
    PROVE  Files'
<1> USE DEF Files, Types, TypeOK, Placed, Submitting, Getting, GetIsTruthful, Once, SubmittedOnce, Phases, Submitted, Calls,
            scriptVars, opVars, fileVars, driverVars, clusterVars, noteVars
<1>1. ASSUME NEW t \in Tasks, Buffer(t) PROVE Files'
  BY <1>1 DEF Buffer
<1>2. ASSUME NEW t \in Tasks, Distribute(t) PROVE Files'
  BY <1>2 DEF Distribute, Call, Enter, Goto
<1>3. ASSUME NEW t \in Tasks, Remote(t) PROVE Files'
  BY <1>3 DEF Remote, Call, Enter, Goto
<1>4. ASSUME NEW t \in Tasks, Cancel(t) PROVE Files'
  BY <1>4 DEF Cancel, Scancel
<1>5. ASSUME NEW ts \in SUBSET Tasks, RemoteBatch(ts) PROVE Files'
  BY <1>5 DEF RemoteBatch, Call, Enter, Goto
<1>6. CASE Sync
  <2>1. \A j \in collect, t \in Tasks :
            real[j][t] \in {"SAVING", "COMPLETED"} => t \in removed'
    BY <1>6 DEF Sync
  <2>2. \A t \in Tasks : file'[t] = None
    BY <1>6 DEF Sync
  <2>3. UNCHANGED <<collect, real, ref, got, op, chunk>> /\ pc' = "sbatch" /\ removed \subseteq removed'
    BY <1>6 DEF Sync, Goto
  <2> QED  BY <2>1, <2>2, <2>3
<1>7. CASE Sbatch
  <2>1. PICK j \in Jobs \ Submitted :
            /\ real' = [real EXCEPT ![j] = [t \in Tasks |-> IF t \in chunk THEN "PENDING" ELSE None]]
            /\ collect' = IF op.kind \in {"remote", "batch"} THEN collect \cup {j} ELSE collect
            /\ job' = j
    BY <1>7 DEF Sbatch
  <2>2. /\ \A i \in Jobs \ {j} : real'[i] = real[i]
        /\ \A t \in Tasks : real'[j][t] = IF t \in chunk THEN "PENDING" ELSE None
    BY <2>1
  <2>3. /\ \A i \in Submitted : i # j
        /\ chunk \subseteq Tasks /\ chunk # {}
    BY <2>1, <1>7 DEF Sbatch
  <2>4. Calls(j)' = chunk /\ \A i \in Jobs \ {j} : Calls(i)' = Calls(i)
    BY <2>2, <2>3, NoneAssumption
  <2>5. Submitted' = Submitted \cup {j}
    BY <2>3, <2>4
  <2>6. /\ pc' = "reply" /\ UNCHANGED <<file, removed, ref, got, op, chunk>>
        /\ \A t \in Tasks : got[t] # None \/ ref[t] # None => ref[t] \in Submitted
        /\ collect \subseteq Submitted /\ Submitted \subseteq Jobs
    BY <1>7 DEF Sbatch, Goto
  <2> HIDE DEF Calls, Submitted
  <2>7. collect' \subseteq Submitted' /\ (op'.kind \in {"remote", "batch"} => job' \in collect')
    BY <2>1, <2>5, <2>6
  <2>8. \A t \in Tasks : ref'[t] # None => ref'[t] \in collect' /\ t \in Calls(ref[t])'
    BY <2>1, <2>3, <2>4, <2>6
  <2>9. \A i \in collect', t \in Tasks :
            /\ real'[i][t] = "COMPLETED" => file'[t] \in {None, "ok"}
            /\ real'[i][t] \in {"SAVING", "COMPLETED"} /\ file'[t] = None => t \in removed'
    <3>1. \A t \in Tasks : real'[j][t] \notin {"SAVING", "COMPLETED"}
      BY <2>2, NoneAssumption DEF Terminal
    <3> QED  BY <2>1, <2>2, <2>6, <3>1
  <2>10. GetIsTruthful'
    <3>1. \A t \in Tasks : got[t] = "value" => ref[t] \in Jobs \ {j}
      BY <2>3, <2>6, NoneAssumption
    <3>2. \A t \in Tasks : got[t] = "value" => real'[ref[t]][t] = "COMPLETED"
      BY <2>2, <3>1
    <3> QED  BY <2>6, <3>2
  <2> QED  BY <2>1, <2>4, <2>6, <2>7, <2>8, <2>9, <2>10
<1>8. CASE Reply
  BY <1>8 DEF Reply, Goto
<1>9. CASE TrackCall
  <2>1. CASE op.kind = "remote"
    <3>1. /\ pc = "track" /\ Calls(job) = chunk /\ job \in collect
          /\ ref' = [t \in Tasks |-> IF t \in chunk THEN job ELSE ref[t]]
          /\ pc' = "user" /\ UNCHANGED <<real, collect, file, removed, got>>
      BY <1>9, <2>1 DEF TrackCall, Leave, Goto
    <3> QED  BY <3>1, RefsOfChunk
  <2>2. CASE op.kind # "remote"
    BY <1>9, <2>2 DEF TrackCall, Leave, Goto
  <2> QED  BY <2>1, <2>2
<1>10. CASE TrackBatch
  <2>1. /\ pc = "track" /\ Calls(job) = chunk /\ job \in collect
        /\ ref' = [t \in Tasks |-> IF t \in chunk THEN job ELSE ref[t]]
        /\ pc' = "user" /\ UNCHANGED <<real, collect, file, removed, got>>
    BY <1>10 DEF TrackBatch, Leave, Goto
  <2> QED  BY <2>1, RefsOfChunk
<1>11. CASE TrackChunk
  BY <1>11 DEF TrackChunk, Goto
<1>12. ASSUME NEW b \in Bundles, EnterBundle(b) PROVE Files'
  BY <1>12 DEF EnterBundle
<1>13. ASSUME NEW b \in Bundles, ExitBundle(b) PROVE Files'
  BY <1>13 DEF ExitBundle, Enter, Goto
<1>14. ASSUME NEW b \in Bundles, ExitRaising(b) PROVE Files'
  BY <1>14 DEF ExitRaising
<1>15. ASSUME NEW b \in Bundles, Flush(b) PROVE Files'
  BY <1>15 DEF Flush, Enter, Goto
<1>16. CASE NextChunk
  BY <1>16 DEF NextChunk, IsChunk, Goto
<1>17. CASE FlushEnds
  BY <1>17 DEF FlushEnds, Leave, Goto
<1>18. ASSUME NEW d \in Dispatchers, NEW global \in BOOLEAN, Join(d, global) PROVE Files'
  BY <1>18 DEF Join, Enter, Goto
<1>19. ASSUME NEW j \in Jobs, JoinPasses(j) PROVE Files'
  BY <1>19 DEF JoinPasses
<1>20. ASSUME NEW j \in Jobs, JoinWaits(j) PROVE Files'
  BY <1>20 DEF JoinWaits, Goto
<1>21. CASE JoinWaited
  BY <1>21 DEF JoinWaited, Goto
<1>22. CASE JoinReturns
  BY <1>22 DEF JoinReturns, Leave, Goto
<1>23. ASSUME NEW kind \in {"get", "getAll"}, NEW ts \in SUBSET Tasks, Get(kind, ts) PROVE Files'
  BY <1>23 DEF Get, Enter, Goto
<1>24. ASSUME NEW t \in Tasks, GetCached(t) PROVE Files'
  BY <1>24 DEF GetCached
<1>25. ASSUME NEW t \in Tasks, GetWaits(t) PROVE Files'
  BY <1>25 DEF GetWaits, Goto
<1>26. CASE GetFetches
  <2>1. job \in Tasks /\ ref[job] \in Jobs /\ real[ref[job]][job] # None
    BY <1>26, NamesAssumption DEF GetFetches
  <2>2. ASSUME "COMPLETED" \in Past(real[ref[job]][job]) PROVE real[ref[job]][job] = "COMPLETED"
    BY <2>2 DEF Past
  <2>3. ASSUME "COMPLETED" \in JobPast(ref[job]) PROVE real[ref[job]][job] = "COMPLETED"
    BY <2>1, <2>3 DEF JobPast
  <2>4. real[ref[job]][job] = "COMPLETED"
    BY <1>26, <2>2, <2>3 DEF GetFetches
  <2> QED  BY <1>26, <2>4 DEF GetFetches, Goto
<1>27. CASE Fetch
  <2>1. job \in Tasks /\ ref[job] \in collect /\ real[ref[job]][job] = "COMPLETED"
    BY <1>27, NamesAssumption DEF Fetch
  <2>2. file[job] \in {None, "ok"} /\ (file[job] = None => job \in removed)
    BY <2>1
  <2>3. \/ Fetched = "value"
        \/ Fetched = "missing" /\ job \in removed
    BY <2>2, NoneAssumption DEF Fetched
  <2>4. /\ got' = [got EXCEPT ![job] = Fetched]
        /\ pc' \in {"get", "user"} /\ UNCHANGED <<real, collect, ref, file, removed>>
    BY <1>27 DEF Fetch, Leave, Goto
  <2>5. GetIsTruthful'
    BY <2>1, <2>3, <2>4
  <2>6. \A t \in Tasks : got'[t] # None => ref'[t] # None
    BY <2>1, <2>4, NamesAssumption
  <2> QED  BY <2>4, <2>5, <2>6
<1>28. CASE GetReturns
  BY <1>28 DEF GetReturns, Leave, Goto
<1>29. CASE Fails
  BY <1>29 DEF Fails, Leave, Flushing, Goto
<1>30. CASE InterruptFlush
  BY <1>30 DEF InterruptFlush, Leave, Scancel, Elements, Flushing, Goto
<1>31. CASE InterruptJoin
  BY <1>31 DEF InterruptJoin, Leave, Scancel, Elements, Goto
<1>32. CASE InterruptGet
  BY <1>32 DEF InterruptGet, Leave, Scancel, Goto
<1>33. ASSUME NEW j \in Jobs, NEW t \in Tasks, Working(j, t) PROVE Files'
  BY <1>33, WorkersKeepFiles
<1>34. CASE OthersSync
  BY <1>34 DEF OthersSync
<1>35. CASE UNCHANGED vars
  BY <1>35 DEF vars
<1> HIDE DEF Files
<1> QED
      BY <1>1, <1>2, <1>3, <1>4, <1>5, <1>6, <1>7, <1>8, <1>9, <1>10, <1>11, <1>12, <1>13,
       <1>14, <1>15, <1>16, <1>17, <1>18, <1>19, <1>20, <1>21, <1>22, <1>23, <1>24, <1>25,
       <1>26, <1>27, <1>28, <1>29, <1>30, <1>31, <1>32, <1>33, <1>34, <1>35
    DEF Next, Calling, Submits, Bundling, Joins, Gets, Interrupt, Workers, Working

----------------------------------------------------------------------------
(* join, and what it has to wait for *)

\* A job of the SlurmDispatcher that join may meet is still pending or has
\* ended; while it joins, what it has passed has ended.
Joining ==
    /\ tracked \subseteq Submitted /\ recorded \subseteq Submitted
    /\ \A d \in Dispatchers : pending[d] \subseteq tracked
    /\ pc \in {"reply", "track"} => job \in Submitted /\ job \notin tracked \cup recorded
    /\ joined[Base] \subseteq tracked
    /\ \A j \in tracked \cap recorded : j \in pending[Base] \/ Ended(j)
    /\ op.kind = "join" /\ op.who = Base =>
          pc \in {"join", "wait"} /\ \A j \in pending[Base] \cap recorded : j \in left \/ Ended(j)
    /\ JoinedHasEnded

\* A step that leaves the lists alone.
LEMMA QuietJoining ==
    ASSUME Types, [Next]_vars, Joining,
           UNCHANGED <<tracked, recorded, pending, joined>>,
           \/ pc' \notin {"reply", "track"}
           \/ pc \in {"reply", "track"} /\ job' = job
           \/ job' \in Submitted' \ Submitted,
           \/ op'.kind # "join"
           \/ op'.who # Base
           \/ op' = op /\ pc \notin {"join", "wait"}
           \/ UNCHANGED <<op, left>> /\ pc' \in {pc, "wait"}
    PROVE  Joining'
<1>1. \A j \in Submitted : j \in Submitted' /\ (Ended(j) => Ended(j)')
  BY LaterSteps
<1>2. joined[Base] \cup tracked \cup recorded \subseteq Submitted
  BY DEF Joining
<1>3. JoinedHasEnded'
  BY <1>1, <1>2 DEF Joining, JoinedHasEnded
<1>4. \A j \in tracked \cap recorded : j \in pending[Base] \/ Ended(j)'
  BY <1>1, <1>2 DEF Joining
<1>5. pc' \in {"reply", "track"} => job' \in Submitted' /\ job' \notin tracked \cup recorded
  BY <1>1, <1>2 DEF Joining
<1>6. op'.kind = "join" /\ op'.who = Base =>
          pc' \in {"join", "wait"} /\ \A j \in pending[Base] \cap recorded : j \in left' \/ Ended(j)'
  BY <1>1, <1>2 DEF Joining
<1> QED  BY <1>1, <1>2, <1>3, <1>4, <1>5, <1>6 DEF Joining

\* What is derived from the jobs changes only with them.
LEMMA SameReal ==
    ASSUME UNCHANGED real
    PROVE  /\ Submitted' = Submitted
           /\ \A j : (Ended(j)' <=> Ended(j)) /\ Calls(j)' = Calls(j)
  BY DEF Submitted, Ended, Calls

\* A status that is an end means that all calls of the job have ended.
LEMMA TerminalIsEnded ==
    ASSUME NEW j, JobPast(j) \cap Terminal # {}
    PROVE  Ended(j)
  BY DEF JobPast, Terminal

\* Every step keeps what join relies on.
LEMMA JoiningKept ==
    ASSUME Types, Types', Joining, [Next]_vars
    PROVE  Joining'
<1> USE DEF scriptVars, opVars, fileVars, driverVars, clusterVars, noteVars
<1>1. ASSUME NEW t \in Tasks, Buffer(t) PROVE Joining'
  BY <1>1, QuietJoining DEF Buffer
<1>2. ASSUME NEW t \in Tasks, Distribute(t) PROVE Joining'
  BY <1>2, QuietJoining DEF Distribute, Call, Enter, Goto
<1>3. ASSUME NEW t \in Tasks, Remote(t) PROVE Joining'
  BY <1>3, QuietJoining DEF Remote, Call, Enter, Goto
<1>4. ASSUME NEW t \in Tasks, Cancel(t) PROVE Joining'
  BY <1>4, QuietJoining DEF Cancel, Scancel
<1>5. ASSUME NEW ts \in SUBSET Tasks, RemoteBatch(ts) PROVE Joining'
  BY <1>5, QuietJoining DEF RemoteBatch, Call, Enter, Goto
<1>6. CASE Sync
  BY <1>6, QuietJoining DEF Sync, Goto
<1>7. CASE Sbatch
  <2>1. job' \in Submitted' \ Submitted
    BY <1>7, NoneAssumption DEF Sbatch, Submitted, Calls, Types, TypeOK, Placed, Submitting, Phases
  <2> QED  BY <1>7, <2>1, QuietJoining DEF Sbatch, Goto
<1>8. CASE Reply
  BY <1>8, QuietJoining DEF Reply, Goto
<1>9. CASE TrackCall
  <2>1. UNCHANGED <<real, joined>> /\ pc' = "user" /\ op' = NoOp /\ pc = "track"
    BY <1>9 DEF TrackCall, Leave, Goto
  <2>2. op'.kind # "join"
    BY <2>1 DEF NoOp
  <2>3. recorded' = recorded \cup {job}
    BY <1>9 DEF TrackCall
  <2>4. \/ UNCHANGED <<pending, tracked>>
        \/ /\ pending' = [pending EXCEPT ![Base] = @ \cup {job}]
           /\ tracked' = tracked \cup {job}
    BY <1>9 DEF TrackCall
  <2>5. pending \in [Dispatchers -> SUBSET Jobs] /\ Base \in Dispatchers
    BY DEF Types, TypeOK, Dispatchers
  <2> QED  BY <2>1, <2>2, <2>3, <2>4, <2>5, SameReal DEF Joining, JoinedHasEnded
<1>10. CASE TrackBatch
  BY <1>10, QuietJoining DEF TrackBatch, Leave, Goto, NoOp
<1>11. CASE TrackChunk
  <2>1. UNCHANGED <<real, joined, recorded, op>> /\ pc' = "next" /\ pc = "track"
    BY <1>11 DEF TrackChunk, Goto
  <2>2. /\ pending' = [pending EXCEPT ![op.who] = @ \cup {job}]
        /\ tracked' = tracked \cup {job}
    BY <1>11 DEF TrackChunk
  <2>3. pending \in [Dispatchers -> SUBSET Jobs] /\ op.who \in Bundles /\ op.who # Base
    BY <1>11, NamesAssumption DEF TrackChunk, Types, TypeOK, Placed, Flushing
  <2>4. /\ pending'[Base] = pending[Base]
        /\ \A d \in Dispatchers : pending'[d] \subseteq pending[d] \cup {job}
    BY <2>2, <2>3 DEF Dispatchers
  <2> QED  BY <2>1, <2>2, <2>3, <2>4, SameReal DEF Joining, JoinedHasEnded
<1>12. ASSUME NEW b \in Bundles, EnterBundle(b) PROVE Joining'
  BY <1>12, QuietJoining DEF EnterBundle
<1>13. ASSUME NEW b \in Bundles, ExitBundle(b) PROVE Joining'
  BY <1>13, QuietJoining DEF ExitBundle, Enter, Goto
<1>14. ASSUME NEW b \in Bundles, ExitRaising(b) PROVE Joining'
  BY <1>14, QuietJoining DEF ExitRaising
<1>15. ASSUME NEW b \in Bundles, Flush(b) PROVE Joining'
  BY <1>15, QuietJoining DEF Flush, Enter, Goto
<1>16. CASE NextChunk
  BY <1>16, QuietJoining DEF NextChunk, IsChunk, Goto
<1>17. CASE FlushEnds
  BY <1>17, QuietJoining DEF FlushEnds, Leave, Goto, NoOp
<1>18. ASSUME NEW d \in Dispatchers, NEW global \in BOOLEAN, Join(d, global) PROVE Joining'
  <2>1. CASE d = Base
    <3>1. /\ UNCHANGED <<real, joined, recorded, tracked, pending, job>> /\ pc' = "join"
          /\ left' = pending[Base]
      BY <1>18, <2>1 DEF Join, Enter, Goto
    <3> QED  BY <3>1, SameReal DEF Joining, JoinedHasEnded
  <2>2. CASE d # Base
    BY <1>18, <2>2, QuietJoining DEF Join, Enter, Goto
  <2> QED  BY <2>1, <2>2
<1>19. ASSUME NEW j \in Jobs, JoinPasses(j) PROVE Joining'
  <2>1. /\ UNCHANGED <<real, joined, recorded, tracked, pending, job, pc, op>> /\ pc = "join"
        /\ left' = left \ {j} /\ (j \notin recorded \/ Ended(j))
    BY <1>19, TerminalIsEnded DEF JoinPasses
  <2> QED  BY <2>1, SameReal DEF Joining, JoinedHasEnded
<1>20. ASSUME NEW j \in Jobs, JoinWaits(j) PROVE Joining'
  BY <1>20, QuietJoining DEF JoinWaits, Goto
<1>21. CASE JoinWaited
  <2>1. Ended(job)
    BY <1>21, TerminalIsEnded DEF JoinWaited, Terminal
  <2>2. /\ UNCHANGED <<real, joined, recorded, tracked, pending, op>> /\ pc' = "join"
        /\ left' = left \ {job}
    BY <1>21 DEF JoinWaited, Goto
  <2> QED  BY <2>1, <2>2, SameReal DEF Joining, JoinedHasEnded
<1>22. CASE JoinReturns
  <2>1. /\ UNCHANGED <<real, recorded, tracked>> /\ pc = "join" /\ left = {} /\ pc' = "user"
        /\ op' = NoOp
    BY <1>22 DEF JoinReturns, Leave, Goto
  <2>2. /\ pending' = [pending EXCEPT ![op.who] = {}]
        /\ joined' = IF op.global THEN [joined EXCEPT ![op.who] = tracked] ELSE joined
    BY <1>22 DEF JoinReturns
  <2>3. /\ op.kind = "join" /\ op.who \in Dispatchers /\ op'.kind # "join" /\ Base \in Dispatchers
        /\ pending \in [Dispatchers -> SUBSET Jobs] /\ joined \in [Dispatchers -> SUBSET Jobs]
    BY <2>1 DEF Types, TypeOK, Placed, NoOp, Dispatchers
  <2>4. op.who = Base => \A j \in tracked \cap recorded : Ended(j)
    BY <2>1, <2>3 DEF Joining
  <2>5. /\ pending'[Base] = IF op.who = Base THEN {} ELSE pending[Base]
        /\ \A d \in Dispatchers : pending'[d] \subseteq pending[d]
        /\ \/ joined'[Base] = joined[Base]
           \/ op.who = Base /\ joined'[Base] = tracked
    BY <2>2, <2>3
  <2> QED  BY <2>1, <2>3, <2>4, <2>5, SameReal DEF Joining, JoinedHasEnded
<1>23. ASSUME NEW kind \in {"get", "getAll"}, NEW ts \in SUBSET Tasks, Get(kind, ts) PROVE Joining'
  BY <1>23, QuietJoining DEF Get, Enter, Goto
<1>24. ASSUME NEW t \in Tasks, GetCached(t) PROVE Joining'
  BY <1>24, QuietJoining DEF GetCached
<1>25. ASSUME NEW t \in Tasks, GetWaits(t) PROVE Joining'
  BY <1>25, QuietJoining DEF GetWaits, Goto
<1>26. CASE GetFetches
  BY <1>26, QuietJoining DEF GetFetches, Goto
<1>27. CASE Fetch
  BY <1>27, QuietJoining DEF Fetch, Leave, Fetched, Goto, NoOp
<1>28. CASE GetReturns
  BY <1>28, QuietJoining DEF GetReturns, Leave, Goto, NoOp
<1>29. CASE Fails
  BY <1>29, QuietJoining DEF Fails, Leave, Flushing, Goto, NoOp
<1>30. CASE InterruptFlush
  BY <1>30, QuietJoining DEF InterruptFlush, Leave, Scancel, Elements, Flushing, Goto, NoOp
<1>31. CASE InterruptJoin
  BY <1>31, QuietJoining DEF InterruptJoin, Leave, Scancel, Elements, Goto, NoOp
<1>32. CASE InterruptGet
  BY <1>32, QuietJoining DEF InterruptGet, Leave, Scancel, Goto, NoOp
<1>33. ASSUME NEW j \in Jobs, NEW t \in Tasks, Working(j, t) PROVE Joining'
  BY <1>33, WorkersWork, QuietJoining
<1>34. CASE OthersSync
  BY <1>34, QuietJoining DEF OthersSync
<1>35. CASE UNCHANGED vars
  BY <1>35, QuietJoining DEF vars
<1> HIDE DEF scriptVars
<1> QED
      BY <1>1, <1>2, <1>3, <1>4, <1>5, <1>6, <1>7, <1>8, <1>9, <1>10, <1>11, <1>12, <1>13,
       <1>14, <1>15, <1>16, <1>17, <1>18, <1>19, <1>20, <1>21, <1>22, <1>23, <1>24, <1>25,
       <1>26, <1>27, <1>28, <1>29, <1>30, <1>31, <1>32, <1>33, <1>34, <1>35
    DEF Next, Calling, Submits, Bundling, Joins, Gets, Interrupt, Workers, Working

----------------------------------------------------------------------------
(* flush, and Ctrl+C in it *)

Tracked(t) == \E j \in tracked : t \in Calls(j)

\* While a bundle is flushed, a call of its buffer is still left, in hand or
\* in a job of the pending list; and that list has the jobs of this flush.
Flushes ==
    /\ Flushing => /\ \A t \in buffer[op.who] : t \in rest \cup chunk \/ Tracked(t)
                   /\ left \subseteq pending[op.who]
    /\ stopped \subseteq Submitted
    /\ FlushedIsSubmitted
    /\ InterruptCancels

\* A step that returns from no flush, and only passes calls on inside one.
LEMMA QuietFlushes ==
    ASSUME Types, [Next]_vars, Joining, Flushes,
           UNCHANGED <<flushed, stopped>>, tracked \subseteq tracked', scancelled \subseteq scancelled',
           \/ ~Flushing'
           \/ UNCHANGED <<op, buffer, left, pending>> /\ Flushing /\ rest \cup chunk \subseteq rest' \cup chunk'
           \/ buffer'[op'.who] \subseteq rest' /\ left' = {}
    PROVE  Flushes'
<1>1. \A j \in Submitted : j \in Submitted' /\ Calls(j)' = Calls(j)
  BY LaterSteps
<1>2. \A j \in tracked : Calls(j)' = Calls(j)
  BY <1>1 DEF Joining
<1>3. FlushedIsSubmitted'
  BY <1>2 DEF Flushes, FlushedIsSubmitted
<1>4. Elements(stopped)' = Elements(stopped) /\ stopped' \subseteq Submitted'
  <2>1. \A e \in stopped \X Tasks : real'[e[1]][e[2]] # None <=> real[e[1]][e[2]] # None
    BY <1>1 DEF Flushes, Calls
  <2> QED  BY <1>1, <2>1 DEF Elements, Flushes
<1>5. InterruptCancels'
  BY <1>4 DEF Flushes, InterruptCancels
<1>6. \A t : Tracked(t) => Tracked(t)'
  BY <1>2 DEF Tracked
<1>7. Flushing' => /\ \A t \in buffer'[op'.who] : t \in rest' \cup chunk' \/ Tracked(t)'
                   /\ left' \subseteq pending'[op'.who]
  BY <1>6 DEF Flushes
<1> QED  BY <1>3, <1>4, <1>5, <1>6, <1>7 DEF Flushes

\* Every step keeps what flush and its interruption rely on.
LEMMA FlushesKept ==
    ASSUME Types, Types', Files, Joining, Flushes, [Next]_vars
    PROVE  Flushes'
<1> USE DEF scriptVars, opVars, fileVars, driverVars, clusterVars, noteVars
<1>1. ASSUME NEW t \in Tasks, Buffer(t) PROVE Flushes'
  BY <1>1, QuietFlushes DEF Buffer, Flushing
<1>2. ASSUME NEW t \in Tasks, Distribute(t) PROVE Flushes'
  BY <1>2, QuietFlushes DEF Distribute, Call, Enter, Goto, Flushing
<1>3. ASSUME NEW t \in Tasks, Remote(t) PROVE Flushes'
  BY <1>3, QuietFlushes DEF Remote, Call, Enter, Goto, Flushing
<1>4. ASSUME NEW t \in Tasks, Cancel(t) PROVE Flushes'
  BY <1>4, QuietFlushes DEF Cancel, Scancel, Flushing
<1>5. ASSUME NEW ts \in SUBSET Tasks, RemoteBatch(ts) PROVE Flushes'
  BY <1>5, QuietFlushes DEF RemoteBatch, Call, Enter, Goto, Flushing
<1>6. CASE Sync
  BY <1>6, QuietFlushes DEF Sync, Goto, Flushing
<1>7. CASE Sbatch
  BY <1>7, QuietFlushes DEF Sbatch, Goto, Flushing
<1>8. CASE Reply
  BY <1>8, QuietFlushes DEF Reply, Goto, Flushing
<1>9. CASE TrackCall
  BY <1>9, QuietFlushes DEF TrackCall, Leave, Goto, Flushing
<1>10. CASE TrackBatch
  BY <1>10, QuietFlushes DEF TrackBatch, Leave, Goto, Flushing
<1>11. CASE TrackChunk
  <2>1. /\ UNCHANGED <<real, op, rest, buffer, flushed, stopped, scancelled>> /\ Flushing /\ job \in Jobs
        /\ Calls(job) = chunk
    BY <1>11 DEF TrackChunk, Goto, Files, Types, Placed, Flushing
  <2>2. /\ tracked' = tracked \cup {job} /\ left' = left \cup {job}
        /\ pending' = [pending EXCEPT ![op.who] = @ \cup {job}]
    BY <1>11 DEF TrackChunk
  <2>3. pending'[op.who] = pending[op.who] \cup {job}
    BY <2>1, <2>2 DEF Types, TypeOK, Placed, Dispatchers
  <2>4. \A t : t \in chunk \/ Tracked(t) => Tracked(t)'
    BY <2>1, <2>2, SameReal DEF Tracked
  <2>5. InterruptCancels' /\ Submitted' = Submitted
    BY <2>1, SameReal DEF Flushes, InterruptCancels, Elements
  <2>6. FlushedIsSubmitted'
    BY <2>1, <2>4 DEF Flushes, FlushedIsSubmitted, Tracked
  <2> QED  BY <2>1, <2>2, <2>3, <2>4, <2>5, <2>6 DEF Flushes
<1>12. ASSUME NEW b \in Bundles, EnterBundle(b) PROVE Flushes'
  BY <1>12, QuietFlushes DEF EnterBundle, Flushing
<1>13. ASSUME NEW b \in Bundles, ExitBundle(b) PROVE Flushes'
  BY <1>13, QuietFlushes DEF ExitBundle, Enter, Goto, Flushing, Types, Placed
<1>14. ASSUME NEW b \in Bundles, ExitRaising(b) PROVE Flushes'
  BY <1>14, QuietFlushes DEF ExitRaising, Flushing
<1>15. ASSUME NEW b \in Bundles, Flush(b) PROVE Flushes'
  BY <1>15, QuietFlushes DEF Flush, Enter, Goto, Flushing, Types, Placed
<1>16. CASE NextChunk
  <2>1. Flushing /\ chunk = {}
    BY <1>16 DEF NextChunk, Types, Placed, Flushing
  <2>2. rest \cup chunk \subseteq rest' \cup chunk'
    BY <1>16, <2>1 DEF NextChunk
  <2> QED  BY <1>16, <2>1, <2>2, QuietFlushes DEF NextChunk
<1>17. CASE FlushEnds
  <2>1. /\ rest = {} /\ chunk = {} /\ Flushing /\ UNCHANGED <<real, tracked, stopped, scancelled>>
        /\ flushed' = flushed \cup buffer[op.who] /\ pc' \in {"join", "user"}
    BY <1>17 DEF FlushEnds, Leave, Goto, Types, Placed, Flushing
  <2>2. FlushedIsSubmitted'
    BY <2>1, SameReal DEF Flushes, FlushedIsSubmitted, Tracked
  <2>3. InterruptCancels' /\ Submitted' = Submitted
    BY <2>1, SameReal DEF Flushes, InterruptCancels, Elements
  <2> QED  BY <2>1, <2>2, <2>3 DEF Flushes, Flushing
<1>18. ASSUME NEW d \in Dispatchers, NEW global \in BOOLEAN, Join(d, global) PROVE Flushes'
  BY <1>18, QuietFlushes DEF Join, Enter, Goto, Flushing, Types, Placed
<1>19. ASSUME NEW j \in Jobs, JoinPasses(j) PROVE Flushes'
  BY <1>19, QuietFlushes DEF JoinPasses, Flushing
<1>20. ASSUME NEW j \in Jobs, JoinWaits(j) PROVE Flushes'
  BY <1>20, QuietFlushes DEF JoinWaits, Goto, Flushing
<1>21. CASE JoinWaited
  BY <1>21, QuietFlushes DEF JoinWaited, Goto, Flushing
<1>22. CASE JoinReturns
  BY <1>22, QuietFlushes DEF JoinReturns, Leave, Goto, Flushing
<1>23. ASSUME NEW kind \in {"get", "getAll"}, NEW ts \in SUBSET Tasks, Get(kind, ts) PROVE Flushes'
  BY <1>23, QuietFlushes DEF Get, Enter, Goto, Flushing
<1>24. ASSUME NEW t \in Tasks, GetCached(t) PROVE Flushes'
  BY <1>24, QuietFlushes DEF GetCached, Flushing
<1>25. ASSUME NEW t \in Tasks, GetWaits(t) PROVE Flushes'
  BY <1>25, QuietFlushes DEF GetWaits, Goto, Flushing
<1>26. CASE GetFetches
  BY <1>26, QuietFlushes DEF GetFetches, Goto, Flushing
<1>27. CASE Fetch
  BY <1>27, QuietFlushes DEF Fetch, Leave, Fetched, Goto, Flushing
<1>28. CASE GetReturns
  BY <1>28, QuietFlushes DEF GetReturns, Leave, Goto, Flushing
<1>29. CASE Fails
  BY <1>29, QuietFlushes DEF Fails, Leave, Flushing, Goto, Flushing
<1>30. CASE InterruptFlush
  <2> DEFINE heard == IF pc = "track" THEN {job} ELSE {}
  <2>1. /\ Flushing /\ UNCHANGED <<real, tracked, flushed>> /\ pc' = "user"
        /\ scancelled' = scancelled \cup Elements(pending[op.who] \cup heard)
        /\ stopped' = stopped \cup left \cup heard
    BY <1>30 DEF InterruptFlush, Leave, Goto, Scancel
  <2>2. left \subseteq pending[op.who] /\ pending[op.who] \subseteq Submitted /\ heard \subseteq Submitted
    BY <2>1 DEF Flushes, Joining, Types, Placed, Dispatchers
  <2>3. Elements(stopped') \subseteq Elements(stopped) \cup Elements(pending[op.who] \cup heard)
    BY <2>1, <2>2 DEF Elements
  <2>4. InterruptCancels'
    BY <2>1, <2>3 DEF Flushes, InterruptCancels, Elements
  <2>5. FlushedIsSubmitted' /\ stopped' \subseteq Submitted'
    BY <2>1, <2>2, SameReal DEF Flushes, FlushedIsSubmitted
  <2> QED  BY <2>1, <2>4, <2>5 DEF Flushes, Flushing
<1>31. CASE InterruptJoin
  BY <1>31, QuietFlushes DEF InterruptJoin, Leave, Scancel, Elements, Goto, Flushing
<1>32. CASE InterruptGet
  BY <1>32, QuietFlushes DEF InterruptGet, Leave, Scancel, Goto, Flushing
<1>33. ASSUME NEW j \in Jobs, NEW t \in Tasks, Working(j, t) PROVE Flushes'
  BY <1>33, WorkersWork, QuietFlushes DEF Flushing
<1>34. CASE OthersSync
  BY <1>34, QuietFlushes DEF OthersSync, Flushing
<1>35. CASE UNCHANGED vars
  BY <1>35, QuietFlushes DEF vars, Flushing
<1> HIDE DEF scriptVars
<1> QED
      BY <1>1, <1>2, <1>3, <1>4, <1>5, <1>6, <1>7, <1>8, <1>9, <1>10, <1>11, <1>12, <1>13,
       <1>14, <1>15, <1>16, <1>17, <1>18, <1>19, <1>20, <1>21, <1>22, <1>23, <1>24, <1>25,
       <1>26, <1>27, <1>28, <1>29, <1>30, <1>31, <1>32, <1>33, <1>34, <1>35
    DEF Next, Calling, Submits, Bundling, Joins, Gets, Interrupt, Workers, Working

----------------------------------------------------------------------------
(* The theorems *)

ExecutionInv == Types /\ Once /\ Placing /\ Files /\ Joining /\ Flushes

\* Wherever the script, the workers and the others are, and whatever has
\* failed or was interrupted (task.py, dispatcher.py, worker.py), the parts
\* above hold together.
THEOREM ExecutionInvariant == Spec => []ExecutionInv
<1>1. Init => ExecutionInv
  <2> SUFFICES ASSUME Init PROVE ExecutionInv
    OBVIOUS
  <2>1. Types
    BY TypesInitially
  <2>2. Submitted = {} /\ \A t \in Tasks : Unsubmitted(t)
    BY DEF Init, Submitted, Calls, Unsubmitted
  <2>3. Once
    BY <2>2 DEF Init, Once, Unsubmitted, SubmittedOnce, Submitting, Flushing, NoOp
  <2>4. Placing
    <3>1. \A j \in Jobs, t \in Tasks : real[j][t] = None
      BY DEF Init
    <3>2. None # "PENDING"
      BY NoneAssumption DEF Phases
    <3>3. pc = "user" /\ ~Submitting
      BY DEF Init, Submitting
    <3> QED  BY <3>1, <3>2, <3>3 DEF Placing, PayloadInPlace
  <2>5. Files
    <3>1. \A t \in Tasks : ref[t] = None /\ got[t] = None
      BY DEF Init
    <3>2. pc = "user" /\ collect = {}
      BY DEF Init
    <3>3. None # "value" /\ None # "garbled" /\ None # "missing"
      BY NoneAssumption
    <3>4. GetIsTruthful
      BY <3>1, <3>3 DEF GetIsTruthful
    <3> QED  BY <3>1, <3>2, <3>4 DEF Files
  <2>6. Joining
    BY <2>2 DEF Init, Joining, JoinedHasEnded, NoOp, Dispatchers
  <2>7. Flushes
    BY <2>2 DEF Init, Flushes, FlushedIsSubmitted, InterruptCancels, Elements, Flushing, NoOp
  <2> QED  BY <2>1, <2>3, <2>4, <2>5, <2>6, <2>7 DEF ExecutionInv
<1>2. ExecutionInv /\ [Next]_vars => ExecutionInv'
  BY TypesKept, OnceKept, PlacingKept, FilesKept, JoiningKept, FlushesKept DEF ExecutionInv
<1> QED  BY <1>1, <1>2, PTL DEF Spec

\* Every variable keeps its type.
THEOREM TypeCorrect == Spec => []TypeOK
<1>1. ExecutionInv => TypeOK  BY DEF ExecutionInv, Types
<1> QED  BY <1>1, ExecutionInvariant, PTL

\* No call is in two jobs, however bundles are flushed, interrupted and flushed
\* again (JobBundling.flush).
THEOREM CallsAreSubmittedOnce == Spec => []SubmittedOnce
<1>1. ExecutionInv => SubmittedOnce  BY DEF ExecutionInv, Once
<1> QED  BY <1>1, ExecutionInvariant, PTL

\* A call in the queue has its payload, unless others sync into the directory
\* (_write_payload, sync_to_remote, sbatch).
THEOREM PayloadsAreInPlace == Spec => []PayloadInPlace
<1>1. ExecutionInv => PayloadInPlace  BY DEF ExecutionInv, Placing
<1> QED  BY <1>1, ExecutionInvariant, PTL

\* Ref.get returns values of calls that completed, reads no half-written file
\* and misses none that an rsync has not deleted (Ref.get, _write_result).
THEOREM GetsAreTruthful == Spec => []GetIsTruthful
<1>1. ExecutionInv => GetIsTruthful  BY DEF ExecutionInv, Files
<1> QED  BY <1>1, ExecutionInvariant, PTL

\* When join returns, what the SlurmDispatcher has distributed has ended
\* (SlurmDispatcher.join).
THEOREM JoinWaitsForAll == Spec => []JoinedHasEnded
<1>1. ExecutionInv => JoinedHasEnded  BY DEF ExecutionInv, Joining
<1> QED  BY <1>1, ExecutionInvariant, PTL

\* A flush that returned has submitted its whole buffer (JobBundling.flush).
THEOREM FlushSubmitsAll == Spec => []FlushedIsSubmitted
<1>1. ExecutionInv => FlushedIsSubmitted  BY DEF ExecutionInv, Flushes
<1> QED  BY <1>1, ExecutionInvariant, PTL

\* An interrupted flush cancels every job it has heard of (JobBundling.flush).
THEOREM InterruptsCancel == Spec => []InterruptCancels
<1>1. ExecutionInv => InterruptCancels  BY DEF ExecutionInv, Flushes
<1> QED  BY <1>1, ExecutionInvariant, PTL

----------------------------------------------------------------------------
(* The driver, the workers and SLURM implement RemoteCalls *)

\* What is not sbatch, the reading of a result file or a step of a worker moves
\* no call but into "called", and touches result files only to remove them all.
Aside ==
    /\ UNCHANGED <<real, got>>
    /\ called \subseteq called'
    /\ file' = file \/ \A t \in Tasks : file'[t] = None
    /\ pc' \in {"watch", "fetch"} =>
          got[job'] # "value" \/ (pc \in {"watch", "fetch"} /\ job' = job)

\* Every step is one of these.
LEMMA StepsAside ==
    ASSUME [Next]_vars
    PROVE  Sbatch \/ Fetch \/ Aside \/ \E j \in Jobs, t \in Tasks : Working(j, t)
<1> DEFINE Moves == Sbatch \/ Fetch \/ Aside \/ \E i \in Jobs, u \in Tasks : Working(i, u)
<1> USE DEF Aside, scriptVars, opVars, fileVars, driverVars, clusterVars, noteVars
<1>1. ASSUME NEW t \in Tasks, Buffer(t) PROVE Moves
  BY <1>1 DEF Buffer
<1>2. ASSUME NEW t \in Tasks, Distribute(t) PROVE Moves
  BY <1>2 DEF Distribute, Call, Enter, Goto
<1>3. ASSUME NEW t \in Tasks, Remote(t) PROVE Moves
  BY <1>3 DEF Remote, Call, Enter, Goto
<1>4. ASSUME NEW t \in Tasks, Cancel(t) PROVE Moves
  BY <1>4 DEF Cancel, Scancel
<1>5. ASSUME NEW ts \in SUBSET Tasks, RemoteBatch(ts) PROVE Moves
  BY <1>5 DEF RemoteBatch, Call, Enter, Goto
<1>6. CASE Sync
  BY <1>6 DEF Sync, Goto
<1>7. CASE Sbatch
  BY <1>7
<1>8. CASE Reply
  BY <1>8 DEF Reply, Goto
<1>9. CASE TrackCall
  BY <1>9 DEF TrackCall, Leave, Goto
<1>10. CASE TrackBatch
  BY <1>10 DEF TrackBatch, Leave, Goto
<1>11. CASE TrackChunk
  BY <1>11 DEF TrackChunk, Goto
<1>12. ASSUME NEW b \in Bundles, EnterBundle(b) PROVE Moves
  BY <1>12 DEF EnterBundle
<1>13. ASSUME NEW b \in Bundles, ExitBundle(b) PROVE Moves
  BY <1>13 DEF ExitBundle, Enter, Goto
<1>14. ASSUME NEW b \in Bundles, ExitRaising(b) PROVE Moves
  BY <1>14 DEF ExitRaising
<1>15. ASSUME NEW b \in Bundles, Flush(b) PROVE Moves
  BY <1>15 DEF Flush, Enter, Goto
<1>16. CASE NextChunk
  BY <1>16 DEF NextChunk, Goto
<1>17. CASE FlushEnds
  BY <1>17 DEF FlushEnds, Leave, Goto
<1>18. ASSUME NEW d \in Dispatchers, NEW global \in BOOLEAN, Join(d, global) PROVE Moves
  BY <1>18 DEF Join, Enter, Goto
<1>19. ASSUME NEW j \in Jobs, JoinPasses(j) PROVE Moves
  BY <1>19 DEF JoinPasses
<1>20. ASSUME NEW j \in Jobs, JoinWaits(j) PROVE Moves
  BY <1>20 DEF JoinWaits, Goto
<1>21. CASE JoinWaited
  BY <1>21 DEF JoinWaited, Goto
<1>22. CASE JoinReturns
  BY <1>22 DEF JoinReturns, Leave, Goto
<1>23. ASSUME NEW kind \in {"get", "getAll"}, NEW ts \in SUBSET Tasks, Get(kind, ts) PROVE Moves
  BY <1>23 DEF Get, Enter, Goto
<1>24. ASSUME NEW t \in Tasks, GetCached(t) PROVE Moves
  BY <1>24 DEF GetCached
<1>25. ASSUME NEW t \in Tasks, GetWaits(t) PROVE Moves
  BY <1>25 DEF GetWaits, Goto
<1>26. CASE GetFetches
  BY <1>26 DEF GetFetches, Goto
<1>27. CASE Fetch
  BY <1>27
<1>28. CASE GetReturns
  BY <1>28 DEF GetReturns, Leave, Goto
<1>29. CASE Fails
  BY <1>29 DEF Fails, Leave, Goto
<1>30. CASE InterruptFlush
  BY <1>30 DEF InterruptFlush, Leave, Scancel, Goto
<1>31. CASE InterruptJoin
  BY <1>31 DEF InterruptJoin, Leave, Scancel, Goto
<1>32. CASE InterruptGet
  BY <1>32 DEF InterruptGet, Leave, Scancel, Goto
<1>33. ASSUME NEW j \in Jobs, NEW t \in Tasks, Working(j, t) PROVE Moves
  BY <1>33
<1>34. CASE OthersSync
  BY <1>34 DEF OthersSync
<1>35. CASE UNCHANGED vars
  BY <1>35 DEF vars
<1> HIDE DEF Aside, scriptVars, opVars, fileVars, driverVars, clusterVars, noteVars
<1> QED
  BY <1>1, <1>2, <1>3, <1>4, <1>5, <1>6, <1>7, <1>8, <1>9, <1>10, <1>11, <1>12, <1>13,
       <1>14, <1>15, <1>16, <1>17, <1>18, <1>19, <1>20, <1>21, <1>22, <1>23, <1>24, <1>25, <1>26,
       <1>27, <1>28, <1>29, <1>30, <1>31, <1>32, <1>33, <1>34, <1>35
  DEF Next, Calling, Submits, Bundling, Joins, Gets, Interrupt, Workers, Working

\* How far a call has come, by the one job it is in.
LEMMA StageValues ==
    SubmittedOnce => \A t \in Tasks :
        /\ Unsubmitted(t) => Stage(t) = IF t \in called THEN "called" ELSE "uncalled"
        /\ \A j \in Jobs : real[j][t] # None =>
              Stage(t) = IF real[j][t] = "COMPLETED" THEN "completed"
                         ELSE IF real[j][t] \in Terminal THEN "failed" ELSE "submitted"
<1> SUFFICES ASSUME SubmittedOnce, NEW t \in Tasks
             PROVE  /\ Unsubmitted(t) => Stage(t) = IF t \in called THEN "called" ELSE "uncalled"
                    /\ \A j \in Jobs : real[j][t] # None =>
                          Stage(t) = IF real[j][t] = "COMPLETED" THEN "completed"
                                     ELSE IF real[j][t] \in Terminal THEN "failed"
                                     ELSE "submitted"
    OBVIOUS
<1> DEFINE phases == {real[j][t] : j \in Jobs} \ {None}
<1>1. Unsubmitted(t) => phases = {} BY DEF Unsubmitted
<1>2. \A j \in Jobs : real[j][t] # None => phases = {real[j][t]}
  BY DEF SubmittedOnce
<1>3. Stage(t) = IF "COMPLETED" \in phases THEN "completed"
                 ELSE IF phases \cap Terminal # {} THEN "failed"
                 ELSE IF phases # {} THEN "submitted"
                 ELSE IF t \in called THEN "called" ELSE "uncalled"
  BY DEF Stage
<1> HIDE DEF phases
<1> QED  BY <1>1, <1>2, <1>3

\* An answer is that of a call that has completed; no file appears after the news
\* that it is gone; and a Ref that is resolved is not read again.
Answered ==
    /\ \A t \in Tasks : got[t] # None => \E j \in Jobs : real[j][t] = "COMPLETED"
    /\ \A t \in Tasks : got[t] = "missing" => file[t] = None
    /\ pc \in {"watch", "fetch"} => got[job] # "value"

\* The reading of a result file: once more without one, or for the first time.
LEMMA FetchAnswers ==
    ASSUME Types, Files, Answered, Fetch
    PROVE  /\ job \in Tasks /\ real[ref[job]][job] = "COMPLETED" /\ ref[job] \in Jobs
           /\ UNCHANGED <<real, called, file>> /\ pc' \notin {"watch", "fetch"}
           /\ \/ got' = got
              \/ /\ got[job] = None
                 /\ \/ got' = [got EXCEPT ![job] = "value"]
                    \/ got' = [got EXCEPT ![job] = "missing"] /\ file[job] = None
<1>1. pc = "fetch" /\ job \in left /\ got' = [got EXCEPT ![job] = Fetched]
  BY DEF Fetch, Types, Placed
<1>2. job \in Tasks /\ ref[job] \in Jobs /\ real[ref[job]][job] = "COMPLETED"
  BY <1>1 DEF Types, Placed, Getting, Files
<1>3. ref[job] \in collect
  BY <1>2, NamesAssumption DEF Files
<1>4. file[job] \in {None, "ok"}
  BY <1>2, <1>3 DEF Files
<1>5. \/ Fetched = "value" /\ file[job] = "ok"
      \/ Fetched = "missing" /\ file[job] = None
  BY <1>4, NoneAssumption DEF Fetched
<1>6. got \in [Tasks -> {None, "value", "missing", "garbled"}] /\ got[job] \in {None, "missing"}
  BY <1>1, <1>2 DEF Types, TypeOK, Answered, Files, GetIsTruthful
<1>7. got[job] = "missing" => file[job] = None
  BY <1>2 DEF Answered
<1>8. UNCHANGED <<real, called, file>> /\ pc' \notin {"watch", "fetch"}
  BY DEF Fetch, Leave, Goto, scriptVars, clusterVars, fileVars
<1>9. CASE got[job] = None
  BY <1>1, <1>2, <1>5, <1>8, <1>9
<1>10. CASE got[job] = "missing"
  <2>1. Fetched = "missing"  BY <1>5, <1>7, <1>10, NoneAssumption
  <2>2. got' = got  BY <1>1, <1>2, <1>6, <1>10, <2>1
  <2> QED  BY <1>2, <1>8, <2>2
<1> QED  BY <1>6, <1>9, <1>10

\* A worker's step, for the one call it is about.
LEMMA WorkingChanges ==
    ASSUME Types, Types', Once, NEW j \in Jobs, NEW t \in Tasks, Working(j, t)
    PROVE  /\ UNCHANGED <<called, got, pc, job>>
           /\ real[j][t] \in {"PENDING", "RUNNING", "SAVING"}
           /\ real'[j][t] \in Phases
           /\ \A i \in Jobs, u \in Tasks : i # j \/ u # t => real'[i][u] = real[i][u]
           /\ \A u \in Tasks \ {t} : file'[u] = file[u]
           /\ \A i \in Jobs : real[i][t] # "COMPLETED"
<1>1. Works(j, t) /\ UNCHANGED <<called, got, pc, job>>
  BY WorkersWork DEF scriptVars, opVars, driverVars
<1>2. PICK phase \in Phases \ {"PENDING"} : Set(j, t, phase)
  BY <1>1 DEF Works
<1>3. /\ real'[j][t] = phase
      /\ \A i \in Jobs, u \in Tasks : i # j \/ u # t => real'[i][u] = real[i][u]
  BY <1>2 DEF Set, Types, TypeOK
<1>4. \A u \in Tasks \ {t} : file'[u] = file[u]
  BY DEF Working, Start, Run, Save, Saved, Kill, fileVars, Types, TypeOK
<1>5. real[j][t] \in {"PENDING", "RUNNING", "SAVING"}  BY <1>1 DEF Works
<1>6. \A i \in Jobs : real[i][t] # "COMPLETED"
  BY <1>5, NoneAssumption DEF Once, SubmittedOnce, Phases, Terminal
<1> QED  BY <1>1, <1>2, <1>3, <1>4, <1>5, <1>6

\* Every step keeps the answers.
LEMMA AnsweredKept ==
    ASSUME Types, Types', Once, Files, Answered, [Next]_vars
    PROVE  Answered'
<1>1. CASE Sbatch
  <2>1. UNCHANGED <<got, file>> /\ pc' = "reply"
    BY <1>1 DEF Sbatch, Goto, fileVars, driverVars
  <2>2. PICK i \in Jobs \ Submitted : \A j \in Jobs \ {i} : real'[j] = real[j]
    BY <1>1 DEF Sbatch, Types, TypeOK
  <2>3. \A t \in Tasks : real[i][t] = None  BY <2>2 DEF Submitted, Calls
  <2>4. \A j \in Jobs, t \in Tasks : real[j][t] = "COMPLETED" => real'[j][t] = "COMPLETED"
    BY <2>2, <2>3, NoneAssumption DEF Phases, Terminal
  <2> QED  BY <2>1, <2>4 DEF Answered
<1>2. CASE Fetch
  BY <1>2, FetchAnswers, NoneAssumption DEF Answered, Types, TypeOK
<1>3. CASE Aside
  <2>1. \A t \in Tasks : file[t] = None => file'[t] = None  BY <1>3 DEF Aside
  <2> QED  BY <1>3, <2>1 DEF Answered, Aside
<1>4. ASSUME NEW j \in Jobs, NEW t \in Tasks, Working(j, t) PROVE Answered'
  <2>1. got[t] = None  BY <1>4, WorkingChanges DEF Answered
  <2>2. \A u \in Tasks \ {t} :
            /\ file'[u] = file[u]
            /\ \A i \in Jobs : real'[i][u] = real[i][u]
    BY <1>4, WorkingChanges
  <2>3. UNCHANGED <<got, pc, job>>  BY <1>4, WorkingChanges
  <2>4. None # "missing"  BY NoneAssumption
  <2> QED  BY <2>1, <2>2, <2>3, <2>4 DEF Answered
<1> QED  BY <1>1, <1>2, <1>3, <1>4, StepsAside

\* Every step is one of RemoteCalls, or does not show.
LEMMA StepImplements ==
    ASSUME Types, Types', Once, Once', Files, Answered, [Next]_vars
    PROVE  [Promise!Next]_(Promise!vars)
<1> USE DEF StageBar
<1>0. SubmittedOnce /\ SubmittedOnce'  BY DEF Once
<1>1. \A t \in Tasks :
          /\ Unsubmitted(t) => Stage(t) = IF t \in called THEN "called" ELSE "uncalled"
          /\ \A j \in Jobs : real[j][t] # None =>
                Stage(t) = IF real[j][t] = "COMPLETED" THEN "completed"
                           ELSE IF real[j][t] \in Terminal THEN "failed" ELSE "submitted"
  BY <1>0, StageValues
<1>2. \A t \in Tasks :
          /\ Unsubmitted(t)' => Stage(t)' = IF t \in called' THEN "called" ELSE "uncalled"
          /\ \A j \in Jobs : real'[j][t] # None =>
                Stage(t)' = IF real'[j][t] = "COMPLETED" THEN "completed"
                            ELSE IF real'[j][t] \in Terminal THEN "failed" ELSE "submitted"
  <2>1. (SubmittedOnce => \A t \in Tasks :
           /\ Unsubmitted(t) => Stage(t) = IF t \in called THEN "called" ELSE "uncalled"
           /\ \A j \in Jobs : real[j][t] # None =>
                 Stage(t) = IF real[j][t] = "COMPLETED" THEN "completed"
                            ELSE IF real[j][t] \in Terminal THEN "failed" ELSE "submitted")'
    BY StageValues, PTL
  <2> QED  BY <1>0, <2>1
<1>3. CASE Sbatch
  <2>1. PICK i \in Jobs \ Submitted :
            real' = [real EXCEPT ![i] = [t \in Tasks |-> IF t \in chunk THEN "PENDING" ELSE None]]
    BY <1>3 DEF Sbatch
  <2>2. /\ UNCHANGED <<called, got>> /\ chunk \subseteq called
        /\ \A t \in chunk : Unsubmitted(t)
    BY <1>3 DEF Sbatch, Once, Submitting, scriptVars, driverVars
  <2>3. chunk \subseteq Tasks /\ i \in Jobs /\ \A t \in Tasks : real[i][t] = None
    BY <2>1 DEF Types, TypeOK, Submitted, Calls
  <2>4. \A j \in Jobs, t \in Tasks :
            real'[j][t] = IF j = i /\ t \in chunk THEN "PENDING" ELSE real[j][t]
    BY <2>1, <2>3 DEF Types, TypeOK
  <2>5. \A t \in chunk : Stage(t) = "called" /\ Stage(t)' = "submitted"
    <3>1. \A t \in chunk : Stage(t) = "called"  BY <1>1, <2>2, <2>3
    <3>2. \A t \in chunk : real'[i][t] = "PENDING"  BY <2>3, <2>4
    <3> QED  BY <1>2, <2>3, <3>1, <3>2, NoneAssumption DEF Phases, Terminal
  <2>6. \A t \in Tasks \ chunk : Stage(t)' = Stage(t)
    BY <2>2, <2>4 DEF Stage
  <2>7. Promise!Submit(chunk)
    BY <2>2, <2>3, <2>5, <2>6 DEF Promise!Submit, Promise!Move
  <2> QED  BY <2>3, <2>7 DEF Promise!Next
<1>4. CASE Fetch
  <2>1. /\ job \in Tasks /\ real[ref[job]][job] = "COMPLETED" /\ ref[job] \in Jobs
        /\ UNCHANGED <<real, called>>
        /\ \/ got' = got
           \/ /\ got[job] = None
              /\ \E a \in {"value", "missing"} : got' = [got EXCEPT ![job] = a]
    BY <1>4, FetchAnswers
  <2>2. StageBar' = StageBar  BY <2>1 DEF Stage
  <2>3. Stage(job) = "completed"
    BY <1>1, <2>1, NoneAssumption DEF Phases, Terminal
  <2>4. CASE got' = got  BY <2>2, <2>4 DEF Promise!vars
  <2>5. CASE got' # got
    <3>1. Promise!Answer(job)  BY <2>1, <2>2, <2>3, <2>5 DEF Promise!Answer
    <3> QED  BY <2>1, <3>1 DEF Promise!Next
  <2> QED  BY <2>4, <2>5
<1>5. CASE Aside
  <2> DEFINE new == called' \ called
  <2>1. UNCHANGED <<real, got>> /\ called \subseteq called'  BY <1>5 DEF Aside
  <2>2. new \subseteq Tasks /\ \A t \in new : Unsubmitted(t) /\ Unsubmitted(t)'
    BY <2>1 DEF Types, TypeOK, Once, Unsubmitted
  <2>3. \A t \in new : Stage(t) = "uncalled" /\ Stage(t)' = "called"
    BY <1>1, <1>2, <2>2
  <2>4. \A t \in Tasks \ new : t \in called <=> t \in called'  BY <2>1
  <2>5. \A t \in Tasks \ new : Stage(t)' = Stage(t)  BY <2>1, <2>4 DEF Stage
  <2> HIDE DEF new
  <2>6. Promise!Call(new)
    BY <2>1, <2>2, <2>3, <2>5 DEF Promise!Call, Promise!Move
  <2> QED  BY <2>2, <2>6 DEF Promise!Next
<1>6. ASSUME NEW j \in Jobs, NEW t \in Tasks, Working(j, t) PROVE [Promise!Next]_(Promise!vars)
  <2>1. /\ UNCHANGED <<called, got>>
        /\ real[j][t] \in {"PENDING", "RUNNING", "SAVING"} /\ real'[j][t] \in Phases
        /\ \A u \in Tasks \ {t}, i \in Jobs : real'[i][u] = real[i][u]
    BY <1>6, WorkingChanges
  <2>2. ASSUME NEW u \in Tasks \ {t} PROVE Stage(u)' = Stage(u)
    <3>1. {real'[i][u] : i \in Jobs} = {real[i][u] : i \in Jobs}  BY <2>1
    <3> QED  BY <2>1, <3>1 DEF Stage
  <2>3. real[j][t] # None /\ real'[j][t] # None  BY <2>1, NoneAssumption DEF Phases
  <2>4. Stage(t) = "submitted"  BY <1>1, <2>1, <2>3 DEF Terminal
  <2>5. Stage(t)' \in {"submitted", "completed", "failed"}  BY <1>2, <2>3
  <2>6. CASE Stage(t)' = "submitted"
    <3>1. StageBar' = StageBar  BY <2>2, <2>4, <2>6
    <3> QED  BY <2>1, <3>1 DEF Promise!vars
  <2>7. CASE Stage(t)' \in {"completed", "failed"}
    <3>1. Promise!End(t)
      BY <2>1, <2>2, <2>4, <2>7 DEF Promise!End, Promise!Move
    <3> QED  BY <3>1 DEF Promise!Next
  <2> QED  BY <2>5, <2>6, <2>7
<1> QED  BY <1>3, <1>4, <1>5, <1>6, StepsAside

\* Whatever fails, is interrupted, synced away or tried again (task.py,
\* dispatcher.py, worker.py), a call of a remote function is submitted at most
\* once, ends at most once and has one answer, that of a call that completed.
THEOREM CallsKeepTheirPromise == Spec => ImplementsRemoteCalls
<1>1. Init => Promise!Init /\ Answered
  <2> SUFFICES ASSUME Init PROVE Promise!Init /\ Answered
    OBVIOUS
  <2>1. \A t \in Tasks : Unsubmitted(t) /\ t \notin called /\ got[t] = None
    BY DEF Init, Unsubmitted
  <2>2. SubmittedOnce  BY <2>1 DEF Unsubmitted, SubmittedOnce
  <2>3. \A t \in Tasks : Stage(t) = "uncalled"  BY <2>1, <2>2, StageValues
  <2> QED  BY <2>3, NoneAssumption DEF Init, Promise!Init, StageBar, Answered
<1>2. ExecutionInv /\ ExecutionInv' /\ Answered /\ [Next]_vars
      => Answered' /\ [Promise!Next]_(Promise!vars)
  BY AnsweredKept, StepImplements DEF ExecutionInv
<1> QED  BY <1>1, <1>2, ExecutionInvariant, PTL DEF Spec, ImplementsRemoteCalls, Promise!Spec
============================================================================
