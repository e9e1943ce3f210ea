-------------------------- MODULE SubmissionProofs --------------------------
(***************************************************************************)
(* Proofs about Submission for every set of clients, jobs, versions and     *)
(* hashes, and every assignment of calls to clients.                        *)
(***************************************************************************)
EXTENDS Submission, TLAPS

----------------------------------------------------------------------------
(* Lemmas about the operations of the store *)

\* append_job adds one record, and each entry afterwards is the new job's or
\* an old one, unless it was pruned.
LEMMA AppendFacts ==
    ASSUME NEW c \in Content, NEW j \in Jobs, NEW h \in Hashes \cup {None}, NEW old \in SUBSET Jobs
    PROVE  LET new == AppendJob(c, j, h, old)
           IN  /\ new \in Content
               /\ new.jobs = [c.jobs EXCEPT ![j] = "PENDING"]
               /\ \A g \in Hashes :
                     LET entry == IF g = h THEN j ELSE c.idem[g]
                     IN  new.idem[g] = IF entry \in old THEN None ELSE entry
<1> DEFINE idem == IF h = None THEN c.idem ELSE [c.idem EXCEPT ![h] = j]
           new  == AppendJob(c, j, h, old)
<1>1. c.jobs \in [Jobs -> JobStatus \cup {None}] /\ c.idem \in [Hashes -> Jobs \cup {None}]
  BY DEF Content, JobTable
<1>2. None \notin Hashes
  BY NoneAssumption
<1>3. /\ idem \in [Hashes -> Jobs \cup {None}]
      /\ \A g \in Hashes : idem[g] = IF g = h THEN j ELSE c.idem[g]
  BY <1>1, <1>2
<1>4. new.jobs = [c.jobs EXCEPT ![j] = "PENDING"]
  BY DEF AppendJob
<1>5. new.idem = [g \in Hashes |-> IF idem[g] \in old THEN None ELSE idem[g]]
  BY DEF AppendJob, PruneIdempotency
<1>6. new \in Content
  <2>1. new.jobs \in JobTable
    BY <1>1, <1>4 DEF JobTable, JobStatus
  <2>2. new.idem \in [Hashes -> Jobs \cup {None}]
    BY <1>3, <1>5
  <2> QED BY <2>1, <2>2 DEF Content, AppendJob
<1> QED BY <1>3, <1>4, <1>5, <1>6

\* update_job_status changes one status and no entry.
LEMMA UpdateFacts ==
    ASSUME NEW c \in Content, NEW j \in Jobs, NEW s \in JobStatus, c.jobs[j] # None
    PROVE  /\ UpdateStatus(c, j, s) \in Content
           /\ UpdateStatus(c, j, s).jobs = [c.jobs EXCEPT ![j] = s]
           /\ UpdateStatus(c, j, s).idem = c.idem
  BY DEF UpdateStatus, Content, JobTable

\* The test finds a job exactly when the entry is young and its record PENDING.
LEMMA CheckFacts ==
    ASSUME NEW c \in Content, NEW h \in Hashes, NEW old
    PROVE  /\ CheckIdempotency(c, h, old) \in Jobs \cup {None}
           /\ CheckIdempotency(c, h, old) # None => CheckIdempotency(c, h, old) = c.idem[h]
           /\ (c.idem[h] # None /\ c.idem[h] \notin old /\ c.jobs[c.idem[h]] = "PENDING")
                 => CheckIdempotency(c, h, old) = c.idem[h]
  BY DEF CheckIdempotency, Content

\* The calls a client may make are call records.
LEMMA CallType ==
    ASSUME NEW c \in Clients, NEW k \in Calls[c]
    PROVE  k \in CallRecords /\ k # NoCall /\ k.version \in Versions /\ k.hash \in Hashes
  BY CallsAssumption, CallRecordsAssumption DEF CallRecords, NoCall

----------------------------------------------------------------------------
(* Type correctness, and what the place of a client says of its variables *)

InHand == {"snapshot", "append"}

\* A client in a call has its parameters; a job that sbatch accepted for it is
\* on the cluster, its own, and not recorded yet.
CallsMatch ==
    \A c \in Clients :
        /\ pc[c] \notin Resting => call[c] \in CallRecords
        /\ pc[c] = "building" => lock[c] \in Versions
        /\ pc[c] \in InHand =>
              /\ job[c] \in Jobs
              /\ cluster[job[c]] # None
              /\ submission[job[c]] = call[c]
              /\ store.jobs[job[c]] = None
        /\ pc[c] = "snapshot" => snap[job[c]] = None /\ ran[job[c]] = None

HandsApart ==
    \A c, d \in Clients : c # d /\ pc[c] \in InHand /\ pc[d] \in InHand => job[c] # job[d]

\* Records, snapshots and starts belong to jobs that were submitted.
JobsMatch ==
    \A j \in Jobs :
        /\ cluster[j] = None => /\ store.jobs[j] = None
                                /\ snap[j] = None
                                /\ ran[j] = None
        /\ cluster[j] # None => submission[j] \in CallRecords
        /\ cluster[j] = "PENDING" => store.jobs[j] \in {None, "PENDING"}
        /\ j \in alone => store.jobs[j] # None

Matching == TypeOK /\ CallsMatch /\ HandsApart /\ JobsMatch

\* The parts of Matching hold at the start.
LEMMA MatchingInit == Init => Matching
<1> SUFFICES ASSUME Init PROVE Matching
  OBVIOUS
<1>1. Empty \in Content
  BY DEF Empty, Content, JobTable
<1>2. TypeOK
  BY <1>1 DEF Init, TypeOK, Labels, Resting
<1>3. CallsMatch /\ HandsApart
  BY DEF Init, CallsMatch, HandsApart, InHand, Resting
<1>4. JobsMatch
  BY DEF Init, JobsMatch, Empty
<1> QED BY <1>2, <1>3, <1>4 DEF Matching

\* Matching is kept by a call that begins,
LEMMA EnterMatches ==
    ASSUME Matching, NEW c \in Clients, NEW k \in Calls[c], pc[c] \in Resting, Enter(c, k)
    PROVE  Matching'
<1> USE DEF Matching, Enter, Goto, storeVars, clusterVars, remoteVars
<1>1. k \in CallRecords
  BY CallType
<1>2. TypeOK'
  BY <1>1 DEF TypeOK, Labels, Resting, NoteOverlap, InProgress
<1>3. CallsMatch' /\ HandsApart'
  BY <1>1 DEF TypeOK, CallsMatch, HandsApart, InHand, Resting
<1>4. JobsMatch'
  BY DEF JobsMatch
<1> QED BY <1>2, <1>3, <1>4

\* A client between the duplicate test and sbatch moves on; the remote
\* directory and the environment may change.
LEMMA PrepareMatches ==
    ASSUME Matching, NEW c \in Clients,
           SyncBegins(c) \/ SyncFinishes(c) \/ VenvCurrent(c) \/ VenvBuildBegins(c)
              \/ VenvBuildFinishes(c)
    PROVE  Matching'
<1> USE DEF Matching, Goto, storeVars, clusterVars, remoteVars
<1>1. call[c].version \in Versions \/ pc[c] \in Resting
  BY DEF CallsMatch, CallRecords
<1>2. CASE SyncBegins(c)
  <2>1. TypeOK'
    BY <1>1, <1>2 DEF SyncBegins, TypeOK, Labels, Resting
  <2>2. CallsMatch' /\ HandsApart'
    BY <1>2 DEF SyncBegins, TypeOK, CallsMatch, HandsApart, InHand, Resting
  <2>3. JobsMatch'
    BY <1>2 DEF SyncBegins, JobsMatch
  <2> QED BY <2>1, <2>2, <2>3
<1>3. CASE SyncFinishes(c)
  <2>1. tree' \in SUBSET Versions
    BY <1>1, <1>3 DEF SyncFinishes, TypeOK, Resting
  <2>2. TypeOK'
    BY <1>3, <2>1 DEF SyncFinishes, TypeOK, Labels, Resting
  <2>3. CallsMatch' /\ HandsApart'
    BY <1>3 DEF SyncFinishes, TypeOK, CallsMatch, HandsApart, InHand, Resting
  <2>4. JobsMatch'
    BY <1>3 DEF SyncFinishes, JobsMatch
  <2> QED BY <2>2, <2>3, <2>4
<1>4. CASE VenvCurrent(c)
  <2>1. TypeOK'
    BY <1>4 DEF VenvCurrent, TypeOK, Labels, Resting
  <2>2. CallsMatch' /\ HandsApart'
    BY <1>4 DEF VenvCurrent, TypeOK, CallsMatch, HandsApart, InHand, Resting
  <2>3. JobsMatch'
    BY <1>4 DEF VenvCurrent, JobsMatch
  <2> QED BY <2>1, <2>2, <2>3
<1>5. CASE VenvBuildBegins(c)
  <2>1. PICK v \in tree \ {marker} : lock' = [lock EXCEPT ![c] = v] /\ venv' = venv \cup {v}
    BY <1>5 DEF VenvBuildBegins
  <2>2. v \in Versions
    BY <2>1 DEF TypeOK
  <2>3. TypeOK'
    BY <1>5, <2>1, <2>2 DEF VenvBuildBegins, TypeOK, Labels, Resting
  <2>4. CallsMatch' /\ HandsApart'
    BY <1>5, <2>1, <2>2 DEF VenvBuildBegins, TypeOK, CallsMatch, HandsApart, InHand, Resting
  <2>5. JobsMatch'
    BY <1>5 DEF VenvBuildBegins, JobsMatch
  <2> QED BY <2>3, <2>4, <2>5
<1>6. CASE VenvBuildFinishes(c)
  <2>1. lock[c] \in Versions
    BY <1>6 DEF VenvBuildFinishes, CallsMatch
  <2>2. venv' \in SUBSET Versions
    BY <1>6, <2>1 DEF VenvBuildFinishes, TypeOK
  <2>3. TypeOK'
    BY <1>6, <2>1, <2>2 DEF VenvBuildFinishes, TypeOK, Labels, Resting
  <2>4. CallsMatch' /\ HandsApart'
    BY <1>6 DEF VenvBuildFinishes, TypeOK, CallsMatch, HandsApart, InHand, Resting
  <2>5. JobsMatch'
    BY <1>6 DEF VenvBuildFinishes, JobsMatch
  <2> QED BY <2>3, <2>4, <2>5
<1> QED BY <1>2, <1>3, <1>4, <1>5, <1>6

\* by sbatch,
LEMMA SbatchMatches ==
    ASSUME Matching, NEW c \in Clients, Sbatch(c)
    PROVE  Matching'
<1> USE DEF Matching, Goto, storeVars, remoteVars
<1>1. PICK j \in Jobs : /\ cluster[j] = None
                        /\ cluster' = [cluster EXCEPT ![j] = "PENDING"]
                        /\ submission' = [submission EXCEPT ![j] = call[c]]
                        /\ job' = [job EXCEPT ![c] = j]
  BY DEF Sbatch
<1>2. pc[c] = "sbatch" /\ call[c] \in CallRecords
  BY DEF Sbatch, CallsMatch, Resting
<1>3. TypeOK'
  BY <1>1, <1>2 DEF Sbatch, TypeOK, Labels, Resting
<1>4. "PENDING" # None
  BY NoneAssumption DEF JobStatus
<1>5. CallsMatch'
  BY <1>1, <1>2, <1>4 DEF Sbatch, TypeOK, CallsMatch, JobsMatch, InHand, Resting
<1>6. HandsApart'
  BY <1>1, <1>2 DEF Sbatch, TypeOK, CallsMatch, HandsApart, InHand
<1>7. JobsMatch'
  BY <1>1, <1>2, <1>4 DEF Sbatch, TypeOK, JobsMatch
<1> QED BY <1>3, <1>5, <1>6, <1>7

\* Leaving the call, with the snapshot of the job in hand changed or not.
LEMMA ForgetMatches ==
    ASSUME Matching, NEW c \in Clients, SnapshotFails(c) \/ Fail(c)
    PROVE  Matching'
<1> USE DEF Matching, Leave, Goto, storeVars, clusterVars, remoteVars
<1>1. /\ snap' \in [Jobs -> (SUBSET Versions) \cup {None}]
      /\ \A j \in Jobs : cluster[j] = None => snap'[j] = snap[j]
      /\ \A d \in Clients \ {c} : pc[d] = "snapshot" => snap'[job[d]] = snap[job[d]]
  BY DEF SnapshotFails, Fail, TypeOK, CallsMatch, HandsApart, InHand
<1>2. UNCHANGED <<storeVars, clusterVars, tree, venv, marker>> /\ Leave(c)
  BY DEF SnapshotFails, Fail
<1>3. TypeOK'
  BY <1>1, <1>2 DEF TypeOK, Labels, Resting, NoCall
<1>4. CallsMatch'
  BY <1>1, <1>2 DEF TypeOK, CallsMatch, InHand, Resting
<1>5. HandsApart'
  BY <1>2 DEF TypeOK, HandsApart, InHand
<1>6. JobsMatch'
  BY <1>1, <1>2 DEF JobsMatch
<1> QED BY <1>3, <1>4, <1>5, <1>6

\* by the snapshot,
LEMMA SnapshotMatches ==
    ASSUME Matching, NEW c \in Clients, TakeSnapshot(c)
    PROVE  Matching'
<1> USE DEF Matching, Goto, storeVars, clusterVars
<1>1. PICK files \in {tree, {}} : snap' = [snap EXCEPT ![job[c]] = files]
  BY DEF TakeSnapshot
<1>2. files \in SUBSET Versions
  BY <1>1 DEF TypeOK
<1>3. TypeOK'
  BY <1>1, <1>2 DEF TakeSnapshot, TypeOK, Labels, Resting
<1>4. CallsMatch'
  BY <1>1 DEF TakeSnapshot, TypeOK, CallsMatch, HandsApart, InHand, Resting
<1>5. HandsApart'
  BY DEF TakeSnapshot, TypeOK, HandsApart, InHand
<1>6. JobsMatch'
  BY <1>1 DEF TakeSnapshot, TypeOK, CallsMatch, JobsMatch, InHand
<1> QED BY <1>3, <1>4, <1>5, <1>6

\* What append_job makes of the store when c records its job.
LEMMA AppendEffect ==
    ASSUME Matching, NEW c \in Clients, Append(c)
    PROVE  /\ pc[c] = "append" /\ job[c] \in Jobs /\ call[c] \in CallRecords
           /\ submission[job[c]] = call[c] /\ cluster[job[c]] # None
           /\ store.jobs[job[c]] = None
           /\ store' \in Content
           /\ store'.jobs = [store.jobs EXCEPT ![job[c]] = "PENDING"]
           /\ \A g \in Hashes :
                 LET new   == call[c].kind = "submit" /\ call[c].hash = g
                     entry == IF new THEN job[c] ELSE store.idem[g]
                 IN  store'.idem[g] = IF entry \in aged THEN None ELSE entry
<1>1. /\ pc[c] = "append" /\ job[c] \in Jobs /\ call[c] \in CallRecords
      /\ submission[job[c]] = call[c] /\ cluster[job[c]] # None
      /\ store.jobs[job[c]] = None
  BY DEF Append, Matching, CallsMatch, InHand, Resting
<1> DEFINE h == IF call[c].kind = "submit" THEN call[c].hash ELSE None
<1>2. h \in Hashes \cup {None} /\ store \in Content /\ aged \in SUBSET Jobs
  BY <1>1 DEF CallRecords, Matching, TypeOK
<1>3. store' = AppendJob(store, job[c], h, aged)
  BY DEF Append
<1>4. \A g \in Hashes : (g = h) <=> (call[c].kind = "submit" /\ call[c].hash = g)
  BY NoneAssumption
<1> HIDE DEF h
<1>5. /\ store' \in Content
      /\ store'.jobs = [store.jobs EXCEPT ![job[c]] = "PENDING"]
      /\ \A g \in Hashes :
            LET entry == IF g = h THEN job[c] ELSE store.idem[g]
            IN  store'.idem[g] = IF entry \in aged THEN None ELSE entry
  BY <1>1, <1>2, <1>3, AppendFacts
<1> QED BY <1>1, <1>4, <1>5

\* by the record,
LEMMA AppendMatches ==
    ASSUME Matching, NEW c \in Clients, Append(c)
    PROVE  Matching'
<1>1. /\ pc[c] = "append" /\ job[c] \in Jobs /\ cluster[job[c]] # None
      /\ store' \in Content
      /\ store'.jobs = [store.jobs EXCEPT ![job[c]] = "PENDING"]
  BY AppendEffect
<1>2. store.jobs \in [Jobs -> JobStatus \cup {None}]
  BY DEF Matching, TypeOK, Content, JobTable
<1>3. "PENDING" # None
  BY NoneAssumption DEF JobStatus
<1> USE DEF Matching, Leave, Goto, clusterVars, remoteVars
<1>4. alone' \subseteq alone \cup {job[c]} /\ Leave(c) /\ UNCHANGED <<aged, clusterVars, remoteVars>>
  BY DEF Append
<1>5. TypeOK'
  BY <1>1, <1>4 DEF TypeOK, Labels, Resting, NoCall
<1>6. CallsMatch'
  BY <1>1, <1>2, <1>4 DEF TypeOK, CallsMatch, HandsApart, InHand, Resting
<1>7. HandsApart'
  BY <1>4 DEF TypeOK, HandsApart, InHand
<1>8. JobsMatch'
  BY <1>1, <1>2, <1>3, <1>4 DEF TypeOK, JobsMatch
<1> QED BY <1>5, <1>6, <1>7, <1>8

\* by a refusal,
LEMMA RefuseMatches ==
    ASSUME Matching, NEW c \in Clients, NEW k \in Calls[c], Refuse(c, k)
    PROVE  Matching'
<1> USE DEF Matching, Refuse, Goto, storeVars, clusterVars, remoteVars
<1>1. k \in CallRecords /\ k.hash \in Hashes
  BY CallType
<1>2. CheckIdempotency(store, k.hash, aged) \in Jobs \cup {None}
  BY <1>1, CheckFacts DEF TypeOK
<1>3. TypeOK'
  BY <1>1, <1>2 DEF TypeOK, Labels, Resting
<1>4. CallsMatch' /\ HandsApart'
  BY DEF TypeOK, CallsMatch, HandsApart, InHand, Resting
<1>5. JobsMatch'
  BY DEF JobsMatch
<1> QED BY <1>3, <1>4, <1>5

\* by a job that starts,
LEMMA BeginMatches ==
    ASSUME Matching, NEW j \in Jobs, Begin(j)
    PROVE  Matching'
<1> USE DEF Matching, Begin, storeVars, remoteVars
<1>1. SnapshotOf(j) \in {snap[j], None}
  BY DEF SnapshotOf
<1>2. "RUNNING" # None /\ "RUNNING" # "PENDING" /\ "PENDING" # None
  BY NoneAssumption DEF JobStatus
<1>3. TypeOK'
  BY <1>1 DEF TypeOK
<1>4. CallsMatch'
  BY <1>1, <1>2 DEF TypeOK, CallsMatch, InHand
<1>5. HandsApart'
  BY DEF HandsApart
<1>6. JobsMatch'
  BY <1>1, <1>2 DEF TypeOK, JobsMatch
<1> QED BY <1>3, <1>4, <1>5, <1>6

\* A record follows the cluster: a job that waits is recorded as waiting.
LEMMA TrackEffect ==
    ASSUME Matching, NEW j \in Jobs, Track(j)
    PROVE  /\ store.jobs[j] # None
           /\ store' \in Content
           /\ store'.idem = store.idem
           /\ \E s \in {"PENDING", cluster[j]} :
                 s # None /\ store'.jobs = [store.jobs EXCEPT ![j] = s]
<1>1. store \in Content /\ store.jobs[j] # None /\ cluster[j] \in {"PENDING", "RUNNING"}
  BY DEF Track, Matching, TypeOK, JobsMatch
<1>2. PICK s \in {"PENDING", cluster[j]} : store' = UpdateStatus(store, j, s)
  BY DEF Track
<1>3. s \in JobStatus /\ s # None
  BY <1>1, NoneAssumption DEF JobStatus
<1> QED BY <1>1, <1>2, <1>3, UpdateFacts

\* by a status that is recorded,
LEMMA TrackMatches ==
    ASSUME Matching, NEW j \in Jobs, Track(j)
    PROVE  Matching'
<1>1. PICK s \in {"PENDING", cluster[j]} :
         s # None /\ store'.jobs = [store.jobs EXCEPT ![j] = s]
  BY TrackEffect
<1>2. store.jobs[j] # None /\ store' \in Content
  BY TrackEffect
<1>3. UNCHANGED <<aged, alone, clusterVars, remoteVars, pc, call, job, lock, overlapped>>
  BY DEF Track
<1>4. store.jobs \in [Jobs -> JobStatus \cup {None}]
  BY DEF Matching, TypeOK, Content, JobTable
<1> USE DEF Matching, clusterVars, remoteVars
<1>5. TypeOK'
  BY <1>2, <1>3 DEF TypeOK
<1>6. CallsMatch' /\ HandsApart'
  BY <1>1, <1>2, <1>3, <1>4 DEF CallsMatch, HandsApart, InHand
<1>7. JobsMatch'
  BY <1>1, <1>2, <1>3, <1>4 DEF TypeOK, JobsMatch
<1> QED BY <1>5, <1>6, <1>7

\* and by time that passes.
LEMMA AgeMatches ==
    ASSUME Matching, NEW j \in Jobs, Age(j)
    PROVE  Matching'
  BY DEF Matching, Age, TypeOK, CallsMatch, HandsApart, JobsMatch, clusterVars, remoteVars

\* Every step keeps Matching.
LEMMA MatchingStep == Matching /\ [Next]_vars => Matching'
<1> SUFFICES ASSUME Matching, [Next]_vars PROVE Matching'
  OBVIOUS
<1>1. ASSUME NEW c \in Clients, NEW k \in Calls[c], Submit(c, k) \/ SubmitArray(c, k)
      PROVE  Matching'
  BY <1>1, EnterMatches DEF Submit, SubmitArray
<1>2. ASSUME NEW c \in Clients, ClientNext(c)
      PROVE  Matching'
  BY <1>1, <1>2, RefuseMatches, PrepareMatches, SbatchMatches, SnapshotMatches,
     ForgetMatches, AppendMatches DEF ClientNext
<1>3. ASSUME NEW j \in Jobs, Begin(j) \/ Track(j) \/ Age(j)
      PROVE  Matching'
  BY <1>3, BeginMatches, TrackMatches, AgeMatches
<1>4. CASE UNCHANGED vars
  BY <1>4 DEF Matching, TypeOK, CallsMatch, HandsApart, JobsMatch, vars, storeVars,
              clusterVars, remoteVars
<1> QED BY <1>2, <1>3, <1>4 DEF Next

\* The submission state is well typed, and what each client holds agrees with
\* where it is: a job in its hands is its own, on the cluster and unrecorded.
THEOREM TypeCorrect == Spec => [](TypeOK /\ CallsMatch /\ HandsApart /\ JobsMatch)
<1>1. Matching <=> TypeOK /\ CallsMatch /\ HandsApart /\ JobsMatch
  BY DEF Matching
<1> QED BY <1>1, MatchingInit, MatchingStep, PTL DEF Spec

----------------------------------------------------------------------------
(* What every step keeps *)

\* A step of client c: it enters a call, is refused, records its job, leaves,
\* or moves on inside the call; other clients stay where they are.
LEMMA ClientStep ==
    ASSUME Matching, NEW c \in Clients, ClientNext(c)
    PROVE  /\ \A d \in Clients \ {c} : pc'[d] = pc[d] /\ job'[d] = job[d] /\ call'[d] = call[d]
           /\ aged' = aged
           /\ \/ \E k \in Calls[c] : (Submit(c, k) \/ SubmitArray(c, k)) /\ pc'[c] \notin Resting
              \/ \E k \in Calls[c] : Refuse(c, k)
              \/ Append(c)
              \/ pc[c] \notin Resting /\ Leave(c) /\ UNCHANGED <<store, alone>>
              \/ /\ pc[c] \notin Resting /\ pc'[c] \notin Resting
                 /\ UNCHANGED <<store, alone, call, overlapped>>
<1> USE DEF Matching, TypeOK, Goto, Resting, storeVars, clusterVars, remoteVars
<1>1. ASSUME NEW k \in Calls[c], Submit(c, k) \/ SubmitArray(c, k)
      PROVE  /\ \A d \in Clients \ {c} : pc'[d] = pc[d] /\ job'[d] = job[d] /\ call'[d] = call[d]
             /\ aged' = aged /\ pc'[c] \notin Resting
  BY <1>1 DEF Submit, SubmitArray, Enter
<1>2. ASSUME NEW k \in Calls[c], Refuse(c, k)
      PROVE  /\ \A d \in Clients \ {c} : pc'[d] = pc[d] /\ job'[d] = job[d] /\ call'[d] = call[d]
             /\ aged' = aged
  BY <1>2 DEF Refuse
<1>3. CASE Append(c) \/ SnapshotFails(c) \/ Fail(c)
  BY <1>3 DEF Append, SnapshotFails, Fail, Leave
<1>4. CASE SyncBegins(c) \/ SyncFinishes(c) \/ VenvCurrent(c) \/ VenvBuildBegins(c)
              \/ VenvBuildFinishes(c) \/ TakeSnapshot(c)
  BY <1>4 DEF SyncBegins, SyncFinishes, VenvCurrent, VenvBuildBegins, VenvBuildFinishes,
              TakeSnapshot
<1>5. CASE Sbatch(c)
  <2>1. /\ pc[c] = "sbatch" /\ pc'[c] \in {"snapshot", "append"}
        /\ \A d \in Clients \ {c} : pc'[d] = pc[d]
        /\ UNCHANGED <<store, aged, alone, call, overlapped>>
    BY <1>5 DEF Sbatch
  <2>2. \A d \in Clients \ {c} : job'[d] = job[d]
    BY <1>5 DEF Sbatch
  <2> QED BY <2>1, <2>2
<1> QED BY <1>1, <1>2, <1>3, <1>4, <1>5 DEF ClientNext

\* Records stay, a submitted job keeps its submission, and nothing returns to
\* the queue or becomes young again.
LEMMA JobsKept ==
    ASSUME Matching, [Next]_vars
    PROVE  /\ aged \subseteq aged'
           /\ \A j \in Jobs :
                 /\ store.jobs[j] # None => store'.jobs[j] # None
                 /\ cluster[j] # None => /\ cluster'[j] # None
                                         /\ submission'[j] = submission[j]
                                         /\ cluster'[j] = "PENDING" => cluster[j] = "PENDING"
<1> DEFINE Kept == /\ aged \subseteq aged'
                   /\ \A j \in Jobs :
                         /\ store.jobs[j] # None => store'.jobs[j] # None
                         /\ cluster[j] # None => /\ cluster'[j] # None
                                                 /\ submission'[j] = submission[j]
                                                 /\ cluster'[j] = "PENDING" => cluster[j] = "PENDING"
<1>1. store.jobs \in [Jobs -> JobStatus \cup {None}]
  BY DEF Matching, TypeOK, Content, JobTable
<1>2. "PENDING" # None /\ "RUNNING" # None /\ "RUNNING" # "PENDING"
  BY NoneAssumption DEF JobStatus
<1>3. ASSUME NEW c \in Clients, ClientNext(c)
      PROVE  Kept
  <2>1. CASE Append(c)
    <3>1. store'.jobs = [store.jobs EXCEPT ![job[c]] = "PENDING"]
      BY <2>1, AppendEffect
    <3> QED BY <1>1, <1>2, <2>1, <3>1 DEF Append, clusterVars
  <2>2. CASE Sbatch(c)
    <3>1. PICK j \in Jobs : /\ cluster[j] = None
                            /\ cluster' = [cluster EXCEPT ![j] = "PENDING"]
                            /\ submission' = [submission EXCEPT ![j] = call[c]]
      BY <2>2 DEF Sbatch
    <3> QED BY <2>2, <3>1 DEF Sbatch, storeVars, Matching, TypeOK
  <2>3. CASE ~Append(c) /\ ~Sbatch(c)
    BY <1>3, <2>3 DEF ClientNext, Submit, SubmitArray, Enter, Refuse, SyncBegins, SyncFinishes,
       VenvCurrent, VenvBuildBegins, VenvBuildFinishes, TakeSnapshot, SnapshotFails, Fail,
       storeVars, clusterVars
  <2> QED BY <2>1, <2>2, <2>3
<1>4. ASSUME NEW j \in Jobs, Begin(j)
      PROVE  Kept
  BY <1>2, <1>4 DEF Begin, storeVars, Matching, TypeOK
<1>5. ASSUME NEW j \in Jobs, Track(j)
      PROVE  Kept
  <2>1. \E s \in {"PENDING", cluster[j]} : s # None /\ store'.jobs = [store.jobs EXCEPT ![j] = s]
    BY <1>5, TrackEffect
  <2> QED BY <1>1, <1>5, <2>1 DEF Track, clusterVars
<1>6. ASSUME NEW j \in Jobs, Age(j)
      PROVE  Kept
  BY <1>6 DEF Age, clusterVars
<1>7. CASE UNCHANGED vars
  BY <1>7 DEF vars, storeVars, clusterVars
<1> QED BY <1>3, <1>4, <1>5, <1>6, <1>7 DEF Next

\* Only append_job changes the entries.
LEMMA EntriesKept ==
    ASSUME Matching, [Next]_vars
    PROVE  store'.idem = store.idem \/ \E c \in Clients : Append(c)
<1>1. ASSUME NEW c \in Clients, ClientNext(c), ~Append(c)
      PROVE  store' = store
  BY <1>1, ClientStep DEF Submit, SubmitArray, Enter, Refuse, storeVars
<1>2. ASSUME NEW j \in Jobs, Begin(j) \/ Track(j) \/ Age(j)
      PROVE  store'.idem = store.idem
  BY <1>2, TrackEffect DEF Begin, Age, storeVars
<1>3. CASE UNCHANGED vars
  BY <1>3 DEF vars, storeVars
<1> QED BY <1>1, <1>2, <1>3 DEF Next

----------------------------------------------------------------------------
(* Refusals *)

\* An entry names a recorded job that was submitted with its hash.
EntriesMatch ==
    \A h \in Hashes :
        LET j == store.idem[h]
        IN  j # None => /\ store.jobs[j] # None
                        /\ submission[j].kind = "submit" /\ submission[j].hash = h

Refusing == EntriesMatch /\ RefusedForDuplicate

\* Every step keeps what entries say.
LEMMA EntriesStep == Matching /\ EntriesMatch /\ [Next]_vars => EntriesMatch'
<1> SUFFICES ASSUME Matching, EntriesMatch, [Next]_vars,
                    NEW h \in Hashes, store'.idem[h] # None
             PROVE  LET j == store'.idem[h]
                    IN  /\ store'.jobs[j] # None
                        /\ submission'[j].kind = "submit" /\ submission'[j].hash = h
  BY DEF EntriesMatch
<1>1. store.idem \in [Hashes -> Jobs \cup {None}]
  BY DEF Matching, TypeOK, Content
<1>2. ASSUME store.idem[h] # None, store'.idem[h] = store.idem[h]
      PROVE  LET j == store'.idem[h]
             IN  /\ store'.jobs[j] # None
                 /\ submission'[j].kind = "submit" /\ submission'[j].hash = h
  <2> DEFINE j == store.idem[h]
  <2>1. j \in Jobs /\ store.jobs[j] # None
    BY <1>1, <1>2 DEF EntriesMatch
  <2>2. cluster[j] # None
    BY <2>1 DEF Matching, JobsMatch
  <2>3. store'.jobs[j] # None /\ submission'[j] = submission[j]
    BY <2>1, <2>2, JobsKept
  <2> QED BY <1>2, <2>3 DEF EntriesMatch
<1>3. CASE store'.idem = store.idem
  BY <1>2, <1>3
<1>4. ASSUME NEW c \in Clients, Append(c)
      PROVE  LET j == store'.idem[h]
             IN  /\ store'.jobs[j] # None
                 /\ submission'[j].kind = "submit" /\ submission'[j].hash = h
  <2>1. CASE store'.idem[h] = store.idem[h]
    BY <1>2, <2>1
  <2>2. CASE store'.idem[h] # store.idem[h]
    <3>1. /\ store'.idem[h] = job[c] /\ job[c] \in Jobs
          /\ call[c].kind = "submit" /\ call[c].hash = h
          /\ submission[job[c]] = call[c]
          /\ store'.jobs = [store.jobs EXCEPT ![job[c]] = "PENDING"]
      BY <1>4, <2>2, AppendEffect
    <3>2. store'.jobs[job[c]] = "PENDING" /\ "PENDING" # None
      BY <3>1, NoneAssumption DEF JobStatus, Matching, TypeOK, Content, JobTable
    <3>3. submission' = submission
      BY <1>4 DEF Append, clusterVars
    <3> QED BY <3>1, <3>2, <3>3
  <2> QED BY <2>1, <2>2
<1> QED BY <1>3, <1>4, EntriesKept

\* Every refusal is for a duplicate.
LEMMA RefusedStep == Matching /\ Refusing /\ [Next]_vars => RefusedForDuplicate'
<1> SUFFICES ASSUME Matching, Refusing, [Next]_vars, NEW c \in Clients, pc'[c] = "refused"
             PROVE  /\ job'[c] # None
                    /\ store'.jobs[job'[c]] # None
                    /\ submission'[job'[c]].kind = "submit"
                    /\ submission'[job'[c]].hash = call'[c].hash
  BY DEF RefusedForDuplicate
<1>1. \/ \E k \in Calls[c] : Refuse(c, k)
      \/ pc[c] = "refused" /\ job'[c] = job[c] /\ call'[c] = call[c]
  <2>1. CASE ClientNext(c)
    <3>1. ~Append(c) /\ ~Leave(c) /\ pc'[c] \in Resting
      BY DEF Append, Leave, Goto, Resting, Matching, TypeOK
    <3> QED BY <2>1, <3>1, ClientStep
  <2>2. ASSUME NEW d \in Clients \ {c}, ClientNext(d)
        PROVE  pc[c] = "refused" /\ job'[c] = job[c] /\ call'[c] = call[c]
    BY <2>2, ClientStep
  <2>3. CASE UNCHANGED vars \/ \E j \in Jobs : Begin(j) \/ Track(j) \/ Age(j)
    BY <2>3 DEF vars, Begin, Track, Age
  <2> QED BY <2>1, <2>2, <2>3 DEF Next
<1>2. ASSUME NEW k \in Calls[c], Refuse(c, k)
      PROVE  /\ job'[c] # None /\ job'[c] \in Jobs
             /\ store.jobs[job'[c]] # None
             /\ submission[job'[c]].kind = "submit"
             /\ submission[job'[c]].hash = call'[c].hash
  <2>1. k.hash \in Hashes /\ store \in Content
    BY CallType DEF Matching, TypeOK
  <2>2. /\ CheckIdempotency(store, k.hash, aged) # None
        /\ job'[c] = CheckIdempotency(store, k.hash, aged) /\ call'[c] = k
    BY <1>2 DEF Refuse, Matching, TypeOK
  <2>3. job'[c] = store.idem[k.hash] /\ job'[c] \in Jobs /\ job'[c] # None
    BY <2>1, <2>2, CheckFacts
  <2> QED BY <2>1, <2>2, <2>3 DEF Refusing, EntriesMatch
<1>3. /\ job'[c] # None /\ job'[c] \in Jobs
      /\ store.jobs[job'[c]] # None
      /\ submission[job'[c]].kind = "submit"
      /\ submission[job'[c]].hash = call'[c].hash
  <2>1. job[c] \in Jobs \cup {None}
    BY DEF Matching, TypeOK
  <2> QED BY <1>1, <1>2, <2>1 DEF Refusing, RefusedForDuplicate
<1>4. cluster[job'[c]] # None
  BY <1>3 DEF Matching, JobsMatch
<1> QED BY <1>3, <1>4, JobsKept

\* submit refuses a call only for a recorded job with the same specification.
THEOREM RefusalsAreJustified == Spec => []RefusedForDuplicate
<1>1. Init => Refusing
  BY DEF Init, Refusing, EntriesMatch, RefusedForDuplicate, Empty
<1>2. Matching /\ Refusing /\ [Next]_vars => Refusing'
  BY EntriesStep, RefusedStep DEF Refusing
<1>3. Refusing => RefusedForDuplicate
  BY DEF Refusing
<1> QED BY <1>1, <1>2, <1>3, MatchingInit, MatchingStep, PTL DEF Spec

----------------------------------------------------------------------------
(* One job per specification *)

\* A call that has overlapped no other is the only one in progress.
OverlapsNoted == \A c, d \in InProgress : c # d => c \in overlapped

\* While a job submitted alone waits, the entry of its specification names it.
Guarded ==
    \A i \in alone :
        Waiting(i) /\ submission[i].kind = "submit" => store.idem[submission[i].hash] = i

\* Nobody is past the duplicate test with the specification of such a job.
NoRival ==
    \A i \in alone, c \in InProgress :
        Waiting(i) /\ submission[i].kind = "submit" /\ call[c].kind = "submit"
            => call[c].hash # submission[i].hash

Guarding == OverlapsNoted /\ Guarded /\ NoRival

\* Calls in progress at once stay noted.
LEMMA OverlapStep == Matching /\ OverlapsNoted /\ [Next]_vars => OverlapsNoted'
<1> SUFFICES ASSUME Matching, OverlapsNoted, [Next]_vars PROVE OverlapsNoted'
  OBVIOUS
<1> USE DEF OverlapsNoted, InProgress
<1>1. ASSUME NEW c \in Clients, NEW k \in Calls[c], Submit(c, k) \/ SubmitArray(c, k)
      PROVE  OverlapsNoted'
  BY <1>1 DEF Submit, SubmitArray, Enter, Goto, NoteOverlap, Resting, Matching, TypeOK
<1>2. ASSUME NEW c \in Clients, NEW k \in Calls[c], Refuse(c, k)
      PROVE  OverlapsNoted'
  BY <1>2 DEF Refuse, Goto, Resting, Matching, TypeOK
<1>3. ASSUME NEW c \in Clients, Leave(c)
      PROVE  OverlapsNoted'
  BY <1>3 DEF Leave, Goto, Resting, Matching, TypeOK
<1>4. ASSUME NEW c \in Clients, ClientNext(c)
      PROVE  OverlapsNoted'
  <2>1. CASE pc[c] \notin Resting /\ pc'[c] \notin Resting /\ UNCHANGED overlapped
    BY <1>4, <2>1, ClientStep
  <2> QED BY <1>1, <1>2, <1>3, <1>4, <2>1, ClientStep DEF Append
<1>5. CASE UNCHANGED vars \/ \E j \in Jobs : Begin(j) \/ Track(j) \/ Age(j)
  BY <1>5 DEF vars, Begin, Track, Age
<1> QED BY <1>4, <1>5 DEF Next

\* A job submitted alone that waits after a step waited before it, unless it has
\* just been recorded.
LEMMA WaitingBefore ==
    ASSUME Matching, [Next]_vars, NEW i \in alone, Waiting(i)'
    PROVE  i \in Jobs /\ Waiting(i) /\ submission'[i] = submission[i]
<1>1. i \in Jobs /\ store.jobs[i] # None
  BY DEF Matching, TypeOK, JobsMatch
<1>2. cluster[i] # None
  BY <1>1 DEF Matching, JobsMatch
<1> QED BY <1>1, <1>2, JobsKept DEF Waiting

\* A waiting job within the window keeps its entry.
LEMMA GuardedStep == Matching /\ Guarding /\ [Next]_vars => Guarded'
<1> SUFFICES ASSUME Matching, Guarding, [Next]_vars,
                    NEW i \in alone', Waiting(i)', submission'[i].kind = "submit"
             PROVE  store'.idem[submission'[i].hash] = i
  BY DEF Guarded
<1> DEFINE g == submission'[i].hash
<1>1. i \in Jobs /\ i \notin aged'
  BY MatchingStep DEF Waiting, Matching, TypeOK
<1>2. ASSUME i \in alone, store'.idem = store.idem
      PROVE  store'.idem[g] = i
  BY <1>2, WaitingBefore DEF Guarding, Guarded
<1>3. ASSUME NEW c \in Clients, Append(c)
      PROVE  store'.idem[g] = i
  <2>1. /\ aged' = aged /\ submission' = submission
        /\ job[c] \in Jobs /\ call[c] \in CallRecords /\ submission[job[c]] = call[c]
        /\ pc[c] = "append"
        /\ alone' = IF c \in overlapped THEN alone ELSE alone \cup {job[c]}
    BY <1>3, AppendEffect DEF Append, clusterVars
  <2>2. \A h \in Hashes :
           LET new   == call[c].kind = "submit" /\ call[c].hash = h
               entry == IF new THEN job[c] ELSE store.idem[h]
           IN  store'.idem[h] = IF entry \in aged THEN None ELSE entry
    BY <1>3, AppendEffect
  <2>3. CASE i = job[c]
    <3>1. g \in Hashes /\ call[c].kind = "submit" /\ call[c].hash = g
      BY <2>1, <2>3 DEF CallRecords
    <3> QED BY <1>1, <2>1, <2>2, <2>3, <3>1
  <2>4. CASE i # job[c]
    <3>1. i \in alone /\ Waiting(i)
      BY <2>1, <2>4, WaitingBefore
    <3>2. submission[i] \in CallRecords
      BY <1>1, <3>1, NoneAssumption DEF Waiting, Matching, JobsMatch
    <3>3. g \in Hashes /\ store.idem[g] = i
      BY <2>1, <3>1, <3>2 DEF Guarding, Guarded, CallRecords
    <3>4. ~(call[c].kind = "submit" /\ call[c].hash = g)
      BY <2>1, <3>1 DEF Guarding, NoRival, InProgress, Resting
    <3> QED BY <1>1, <2>1, <2>2, <3>3, <3>4
  <2> QED BY <2>3, <2>4
<1>4. (\E c \in Clients : Append(c)) \/ alone' = alone
  <2>1. ASSUME NEW c \in Clients, ClientNext(c), ~Append(c)
        PROVE  alone' = alone
    BY <2>1, ClientStep DEF Submit, SubmitArray, Enter, Refuse, storeVars
  <2>2. CASE UNCHANGED vars \/ \E j \in Jobs : Begin(j) \/ Track(j) \/ Age(j)
    BY <2>2 DEF vars, Begin, Track, Age, storeVars
  <2> QED BY <2>1, <2>2 DEF Next
<1> QED BY <1>2, <1>3, <1>4, EntriesKept

\* Nobody gets past the duplicate test with the specification of such a job.
LEMMA NoRivalStep == Matching /\ Guarding /\ [Next]_vars => NoRival'
<1> SUFFICES ASSUME Matching, Guarding, [Next]_vars,
                    NEW i \in alone', NEW c \in InProgress',
                    Waiting(i)', submission'[i].kind = "submit", call'[c].kind = "submit"
             PROVE  call'[c].hash # submission'[i].hash
  BY DEF NoRival
<1>1. c \in Clients /\ pc'[c] \notin Resting
  BY DEF InProgress
<1>2. ASSUME i \in alone, c \in InProgress, call'[c] = call[c]
      PROVE  call'[c].hash # submission'[i].hash
  BY <1>2, WaitingBefore DEF Guarding, NoRival
<1>3. ASSUME NEW d \in Clients, Append(d)
      PROVE  call'[c].hash # submission'[i].hash
  <2>1. /\ pc' = [pc EXCEPT ![d] = "idle"] /\ call' = [call EXCEPT ![d] = NoCall]
        /\ alone' = IF d \in overlapped THEN alone ELSE alone \cup {job[d]}
        /\ pc[d] = "append"
    BY <1>3 DEF Append, Leave, Goto
  <2>2. c # d /\ c \in InProgress /\ d \in InProgress /\ call'[c] = call[c]
    BY <1>1, <2>1 DEF Resting, InProgress, Matching, TypeOK
  <2>3. d \in overlapped
    BY <2>2 DEF Guarding, OverlapsNoted
  <2> QED BY <1>2, <2>1, <2>2, <2>3
<1>4. ASSUME NEW k \in Calls[c], Submit(c, k)
      PROVE  call'[c].hash # submission'[i].hash
  <2>1. /\ i \in alone /\ call'[c] = k /\ submission' = submission
        /\ CheckIdempotency(store, k.hash, aged) = None
    BY <1>1, <1>4 DEF Submit, Enter, storeVars, clusterVars, Matching, TypeOK
  <2>2. i \in Jobs /\ Waiting(i)
    BY <2>1, WaitingBefore
  <2>3. store.jobs[i] = "PENDING" /\ i # None /\ i \notin aged
    BY <2>2, NoneAssumption DEF Waiting, Matching, JobsMatch
  <2>4. k.hash \in Hashes /\ store \in Content
    BY <1>1, CallType DEF Matching, TypeOK
  <2>5. store.idem[k.hash] # i
    BY <2>1, <2>3, <2>4, CheckFacts
  <2> QED BY <2>1, <2>2, <2>5 DEF Guarding, Guarded
<1>5. ASSUME NEW k \in Calls[c], SubmitArray(c, k)
      PROVE  FALSE
  BY <1>1, <1>5 DEF SubmitArray, Enter, Matching, TypeOK
<1>6. ASSUME NEW k \in Calls[c], Refuse(c, k)
      PROVE  FALSE
  BY <1>1, <1>6 DEF Refuse, Goto, Resting, Matching, TypeOK
<1>7. CASE ClientNext(c) /\ ~Append(c)
  <2>1. CASE Leave(c)
    BY <1>1, <2>1 DEF Leave, Goto, Resting, Matching, TypeOK
  <2>2. CASE pc[c] \notin Resting /\ UNCHANGED <<store, alone, call, overlapped>>
    BY <1>1, <1>2, <2>2 DEF InProgress
  <2> QED BY <1>1, <1>4, <1>5, <1>6, <1>7, <2>1, <2>2, ClientStep
<1>8. ASSUME NEW d \in Clients \ {c}, ClientNext(d), ~Append(d)
      PROVE  call'[c].hash # submission'[i].hash
  <2>1. pc'[c] = pc[c] /\ call'[c] = call[c]
    BY <1>1, <1>8, ClientStep
  <2>2. alone' = alone
    BY <1>8, ClientStep DEF Submit, SubmitArray, Enter, Refuse, storeVars
  <2> QED BY <1>1, <1>2, <2>1, <2>2 DEF InProgress
<1>9. CASE UNCHANGED vars \/ \E j \in Jobs : Begin(j) \/ Track(j) \/ Age(j)
  BY <1>1, <1>2, <1>9 DEF vars, Begin, Track, Age, storeVars, InProgress
<1> QED BY <1>1, <1>3, <1>7, <1>8, <1>9 DEF Next

\* The 30 s window works between submissions that do not overlap.
THEOREM DuplicatesAreCaught == Spec => []OneJobPerSpecification
<1>1. Init => Guarding
  BY DEF Init, Guarding, OverlapsNoted, Guarded, NoRival, InProgress, Resting
<1>2. Matching /\ Guarding /\ [Next]_vars => Guarding'
  BY OverlapStep, GuardedStep, NoRivalStep DEF Guarding
<1>3. Guarding => OneJobPerSpecification
  BY DEF Guarding, Guarded, OneJobPerSpecification, SameSpecification
<1> QED BY <1>1, <1>2, <1>3, MatchingInit, MatchingStep, PTL DEF Spec

----------------------------------------------------------------------------
(* Snapshots *)

\* The files of a snapshot, if there is one, are all of version v.
Own(files, v) == files # None => files \subseteq {v}

\* Once it has synced, a call that overlaps no other finds its own code.
TreeIsOwn ==
    \A c \in InProgress :
        pc[c] \notin {"sync", "syncing"} /\ c \notin overlapped /\ call[c].sync
            => tree = {call[c].version}

HandIsOwn ==
    \A c \in Clients :
        pc[c] = "append" /\ c \notin overlapped /\ call[c].sync =>
            Own(snap[job[c]], call[c].version) /\ Own(ran[job[c]], call[c].version)

AloneIsOwn ==
    \A j \in alone :
        submission[j].sync =>
            Own(snap[j], submission[j].version) /\ Own(ran[j], submission[j].version)

Owning == OverlapsNoted /\ TreeIsOwn /\ HandIsOwn /\ AloneIsOwn

\* Only an rsync changes the files of the remote directory.
LEMMA TreeKept ==
    ASSUME Matching, [Next]_vars
    PROVE  tree' = tree \/ \E c \in Clients : SyncBegins(c) \/ SyncFinishes(c)
<1>1. ASSUME NEW c \in Clients, ClientNext(c), ~SyncBegins(c), ~SyncFinishes(c)
      PROVE  tree' = tree
  BY <1>1 DEF ClientNext, Submit, SubmitArray, Enter, Refuse, VenvCurrent, VenvBuildBegins,
     VenvBuildFinishes, Sbatch, TakeSnapshot, SnapshotFails, Append, Fail, remoteVars
<1>2. CASE UNCHANGED vars \/ \E j \in Jobs : Begin(j) \/ Track(j) \/ Age(j)
  BY <1>2 DEF vars, Begin, Track, Age, remoteVars
<1> QED BY <1>1, <1>2 DEF Next

\* A call that has not overlapped another had not before.
LEMMA OverlapKept ==
    ASSUME Matching, [Next]_vars, NEW c \in InProgress, c \in InProgress', c \notin overlapped'
    PROVE  c \notin overlapped /\ call'[c] = call[c]
<1>1. c \in Clients /\ pc[c] \notin Resting /\ pc'[c] \notin Resting
  BY DEF InProgress
<1>2. CASE ClientNext(c)
  <2>1. ~Leave(c) /\ ~(\E k \in Calls[c] : Submit(c, k) \/ SubmitArray(c, k) \/ Refuse(c, k))
    BY <1>1 DEF Leave, Goto, Submit, SubmitArray, Refuse, Resting, Matching, TypeOK
  <2> QED BY <1>1, <1>2, <2>1, ClientStep DEF Append
<1>3. ASSUME NEW d \in Clients \ {c}, ClientNext(d)
      PROVE  c \notin overlapped /\ call'[c] = call[c]
  <2>1. call'[c] = call[c]
    BY <1>1, <1>3, ClientStep
  <2>2. overlapped \subseteq overlapped' \cup {d}
    BY <1>3, ClientStep DEF Submit, SubmitArray, Enter, NoteOverlap, Refuse, Append, Leave
  <2> QED BY <1>3, <2>1, <2>2
<1>4. CASE UNCHANGED vars \/ \E j \in Jobs : Begin(j) \/ Track(j) \/ Age(j)
  BY <1>4 DEF vars, Begin, Track, Age
<1> QED BY <1>2, <1>3, <1>4 DEF Next

\* A lone client's directory stays its own.
LEMMA TreeStep == Matching /\ Owning /\ [Next]_vars => TreeIsOwn'
<1> SUFFICES ASSUME Matching, Owning, [Next]_vars,
                    NEW c \in InProgress', pc'[c] \notin {"sync", "syncing"},
                    c \notin overlapped', call'[c].sync
             PROVE  tree' = {call'[c].version}
  BY DEF TreeIsOwn
<1>1. c \in Clients /\ pc'[c] \notin Resting
  BY DEF InProgress
<1>2. c \in InProgress
  <2>1. SUFFICES ASSUME pc[c] \in Resting PROVE FALSE
    BY <1>1 DEF InProgress
  <2>2. CASE ClientNext(c)
    <3>1. ~Append(c) /\ ~(\E k \in Calls[c] : Refuse(c, k))
      BY <1>1 DEF Append, Leave, Refuse, Goto, Resting, Matching, TypeOK
    <3>2. PICK k \in Calls[c] : Submit(c, k) \/ SubmitArray(c, k)
      BY <1>1, <2>1, <2>2, <3>1, ClientStep
    <3>3. call'[c] = k /\ pc'[c] = IF k.sync THEN "sync" ELSE "venv"
      BY <1>1, <3>2 DEF Submit, SubmitArray, Enter, Goto, Matching, TypeOK
    <3> QED BY <3>3
  <2>3. ASSUME NEW d \in Clients \ {c}, ClientNext(d)
        PROVE  FALSE
    BY <1>1, <2>1, <2>3, ClientStep
  <2>4. CASE UNCHANGED vars \/ \E j \in Jobs : Begin(j) \/ Track(j) \/ Age(j)
    BY <1>1, <2>1, <2>4 DEF vars, Begin, Track, Age
  <2> QED BY <2>2, <2>3, <2>4 DEF Next
<1>3. c \notin overlapped /\ call'[c] = call[c]
  BY <1>2, OverlapKept
<1>4. CASE pc[c] \notin {"sync", "syncing"} /\ tree' = tree
  BY <1>2, <1>3, <1>4 DEF Owning, TreeIsOwn
<1>5. ASSUME NEW d \in Clients, SyncBegins(d) \/ SyncFinishes(d)
      PROVE  tree' = {call'[c].version}
  <2>1. d \in InProgress
    BY <1>5 DEF SyncBegins, SyncFinishes, InProgress, Resting
  <2>2. d = c
    BY <1>2, <1>3, <2>1 DEF Owning, OverlapsNoted
  <2>3. SyncFinishes(c)
    BY <1>1, <1>5, <2>2 DEF SyncBegins, Goto, Matching, TypeOK
  <2> QED BY <1>3, <2>3 DEF SyncFinishes
<1>6. CASE pc[c] \in {"sync", "syncing"} /\ tree' = tree
  <2>1. CASE ClientNext(c)
    <3>1. ~(\E k \in Calls[c] : Submit(c, k) \/ SubmitArray(c, k) \/ Refuse(c, k))
      BY <1>6 DEF Submit, SubmitArray, Refuse, Resting
    <3>2. ~(VenvCurrent(c) \/ VenvBuildBegins(c) \/ VenvBuildFinishes(c) \/ Sbatch(c)
              \/ TakeSnapshot(c) \/ SnapshotFails(c) \/ Append(c))
      BY <1>6 DEF VenvCurrent, VenvBuildBegins, VenvBuildFinishes, Sbatch, TakeSnapshot,
         SnapshotFails, Append
    <3>3. ~Fail(c)
      BY <1>1 DEF Fail, Leave, Goto, Resting, Matching, TypeOK
    <3> QED BY <1>1, <1>5, <2>1, <3>1, <3>2, <3>3 DEF ClientNext
  <2>2. ASSUME NEW d \in Clients \ {c}, ClientNext(d)
        PROVE  FALSE
    BY <1>1, <1>6, <2>2, ClientStep
  <2>3. CASE UNCHANGED vars \/ \E j \in Jobs : Begin(j) \/ Track(j) \/ Age(j)
    BY <1>6, <2>3 DEF vars, Begin, Track, Age
  <2> QED BY <2>1, <2>2, <2>3 DEF Next
<1> QED BY <1>4, <1>5, <1>6, TreeKept

\* A job whose snapshot is not being taken keeps its own files only: its snapshot
\* is as it was or gone, and it starts in that snapshot or in none.
LEMMA OwnKept ==
    ASSUME Matching, [Next]_vars, NEW j \in Jobs, NEW v,
           \A c \in Clients : pc[c] = "snapshot" => job[c] # j,
           Own(snap[j], v), Own(ran[j], v)
    PROVE  Own(snap'[j], v) /\ Own(ran'[j], v)
<1>1. ASSUME NEW c \in Clients, SyncBegins(c)
      PROVE  snap'[j] = None /\ ran' = ran
  BY <1>1 DEF SyncBegins, clusterVars
<1>2. ASSUME NEW c \in Clients, TakeSnapshot(c) \/ SnapshotFails(c)
      PROVE  snap'[j] = snap[j] /\ ran' = ran
  BY <1>2 DEF TakeSnapshot, SnapshotFails, clusterVars, Matching, TypeOK
<1>3. ASSUME NEW c \in Clients, ClientNext(c),
             ~SyncBegins(c), ~TakeSnapshot(c), ~SnapshotFails(c)
      PROVE  snap' = snap /\ ran' = ran
  BY <1>3 DEF ClientNext, Submit, SubmitArray, Enter, Refuse, SyncFinishes, VenvCurrent,
     VenvBuildBegins, VenvBuildFinishes, Sbatch, Append, Fail, clusterVars, remoteVars
<1>4. ASSUME NEW i \in Jobs, Begin(i)
      PROVE  snap' = snap /\ ran'[j] \in {ran[j], snap[j], None}
  BY <1>4 DEF Begin, SnapshotOf, remoteVars, Matching, TypeOK
<1>5. CASE UNCHANGED vars \/ \E i \in Jobs : Track(i) \/ Age(i)
  BY <1>5 DEF vars, Track, Age, clusterVars, remoteVars
<1> QED BY <1>1, <1>2, <1>3, <1>4, <1>5 DEF Next, Own

\* A client comes to append_job from sbatch, with no snapshot, or from taking one.
LEMMA HandStep == Matching /\ Owning /\ [Next]_vars => HandIsOwn'
<1> SUFFICES ASSUME Matching, Owning, [Next]_vars,
                    NEW c \in Clients, pc'[c] = "append", c \notin overlapped', call'[c].sync
             PROVE  Own(snap'[job'[c]], call'[c].version) /\ Own(ran'[job'[c]], call'[c].version)
  BY DEF HandIsOwn
<1>1. CASE TakeSnapshot(c)
  <2>1. /\ pc[c] = "snapshot" /\ c \notin overlapped
        /\ UNCHANGED <<call, job, ran>>
    BY <1>1 DEF TakeSnapshot, clusterVars
  <2>2. tree = {call[c].version} /\ ran[job[c]] = None /\ job[c] \in Jobs
    BY <2>1 DEF Owning, TreeIsOwn, InProgress, Resting, Matching, CallsMatch, InHand
  <2>3. snap'[job[c]] \in {tree, {}}
    BY <1>1, <2>2 DEF TakeSnapshot, Matching, TypeOK
  <2> QED BY <2>1, <2>2, <2>3 DEF Own
<1>2. CASE Sbatch(c)
  <2>1. PICK j \in Jobs : cluster[j] = None /\ job' = [job EXCEPT ![c] = j]
    BY <1>2 DEF Sbatch
  <2>2. job'[c] = j /\ snap'[j] = None /\ ran'[j] = None
    BY <1>2, <2>1 DEF Sbatch, remoteVars, Matching, TypeOK, JobsMatch
  <2> QED BY <2>2 DEF Own
<1>3. CASE pc[c] = "append" /\ job'[c] = job[c] /\ call'[c] = call[c]
  <2>1. c \in InProgress /\ c \in InProgress'
    BY <1>3 DEF InProgress, Resting
  <2>2. Own(snap[job[c]], call[c].version) /\ Own(ran[job[c]], call[c].version)
    BY <1>3, <2>1, OverlapKept DEF Owning, HandIsOwn
  <2>3. job[c] \in Jobs /\ \A d \in Clients : pc[d] = "snapshot" => job[d] # job[c]
    BY <1>3 DEF Matching, CallsMatch, HandsApart, InHand
  <2> QED BY <1>3, <2>2, <2>3, OwnKept
<1>4. CASE ClientNext(c) /\ ~TakeSnapshot(c) /\ ~Sbatch(c)
  <2>1. ~(\E k \in Calls[c] : Submit(c, k) \/ SubmitArray(c, k) \/ Refuse(c, k))
    BY DEF Submit, SubmitArray, Enter, Refuse, Goto, Matching, TypeOK
  <2>2. ~(SyncBegins(c) \/ SyncFinishes(c) \/ VenvCurrent(c) \/ VenvBuildBegins(c)
            \/ VenvBuildFinishes(c) \/ SnapshotFails(c) \/ Append(c) \/ Fail(c))
    BY DEF SyncBegins, SyncFinishes, VenvCurrent, VenvBuildBegins, VenvBuildFinishes,
       SnapshotFails, Append, Fail, Leave, Goto, Matching, TypeOK
  <2> QED BY <1>4, <2>1, <2>2 DEF ClientNext
<1>5. ASSUME NEW d \in Clients \ {c}, ClientNext(d)
      PROVE  pc[c] = "append" /\ job'[c] = job[c] /\ call'[c] = call[c]
  BY <1>5, ClientStep
<1>6. CASE UNCHANGED vars \/ \E j \in Jobs : Begin(j) \/ Track(j) \/ Age(j)
  BY <1>3, <1>6 DEF vars, Begin, Track, Age
<1> QED BY <1>1, <1>2, <1>3, <1>4, <1>5, <1>6 DEF Next

\* A job submitted alone has files of its version only.
LEMMA AloneStep == Matching /\ Owning /\ [Next]_vars => AloneIsOwn'
<1> SUFFICES ASSUME Matching, Owning, [Next]_vars, NEW j \in alone', submission'[j].sync
             PROVE  Own(snap'[j], submission'[j].version) /\ Own(ran'[j], submission'[j].version)
  BY DEF AloneIsOwn
<1>1. CASE j \in alone
  <2>1. j \in Jobs /\ store.jobs[j] # None
    BY <1>1 DEF Matching, TypeOK, JobsMatch
  <2>2. cluster[j] # None
    BY <2>1 DEF Matching, JobsMatch
  <2>3. submission'[j] = submission[j]
    BY <2>1, <2>2, JobsKept
  <2>4. \A c \in Clients : pc[c] = "snapshot" => job[c] # j
    BY <2>1 DEF Matching, CallsMatch, InHand
  <2>5. /\ Own(snap[j], submission[j].version)
        /\ Own(ran[j], submission[j].version)
    BY <1>1, <2>3 DEF Owning, AloneIsOwn
  <2>6. /\ Own(snap'[j], submission[j].version)
        /\ Own(ran'[j], submission[j].version)
    BY <2>1, <2>4, <2>5, OwnKept
  <2> QED BY <2>3, <2>6
<1>2. CASE j \notin alone
  <2>1. PICK c \in Clients : Append(c)
    <3>1. ASSUME NEW c \in Clients, ClientNext(c), ~Append(c)
          PROVE  alone' = alone
      BY <3>1, ClientStep DEF Submit, SubmitArray, Enter, Refuse, storeVars
    <3>2. CASE UNCHANGED vars \/ \E i \in Jobs : Begin(i) \/ Track(i) \/ Age(i)
      BY <1>2, <3>2 DEF vars, Begin, Track, Age, storeVars
    <3> QED BY <1>2, <3>1, <3>2 DEF Next
  <2>2. /\ pc[c] = "append" /\ c \notin overlapped /\ j = job[c]
        /\ UNCHANGED <<submission, snap, ran>>
    BY <1>2, <2>1 DEF Append, clusterVars, remoteVars
  <2>3. submission[j] = call[c]
    BY <2>2 DEF Matching, CallsMatch, InHand
  <2> QED BY <2>2, <2>3 DEF Owning, HandIsOwn
<1> QED BY <1>1, <1>2

\* A job submitted alone never runs files of another version in its snapshot.
THEOREM SnapshotsAreOwn == Spec => []SnapshotRunsOwnCode
<1>1. Init => Owning
  BY DEF Init, Owning, OverlapsNoted, TreeIsOwn, HandIsOwn, AloneIsOwn, InProgress, Resting
<1>2. Matching /\ Owning /\ [Next]_vars => Owning'
  BY OverlapStep, TreeStep, HandStep, AloneStep DEF Owning
<1>3. Owning => SnapshotRunsOwnCode
  BY DEF Owning, AloneIsOwn, Own, SnapshotRunsOwnCode
<1> QED BY <1>1, <1>2, <1>3, MatchingInit, MatchingStep, PTL DEF Spec

----------------------------------------------------------------------------
(* The environment *)

\* The hash that a client alone has taken is that of its own lock file.
LockIsOwn ==
    \A c \in Clients :
        pc[c] = "building" /\ c \notin overlapped /\ call[c].sync => lock[c] = call[c].version

\* A client begins to build, or was building with the same hash.
LEMMA BuildsOn ==
    ASSUME Matching, [Next]_vars, NEW c \in Clients, pc'[c] = "building"
    PROVE  VenvBuildBegins(c) \/ (pc[c] = "building" /\ lock'[c] = lock[c])
<1>1. CASE ClientNext(c)
  <2>1. ASSUME NEW k \in Calls[c] PROVE ~(Submit(c, k) \/ Refuse(c, k) \/ SubmitArray(c, k))
    BY DEF Submit, Refuse, SubmitArray, Enter, Goto, Matching, TypeOK
  <2>2. ~(SyncBegins(c) \/ SyncFinishes(c) \/ VenvCurrent(c) \/ VenvBuildFinishes(c))
    BY DEF SyncBegins, SyncFinishes, VenvCurrent, VenvBuildFinishes, Goto, Matching, TypeOK
  <2>3. ~(Sbatch(c) \/ TakeSnapshot(c) \/ SnapshotFails(c) \/ Append(c) \/ Fail(c))
    BY DEF Sbatch, TakeSnapshot, SnapshotFails, Append, Fail, Leave, Goto, Matching, TypeOK
  <2> QED  BY <1>1, <2>1, <2>2, <2>3 DEF ClientNext
<1>2. ASSUME NEW d \in Clients \ {c}, ClientNext(d)
      PROVE  pc[c] = "building" /\ lock'[c] = lock[c]
  <2>1. pc[c] = "building"
    BY <1>2, ClientStep
  <2>2. lock'[c] = lock[c]
    BY <1>2 DEF ClientNext, Submit, SubmitArray, Enter, Refuse, SyncBegins, SyncFinishes,
       VenvCurrent, VenvBuildBegins, VenvBuildFinishes, Sbatch, TakeSnapshot, SnapshotFails,
       Append, Fail, Leave, Matching, TypeOK
  <2> QED  BY <2>1, <2>2
<1>3. CASE UNCHANGED vars \/ \E j \in Jobs : Begin(j) \/ Track(j) \/ Age(j)
  BY <1>3 DEF vars, Begin, Track, Age
<1> QED  BY <1>1, <1>2, <1>3 DEF Next

\* The hash it took stays that of its lock file.
LEMMA LockStep == Matching /\ Owning /\ LockIsOwn /\ [Next]_vars => LockIsOwn'
<1> SUFFICES ASSUME Matching, Owning, LockIsOwn, [Next]_vars, NEW c \in Clients,
                    pc'[c] = "building", c \notin overlapped', call'[c].sync
             PROVE  lock'[c] = call'[c].version
  BY DEF LockIsOwn
<1>1. pc[c] \in {"venv", "building"}
  BY BuildsOn DEF VenvBuildBegins
<1>2. c \in InProgress /\ c \in InProgress'
  BY <1>1 DEF InProgress, Resting
<1>3. c \notin overlapped /\ call'[c] = call[c]
  BY <1>2, OverlapKept
<1>4. CASE VenvBuildBegins(c)
  <2>1. tree = {call[c].version}
    BY <1>2, <1>3, <1>4 DEF VenvBuildBegins, Owning, TreeIsOwn
  <2> QED  BY <1>3, <1>4, <2>1 DEF VenvBuildBegins, Matching, TypeOK
<1>5. CASE pc[c] = "building" /\ lock'[c] = lock[c]
  BY <1>3, <1>5 DEF LockIsOwn
<1> QED  BY <1>4, <1>5, BuildsOn

\* A uv sync that ran to its end, for a client that synced and overlaps nobody,
\* has built the environment of that client's lock file, and the marker names it.
THEOREM BuildsAreOwn == Spec => BuildIsOwn
<1>1. Init => Owning /\ LockIsOwn
  BY DEF Init, Owning, OverlapsNoted, TreeIsOwn, HandIsOwn, AloneIsOwn, LockIsOwn,
     InProgress, Resting
<1>2. Matching /\ Owning /\ LockIsOwn /\ [Next]_vars => (Owning /\ LockIsOwn)'
  BY OverlapStep, TreeStep, HandStep, AloneStep, LockStep DEF Owning
<1> DEFINE Builds(c) == pc[c] = "building" /\ pc'[c] = "sbatch" /\ c \notin overlapped
                        /\ call[c].sync
           Built(c) == venv' = {call[c].version} /\ marker' = call[c].version
<1>3. Matching /\ LockIsOwn /\ [Next]_vars => [\A c \in Clients : Builds(c) => Built(c)]_vars
  <2> SUFFICES ASSUME Matching, LockIsOwn, [Next]_vars, NEW c \in Clients, Builds(c)
               PROVE  Built(c)
    OBVIOUS
  <2>1. VenvBuildFinishes(c)
    <3>1. CASE ClientNext(c)
      <4>1. ASSUME NEW k \in Calls[c] PROVE ~(Submit(c, k) \/ Refuse(c, k) \/ SubmitArray(c, k))
        BY DEF Submit, Refuse, SubmitArray, Resting
      <4>2. ~(SyncBegins(c) \/ SyncFinishes(c) \/ VenvCurrent(c) \/ VenvBuildBegins(c))
        BY DEF SyncBegins, SyncFinishes, VenvCurrent, VenvBuildBegins
      <4>3. ~(Sbatch(c) \/ TakeSnapshot(c) \/ SnapshotFails(c) \/ Append(c))
        BY DEF Sbatch, TakeSnapshot, SnapshotFails, Append
      <4>4. ~Fail(c)
        BY DEF Fail, Leave, Goto, Matching, TypeOK
      <4> QED  BY <3>1, <4>1, <4>2, <4>3, <4>4 DEF ClientNext
    <3>2. ASSUME NEW d \in Clients \ {c}, ClientNext(d) PROVE FALSE
      BY <3>2, ClientStep
    <3>3. CASE UNCHANGED vars \/ \E j \in Jobs : Begin(j) \/ Track(j) \/ Age(j)
      BY <3>3 DEF vars, Begin, Track, Age
    <3> QED  BY <3>1, <3>2, <3>3 DEF Next
  <2> QED  BY <2>1 DEF VenvBuildFinishes, LockIsOwn
<1> QED  BY <1>1, <1>2, <1>3, MatchingInit, MatchingStep, PTL DEF Spec, BuildIsOwn
============================================================================
