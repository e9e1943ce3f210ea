-------------------------- MODULE JobStreamProofs --------------------------
(***************************************************************************)
(* Proofs about JobStream, for any jobs, limit and ends.                    *)
(***************************************************************************)
EXTENDS JobStream, TLAPS

\* The parts of the type invariant that the step needs: the tables of a stream
\* are functions on the jobs.
Tables ==
    /\ listed \in Table /\ answer \in Table /\ current \in Table
    /\ last \in Table /\ told \in Table /\ store \in Table
    /\ slurm \in [Jobs -> JobStatus] /\ todo \subseteq Jobs

\* A status is never None.
LEMMA NoneIsNoStatus == ASSUME NEW s \in JobStatus PROVE s # None
  BY NoneAssumption

\* What list_jobs and update_job_status make of tables are tables.
LEMMA TableOperators ==
    ASSUME Tables, NEW t \in Table, NEW r \in Table
    PROVE  /\ FirstOf(t) \in Table /\ Updated(t, r) \in Table
           /\ Recorded(t, r) \in Table /\ Nothing \in Table
  BY DEF Tables, Table, FirstOf, Updated, Recorded, Nothing

\* What a table knows are jobs.
LEMMA KnownIsJobs == ASSUME NEW t PROVE Known(t) \subseteq Jobs
  BY DEF Known

\* A round that begins leaves tables of statuses.
LEMMA BeginRoundTables ==
    ASSUME Tables, NEW t \in Table, BeginRound(t)
    PROVE  listed' \in Table /\ current' \in Table /\ todo' \subseteq Jobs
  BY TableOperators, KnownIsJobs DEF BeginRound, Tables

\* Every table the stream, the store and its readers keep stays one.
THEOREM TablesInvariant == Spec => []Tables
<1>1. Init => Tables
  <2>1. {"RUNNING", "PENDING"} \subseteq JobStatus  BY DEF JobStatus
  <2> QED  BY <2>1 DEF Init, Tables, Table, Nothing
<1>2. Tables /\ [Next]_vars => Tables'
  <2> SUFFICES ASSUME Tables, [Next]_vars PROVE Tables'
    OBVIOUS
  <2> USE DEF roundVars, toldVars, worldVars
  <2>1. CASE Connect
    BY <2>1, TableOperators DEF Connect, Tables
  <2>2. CASE ListRecords
    <3>1. CASE Open(store) = {}
      BY <2>2, <3>1, BeginRoundTables DEF ListRecords, Tables
    <3>2. CASE Open(store) # {}
      BY <2>2, <3>2 DEF ListRecords, Tables
    <3> QED  BY <3>1, <3>2
  <2>3. CASE Reconciled
    BY <2>3 DEF Reconciled, Tables, Table
  <2>4. CASE ReconcileFails
    BY <2>4, BeginRoundTables DEF ReconcileFails, Tables
  <2>5. CASE ApplyReconciled
    BY <2>5, BeginRoundTables, TableOperators DEF ApplyReconciled, Tables
  <2>6. CASE Refreshes
    BY <2>6 DEF Refreshes, RefreshFails, RefreshAnswered, Tables, Table
  <2>7. ASSUME NEW j \in Jobs, Update(j) PROVE Tables'
    <3>1. store' \in Table /\ answer' \in Table
      BY <2>7, TableOperators DEF Update, Tables
    <3>2. current' \in Table /\ told' \in Table
      BY <2>7 DEF Update, Tables, Table
    <3> QED  BY <2>7, <3>1, <3>2 DEF Update, Tables
  <2>8. CASE PollLogs
    BY <2>8 DEF PollLogs, Tables
  <2>9. CASE EndRound
    <3>1. told' \in Table
      BY <2>9 DEF EndRound, Tables, Table
    <3> QED  BY <2>9, <3>1, TableOperators DEF EndRound, Tables
  <2>10. CASE Disconnect
    BY <2>10 DEF Disconnect, Tables
  <2>11. CASE NetworkChanges \/ ConnectionLost
    BY <2>11 DEF NetworkChanges, ConnectionLost, Tables
  <2>12. CASE StoreStartsAfresh
    BY <2>12, TableOperators DEF StoreStartsAfresh, Tables
  <2>13. ASSUME NEW j \in Jobs, JobEnds(j) PROVE Tables'
    <3>1. slurm' \in [Jobs -> JobStatus]
      BY <2>13, EndsAssumption DEF JobEnds, Tables, Terminal, JobStatus
    <3> QED  BY <2>13, <3>1 DEF JobEnds, Tables
  <2>14. ASSUME NEW j \in Jobs, OthersRecord(j) PROVE Tables'
    <3>1. store' \in Table
      BY <2>14 DEF OthersRecord, Tables, Table, JobStatus
    <3> QED  BY <2>14, <3>1 DEF OthersRecord, Tables
  <2>15. CASE UNCHANGED vars
    BY <2>15 DEF vars, Tables
  <2> QED
    BY <2>1, <2>2, <2>3, <2>4, <2>5, <2>6, <2>7, <2>8, <2>9, <2>10, <2>11, <2>12,
       <2>13, <2>14, <2>15 DEF Next, StreamNext
<1> QED  BY <1>1, <1>2, PTL DEF Spec

\* The stream has a place, its client a kind of connection.
Control ==
    /\ network \in {"up", "down"} /\ reopened \in BOOLEAN
    /\ pc \in {"off", "list", "reconcile", "apply", "refresh", "update", "logs"}
    /\ conn \in {"none", "own", "gone"}

\* Every step keeps them.
LEMMA ControlStep ==
    ASSUME Control, [Next]_vars
    PROVE  Control'
<1> USE DEF Control, roundVars, toldVars, worldVars
<1>1. CASE Connect \/ EndRound \/ Disconnect
  BY <1>1 DEF Connect, EndRound, Disconnect
<1>2. CASE ListRecords \/ ApplyReconciled
  BY <1>2 DEF ListRecords, ApplyReconciled, BeginRound
<1>3. CASE Reconciled \/ ReconcileFails
  BY <1>3 DEF Reconciled, ReconcileFails, QueryAnswered, QueryFails, BeginRound
<1>4. CASE Refreshes
  BY <1>4 DEF Refreshes, RefreshFails, RefreshAnswered, QueryAnswered, QueryFails
<1>5. CASE PollLogs
  BY <1>5 DEF PollLogs, FallbackRun
<1>6. ASSUME NEW j \in Jobs, Update(j) \/ JobEnds(j) \/ OthersRecord(j) PROVE Control'
  BY <1>6 DEF Update, JobEnds, OthersRecord
<1>7. CASE NetworkChanges \/ ConnectionLost \/ StoreStartsAfresh
  BY <1>7 DEF NetworkChanges, ConnectionLost, StoreStartsAfresh
<1>8. CASE UNCHANGED vars
  BY <1>8 DEF vars
<1> QED  BY <1>1, <1>2, <1>3, <1>4, <1>5, <1>6, <1>7, <1>8 DEF Next, StreamNext

\* Every variable keeps its type.
THEOREM StreamTypes == Spec => []TypeOK
<1>1. Init => Control
  BY DEF Init, Control
<1>2. Control /\ [Next]_vars => Control'
  BY ControlStep
<1>3. Tables /\ Control => TypeOK
  BY DEF Tables, Control, TypeOK
<1> QED  BY <1>1, <1>2, <1>3, TablesInvariant, PTL DEF Spec

----------------------------------------------------------------------------
\* A round begins: nothing is looked at yet, and only listed jobs are to be.
LEMMA RoundBegins ==
    ASSUME NEW t, BeginRound(t), \A j \in Jobs : AheadOf(last, j),
           UNCHANGED <<last, told, reopened>>
    PROVE  TellingInv'
<1>1. current' = Nothing /\ pc' = "refresh"  BY DEF BeginRound
<1>2. \A j \in todo' : listed'[j] # None  BY DEF BeginRound, Known
<1>3. \A j \in todo' : j \in Jobs  BY DEF BeginRound, Known
<1>4. \A j \in Jobs : AheadOf(last, j)'  BY DEF AheadOf
<1> QED  BY <1>1, <1>2, <1>3, <1>4 DEF TellingInv, BetweenRounds, WithinRound, Nothing

\* A step that leaves the round and what was told alone.
LEMMA RoundStays ==
    ASSUME TellingInv, UNCHANGED <<pc, listed, todo, current, last, told, reopened>>
    PROVE  TellingInv'
  BY DEF TellingInv, BetweenRounds, WithinRound, AheadOf

\* Each step of a stream keeps the reader in step with it.
LEMMA StreamStepTells ==
    ASSUME Tables, TellingInv, StreamNext
    PROVE  TellingInv'
<1> USE DEF toldVars, roundVars
<1>1. CASE Connect
  <2>1. \A j \in Jobs : AheadOf(last, j)'
    BY <1>1 DEF Connect, AheadOf, Nothing, Tables, Table
  <2> QED  BY <1>1, <2>1 DEF Connect, TellingInv, BetweenRounds, WithinRound
<1>2. CASE ListRecords
  <2>1. \A j \in Jobs : AheadOf(last, j)
    BY <1>2 DEF ListRecords, TellingInv, BetweenRounds
  <2>2. CASE Open(store) = {}
    BY <1>2, <2>1, <2>2, RoundBegins DEF ListRecords
  <2>3. CASE Open(store) # {}
    <3>1. pc' = "reconcile" /\ UNCHANGED <<last, told, reopened>>
      BY <1>2, <2>3 DEF ListRecords
    <3> QED  BY <2>1, <3>1 DEF TellingInv, BetweenRounds, WithinRound, AheadOf
  <2> QED  BY <2>2, <2>3
<1>3. CASE Reconciled
  BY <1>3 DEF Reconciled, TellingInv, BetweenRounds, WithinRound, AheadOf
<1>4. CASE ReconcileFails
  BY <1>4, RoundBegins DEF ReconcileFails, TellingInv, BetweenRounds
<1>5. CASE ApplyReconciled
  BY <1>5, RoundBegins DEF ApplyReconciled, TellingInv, BetweenRounds
<1>6. CASE Refreshes
  <2>1. /\ pc = "refresh" /\ pc' = "update"
        /\ UNCHANGED <<listed, todo, current, last, told, reopened>>
    BY <1>6 DEF Refreshes, RefreshFails, RefreshAnswered
  <2> QED  BY <2>1 DEF TellingInv, BetweenRounds, WithinRound, AheadOf
<1>7. ASSUME NEW j \in Jobs, Update(j) PROVE TellingInv'
  <2> DEFINE status == IF answer[j] # None THEN answer[j] ELSE listed[j]
  <2>1. /\ pc = "update" /\ pc' = "logs" /\ j \in todo /\ j = Min(todo)
        /\ UNCHANGED <<listed, todo, last, reopened>>
        /\ current' = [current EXCEPT ![j] = status]
        /\ told' = IF last[j] # status THEN [told EXCEPT ![j] = status] ELSE told
    BY <1>7 DEF Update
  <2>2. listed[j] # None /\ current[j] = None /\ AheadOf(last, j)
    BY <2>1 DEF TellingInv, WithinRound
  <2>3. status # None  BY <2>2
  <2>4. current'[j] = status /\ told'[j] = status
    BY <2>1, <2>2, <2>3 DEF Tables, Table, AheadOf
  <2>5. \A i \in Jobs \ {j} : current'[i] = current[i] /\ told'[i] = told[i]
    BY <2>1 DEF Tables, Table
  <2>6. \A i \in Jobs : IF current'[i] = None THEN AheadOf(last, i)' ELSE told'[i] = current'[i]
    BY <2>1, <2>3, <2>4, <2>5 DEF TellingInv, WithinRound, AheadOf
  <2>7. \A i \in todo' : listed'[i] # None
    BY <2>1 DEF TellingInv, WithinRound
  <2>8. \A i \in todo' : current'[i] = None \/ i = Min(todo')
    BY <2>1, <2>5 DEF TellingInv, WithinRound, Tables
  <2> QED  BY <2>1, <2>6, <2>7, <2>8 DEF TellingInv, BetweenRounds, WithinRound
<1>8. CASE PollLogs
  <2>1. /\ pc = "logs" /\ pc' = "refresh" /\ todo' = todo \ {Min(todo)}
        /\ UNCHANGED <<listed, current, last, told, reopened>>
    BY <1>8 DEF PollLogs
  <2> QED  BY <2>1 DEF TellingInv, BetweenRounds, WithinRound, AheadOf
<1>9. CASE EndRound
  <2>1. /\ pc = "refresh" /\ pc' = "list" /\ last' = current /\ UNCHANGED reopened
        /\ told' = [j \in Jobs |-> IF j \in Known(last) \ Known(current)
                                   THEN None ELSE told[j]]
    BY <1>9 DEF EndRound
  <2>2. ASSUME NEW j \in Jobs PROVE AheadOf(last, j)'
    BY <2>1 DEF TellingInv, WithinRound, AheadOf, Known
  <2> QED  BY <2>1, <2>2 DEF TellingInv, BetweenRounds, WithinRound
<1> QED
  BY <1>1, <1>2, <1>3, <1>4, <1>5, <1>6, <1>7, <1>8, <1>9 DEF StreamNext

\* So does every other step: it ends the stream or does not touch it.
LEMMA OtherStepTells ==
    ASSUME TellingInv, [Next]_vars, ~StreamNext
    PROVE  TellingInv'
<1> USE DEF toldVars, roundVars
<1>1. CASE Disconnect
  BY <1>1 DEF Disconnect, TellingInv, BetweenRounds, WithinRound
<1>2. CASE NetworkChanges \/ ConnectionLost \/ StoreStartsAfresh
  BY <1>2, RoundStays DEF NetworkChanges, ConnectionLost, StoreStartsAfresh
<1>3. ASSUME NEW j \in Jobs, JobEnds(j) \/ OthersRecord(j) PROVE TellingInv'
  BY <1>3, RoundStays DEF JobEnds, OthersRecord
<1>4. CASE UNCHANGED vars
  BY <1>4, RoundStays DEF vars
<1> QED  BY <1>1, <1>2, <1>3, <1>4 DEF Next

\* Whoever has read all events of the stream, over all its reconnections, has at
\* the end of each round the status that events() computed for every listed job,
\* and of no other job, unless it left the list while no stream was open.
THEOREM StreamTellsAllHolds == Spec => []StreamTellsAll
<1>1. Init => TellingInv
  BY DEF Init, TellingInv, BetweenRounds, WithinRound
<1>2. Tables /\ TellingInv /\ [Next]_vars => TellingInv'
  BY StreamStepTells, OtherStepTells
<1>3. TellingInv => StreamTellsAll
  BY DEF TellingInv, BetweenRounds, AheadOf, StreamTellsAll
<1> QED  BY <1>1, <1>2, <1>3, TablesInvariant, PTL DEF Spec

\* The log poll never replaces a connection that the stream has (get_connection
\* returns it, whichever loop asks).
THEOREM ConnectionIsKeptHolds == Spec => ConnectionIsKept
<1>1. [Next]_vars => [conn = "own" => conn' # "gone"]_vars
  <2> SUFFICES ASSUME [Next]_vars, conn = "own" PROVE conn' # "gone"
    OBVIOUS
  <2>1. CASE StreamNext
    BY <2>1 DEF StreamNext, Connect, ListRecords, Reconciled, ReconcileFails, ApplyReconciled,
       Refreshes, RefreshFails, RefreshAnswered, Update, PollLogs, EndRound,
       QueryAnswered, QueryFails, FallbackRun
  <2>2. CASE ~StreamNext
    BY <2>2 DEF Next, Disconnect, NetworkChanges, ConnectionLost, StoreStartsAfresh,
       JobEnds, OthersRecord, vars
  <2> QED  BY <2>1, <2>2
<1> QED  BY <1>1, PTL DEF Spec, ConnectionIsKept

----------------------------------------------------------------------------
(* What the reader is told of ends, and what telling them rests on *)

\* Who has an end of j for its status has the one it came to.
TrueEnd(table, j) == table[j] \in Terminal => table[j] = slurm[j]

\* Every table that a status passes through on its way to the reader.
EndsAreTrue ==
    \A j \in Jobs : /\ TrueEnd(store, j) /\ TrueEnd(listed, j) /\ TrueEnd(answer, j)
                    /\ TrueEnd(current, j) /\ TrueEnd(last, j) /\ TrueEnd(told, j)

\* Nothing is no end, and a job that has ended stays as it is.
LEMMA EndsStay ==
    ASSUME Tables, [Next]_vars, NEW j \in Jobs
    PROVE  /\ None \notin Terminal /\ Nothing[j] \notin Terminal
           /\ slurm[j] \in Terminal => slurm'[j] = slurm[j]
<1>1. None \notin Terminal /\ Nothing[j] \notin Terminal
  BY NoneAssumption DEF Nothing, Terminal, JobStatus
<1>2. ASSUME NEW i \in Jobs, JobEnds(i), slurm[j] \in Terminal PROVE slurm'[j] = slurm[j]
  BY <1>2 DEF JobEnds, Tables
<1>3. UNCHANGED slurm \/ \E i \in Jobs : JobEnds(i)
  BY DEF Next, StreamNext, Connect, ListRecords, Reconciled, ReconcileFails, ApplyReconciled,
         Refreshes, RefreshFails, RefreshAnswered, Update, PollLogs, EndRound, Disconnect,
         NetworkChanges, ConnectionLost, StoreStartsAfresh, OthersRecord, worldVars, vars
<1> QED  BY <1>1, <1>2, <1>3

\* A round begins with the records, as they were or as sacct has it.
LEMMA RoundBeginsTrue ==
    ASSUME Tables, [Next]_vars, NEW t \in Table, BeginRound(t),
           NEW j \in Jobs, TrueEnd(t, j)
    PROVE  TrueEnd(listed, j)' /\ TrueEnd(current, j)'
  BY EndsStay DEF BeginRound, FirstOf, TrueEnd

\* A table that a step leaves alone, or clears of a job, is as true as before.
LEMMA TrueEndStays ==
    ASSUME Tables, [Next]_vars, NEW j \in Jobs, NEW t, NEW u,
           TrueEnd(t, j), u[j] \in {t[j], None}
    PROVE  u[j] \in Terminal => u[j] = slurm'[j]
  BY EndsStay DEF TrueEnd

\* The replies that are recorded and merged are as true as they are.
LEMMA MergedTrue ==
    ASSUME Tables, EndsAreTrue, [Next]_vars, NEW j \in Jobs
    PROVE  /\ TrueEnd(Updated(listed, answer), j)
           /\ Recorded(listed, answer)[j] \in Terminal
                 => Recorded(listed, answer)[j] = slurm'[j]
<1>1. Updated(listed, answer)[j] \in {listed[j], answer[j]}
  BY DEF Updated
<1>2. Recorded(listed, answer)[j] \in {store[j], answer[j]}
  BY DEF Recorded
<1> QED  BY <1>1, <1>2, EndsStay DEF EndsAreTrue, TrueEnd

\* No step of the stream, of SLURM or of another writer makes one of them false.
LEMMA EndsStep ==
    ASSUME Tables, Tables', EndsAreTrue, [Next]_vars
    PROVE  EndsAreTrue'
<1> SUFFICES ASSUME NEW j \in Jobs
             PROVE  /\ TrueEnd(store, j)' /\ TrueEnd(listed, j)' /\ TrueEnd(answer, j)'
                    /\ TrueEnd(current, j)' /\ TrueEnd(last, j)' /\ TrueEnd(told, j)'
  BY DEF EndsAreTrue
<1> USE DEF roundVars, toldVars, worldVars
<1>0. /\ TrueEnd(store, j) /\ TrueEnd(listed, j) /\ TrueEnd(answer, j)
      /\ TrueEnd(current, j) /\ TrueEnd(last, j) /\ TrueEnd(told, j)
      /\ None \notin Terminal /\ Nothing[j] \notin Terminal
      /\ slurm[j] \in Terminal => slurm'[j] = slurm[j]
  BY EndsStay DEF EndsAreTrue
<1>1. CASE Connect \/ Disconnect
  BY <1>0, <1>1 DEF Connect, Disconnect, TrueEnd
<1>2. CASE ListRecords
  <2>1. UNCHANGED <<slurm, store, answer, last, told>>
    BY <1>2 DEF ListRecords
  <2>2. TrueEnd(listed, j)' /\ TrueEnd(current, j)'
    BY <1>0, <1>2, <2>1, RoundBeginsTrue DEF ListRecords, TrueEnd, Tables
  <2> QED  BY <1>0, <2>1, <2>2 DEF TrueEnd
<1>3. CASE Reconciled
  <2>1. answer'[j] \in {slurm[j], None} /\ UNCHANGED <<slurm, store, listed, current, last, told>>
    BY <1>3 DEF Reconciled
  <2> QED  BY <1>0, <2>1 DEF TrueEnd
<1>4. CASE ReconcileFails
  <2>1. UNCHANGED <<slurm, store, answer, last, told>>
    BY <1>4 DEF ReconcileFails
  <2>2. TrueEnd(listed, j)' /\ TrueEnd(current, j)'
    BY <1>0, <1>4, RoundBeginsTrue DEF ReconcileFails, Tables
  <2> QED  BY <1>0, <2>1, <2>2 DEF TrueEnd
<1>5. CASE ApplyReconciled
  <2>1. /\ UNCHANGED <<slurm, last, told>> /\ answer' = Nothing
        /\ store' = Recorded(listed, answer)
    BY <1>5 DEF ApplyReconciled
  <2>2. Updated(listed, answer) \in Table
    BY TableOperators DEF Tables
  <2>3. TrueEnd(listed, j)' /\ TrueEnd(current, j)'
    BY <1>5, <2>2, MergedTrue, RoundBeginsTrue DEF ApplyReconciled
  <2> QED  BY <1>0, <2>1, <2>3, MergedTrue DEF TrueEnd
<1>6. CASE Refreshes
  <2>1. /\ answer'[j] \in {slurm[j], answer[j]}
        /\ UNCHANGED <<slurm, store, listed, current, last, told>>
    BY <1>6 DEF Refreshes, RefreshFails, RefreshAnswered, Tables, Table
  <2> QED  BY <1>0, <2>1 DEF TrueEnd
<1>7. ASSUME NEW i \in Jobs, Update(i)
      PROVE  /\ TrueEnd(store, j)' /\ TrueEnd(listed, j)' /\ TrueEnd(answer, j)'
             /\ TrueEnd(current, j)' /\ TrueEnd(last, j)' /\ TrueEnd(told, j)'
  <2>1. /\ UNCHANGED <<slurm, listed, last>> /\ answer' = Nothing
        /\ store' = Recorded(listed, answer)
    BY <1>7 DEF Update
  <2>2. /\ current'[j] \in {current[j], answer[j], listed[j]}
        /\ told'[j] \in {told[j], answer[j], listed[j]}
    BY <1>7 DEF Update, Tables, Table
  <2> QED  BY <1>0, <2>1, <2>2, MergedTrue DEF TrueEnd
<1>8. CASE PollLogs
  BY <1>0, <1>8 DEF PollLogs, TrueEnd
<1>9. CASE EndRound
  <2>1. UNCHANGED <<slurm, store, answer>> /\ last' = current
    BY <1>9 DEF EndRound
  <2>2. told'[j] \in {told[j], None} /\ listed' = Nothing /\ current' = Nothing
    BY <1>9 DEF EndRound
  <2> QED  BY <1>0, <2>1, <2>2 DEF TrueEnd
<1>10. CASE NetworkChanges \/ ConnectionLost \/ StoreStartsAfresh
  BY <1>0, <1>10 DEF NetworkChanges, ConnectionLost, StoreStartsAfresh, TrueEnd
<1>11. ASSUME NEW i \in Jobs, JobEnds(i) \/ OthersRecord(i)
       PROVE  /\ TrueEnd(store, j)' /\ TrueEnd(listed, j)' /\ TrueEnd(answer, j)'
              /\ TrueEnd(current, j)' /\ TrueEnd(last, j)' /\ TrueEnd(told, j)'
  <2>1. store'[j] \in {store[j], "RUNNING", slurm[j]}
    BY <1>11 DEF JobEnds, OthersRecord, Tables, Table
  <2>2. UNCHANGED <<listed, answer, current, last, told>>
    BY <1>11 DEF JobEnds, OthersRecord
  <2> QED  BY <1>0, <2>1, <2>2 DEF TrueEnd, Terminal
<1>12. CASE UNCHANGED vars
  BY <1>0, <1>12 DEF vars, TrueEnd
<1> QED
  BY <1>1, <1>2, <1>3, <1>4, <1>5, <1>6, <1>7, <1>8, <1>9, <1>10, <1>11, <1>12
  DEF Next, StreamNext

\* The reader of the stream never takes a job for ended that has not, or for ended
\* otherwise than it did, although handles, replies and records of other rounds and
\* other writers are mixed (sse.py events, client.py _reconcile_store, refresh_job).
THEOREM ToldEndsAreReal == Spec => [](\A j \in Jobs : TrueEnd(told, j))
<1>1. Init => EndsAreTrue
  BY NoneAssumption DEF Init, EndsAreTrue, TrueEnd, Nothing, Terminal, JobStatus
<1>2. Tables /\ Tables' /\ EndsAreTrue /\ [Next]_vars => EndsAreTrue'
  BY EndsStep
<1>3. EndsAreTrue => \A j \in Jobs : TrueEnd(told, j)
  BY DEF EndsAreTrue
<1> QED  BY <1>1, <1>2, <1>3, TablesInvariant, PTL DEF Spec

\* The stream has SLURM's answer that j has ended and is about to compare it.
HasEnd(j) ==
    /\ pc = "update" /\ j \in todo /\ j = Min(todo)
    /\ slurm[j] \in Terminal /\ answer[j] = slurm[j]

\* An end that a refresh brings is not lost on the way to the reader: the stream
\* keeps it until it is told, or ends itself; and where the comparison with the
\* round before finds no news, the reader has been told already.
EndsAreTold ==
    [][\A j \in Jobs :
          /\ RefreshAnswered(j) /\ slurm[j] \in Terminal => HasEnd(j)'
          /\ HasEnd(j) => HasEnd(j)' \/ Disconnect \/ told'[j] = slurm[j]]_vars

\* What StreamConverges rests on besides fairness: one answered refresh of a job
\* that has ended is enough (sse.py events).
THEOREM HeardEndsAreTold == Spec => EndsAreTold
<1>1. Init => TellingInv
  BY DEF Init, TellingInv, BetweenRounds, WithinRound
<1>2. Tables /\ TellingInv /\ [Next]_vars => TellingInv'
  BY StreamStepTells, OtherStepTells
<1>3. Tables /\ TellingInv /\ [Next]_vars =>
        [\A j \in Jobs :
            /\ RefreshAnswered(j) /\ slurm[j] \in Terminal => HasEnd(j)'
            /\ HasEnd(j) => HasEnd(j)' \/ Disconnect \/ told'[j] = slurm[j]]_vars
  <2> SUFFICES ASSUME Tables, TellingInv, [Next]_vars, NEW j \in Jobs
               PROVE  /\ RefreshAnswered(j) /\ slurm[j] \in Terminal => HasEnd(j)'
                      /\ HasEnd(j) => HasEnd(j)' \/ Disconnect \/ told'[j] = slurm[j]
    OBVIOUS
  <2> USE DEF roundVars, toldVars, worldVars
  <2>1. RefreshAnswered(j) /\ slurm[j] \in Terminal => HasEnd(j)'
    BY DEF RefreshAnswered, HasEnd, Tables, Table
  <2>2. ASSUME HasEnd(j), ~Disconnect PROVE HasEnd(j)' \/ told'[j] = slurm[j]
    <3>1. ASSUME NEW i \in Jobs, Update(i) PROVE told'[j] = slurm[j]
      <4>1. i = j /\ answer[j] = slurm[j] /\ answer[j] # None
        BY <2>2, <3>1, EndsStay DEF Update, HasEnd
      <4>2. told' = IF last[j] # slurm[j] THEN [told EXCEPT ![j] = slurm[j]] ELSE told
        BY <3>1, <4>1 DEF Update
      <4>3. AheadOf(last, j)
        BY <2>2 DEF TellingInv, WithinRound, HasEnd
      <4> QED  BY <4>1, <4>2, <4>3 DEF AheadOf, Tables, Table
    <3>2. CASE UNCHANGED <<pc, todo, answer>>
      BY <2>2, <3>2, EndsStay DEF HasEnd
    <3>3. (\E i \in Jobs : Update(i)) \/ UNCHANGED <<pc, todo, answer>>
      BY <2>2 DEF HasEnd, Next, StreamNext, Connect, ListRecords, Reconciled, ReconcileFails,
         ApplyReconciled, Refreshes, RefreshFails, RefreshAnswered, PollLogs, EndRound,
         NetworkChanges, ConnectionLost, StoreStartsAfresh, JobEnds, OthersRecord, vars
    <3> QED  BY <3>1, <3>2, <3>3
  <2> QED  BY <2>1, <2>2
<1> QED  BY <1>1, <1>2, <1>3, TablesInvariant, PTL DEF Spec, EndsAreTold
============================================================================
