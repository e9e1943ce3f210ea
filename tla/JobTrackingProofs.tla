------------------------- MODULE JobTrackingProofs -------------------------
(***************************************************************************)
(* Proofs about JobTracking for every set of jobs, clients, watchers and    *)
(* end words, and every assignment of operations to clients.                *)
(***************************************************************************)
EXTENDS JobTracking, Naturals, TLAPS

----------------------------------------------------------------------------
(* Lemmas about the operators *)

\* Whatever a row says, it is read as a status, and a missing one as None.
LEMMA StatusType ==
    ASSUME NEW w
    PROVE  /\ SacctStatus(w) \in JobStatus \cup {None}
           /\ SqueueStatus(w) \in JobStatus \cup {None}
           /\ w # None => SacctStatus(w) \in JobStatus
  BY DEF SacctStatus, SqueueStatus, PlainWords, JobStatus

\* Only COMPLETED is read as COMPLETED.
LEMMA CompletedIsCompleted ==
    ASSUME NEW w, SacctStatus(w) = "COMPLETED"
    PROVE  w = "COMPLETED"
  BY StatusAssumption DEF SacctStatus, PlainWords, JobStatus

\* squeue, as the cluster fills it, reports no end at all.
LEMMA SqueueReportsNoEnd ==
    ASSUME NEW w \in LiveWords \cup {"COMPLETING", None}
    PROVE  SqueueStatus(w) \notin Terminal
  BY StatusAssumption DEF LiveWords, SqueueStatus, PlainWords, Terminal, JobStatus

\* A row that is read as an end is one.
LEMMA TerminalRowHasEnded ==
    ASSUME NEW w \in LiveWords \cup EndWords \cup {None}, SacctStatus(w) \in Terminal
    PROVE  w \in EndWords
  BY StatusAssumption DEF LiveWords, SacctStatus, PlainWords, Terminal, JobStatus

\* A client that leaves its operation keeps the types of the control state.
LEMMA LeaveType ==
    ASSUME ControlTypeOK, NEW c \in Clients, Leave(c)
    PROVE  ControlTypeOK'
  BY DEF ControlTypeOK, Leave, Goto, NoReply, Places

\* So does one that is told nothing,
LEMMA ToldType ==
    ASSUME ControlTypeOK, NEW c \in Clients, NEW l \in Places, Told(c, l)
    PROVE  ControlTypeOK'
<1>1. CASE l = "idle"
  BY <1>1, LeaveType DEF Told
<1>2. CASE l # "idle"
  <2>1. /\ pc' = [pc EXCEPT ![c] = l]
        /\ reply' = [reply EXCEPT ![c] = NoReply]
        /\ UNCHANGED <<call, target>>
    BY <1>2 DEF Told, Goto
  <2> QED BY <2>1 DEF ControlTypeOK, NoReply
<1> QED BY <1>1, <1>2

\* one that hears an answer,
LEMMA HearType ==
    ASSUME ControlTypeOK, NEW c \in Clients, NEW l \in Places,
           NEW answer \in [Jobs -> JobStatus \cup {None}], Hear(c, answer, l)
    PROVE  ControlTypeOK'
<1>1. CASE \E j \in Jobs : answer[j] # None
  BY <1>1 DEF Hear, ControlTypeOK, Goto, Places
<1>2. CASE ~ \E j \in Jobs : answer[j] # None
  BY <1>2, ToldType DEF Hear
<1> QED BY <1>1, <1>2

\* and one that begins an operation.
LEMMA EnterType ==
    ASSUME ControlTypeOK, NEW c \in Clients, NEW o \in Operations, NEW js \in SUBSET Jobs,
           NEW l \in Places, Enter(c, o, js, l), UNCHANGED reply
    PROVE  ControlTypeOK'
  BY DEF ControlTypeOK, Enter, Goto

\* A status that is recorded leaves a store of statuses.
LEMMA RecordType ==
    ASSUME TypeOK, NEW j \in Jobs, NEW s \in JobStatus, Record(j, s)
    PROVE  store' \in [Jobs -> JobStatus \cup {None}]
  BY DEF TypeOK, Record

----------------------------------------------------------------------------
(* The cluster *)

\* The cluster keeps its types, an end is final and a scancel is remembered.
LEMMA ClusterStep ==
    ASSUME ClusterTypeOK,
           ClusterNext \/ (\E js \in SUBSET Jobs : Scancel(js)) \/ UNCHANGED clusterVars
    PROVE  /\ ClusterTypeOK'
           /\ \A j \in Jobs : Ended(j) => real'[j] = real[j]
           /\ scancelled \subseteq scancelled'
<1> USE DEF ClusterTypeOK, Ended, Live, LiveWords
<1>1. ASSUME NEW j \in Jobs, Begin(j)
      PROVE  /\ ClusterTypeOK'
             /\ \A k \in Jobs : Ended(k) => real'[k] = real[k]
             /\ scancelled \subseteq scancelled'
  BY <1>1, EndWordsAssumption DEF Begin
<1>2. ASSUME NEW j \in Jobs, End(j)
      PROVE  /\ ClusterTypeOK'
             /\ \A k \in Jobs : Ended(k) => real'[k] = real[k]
             /\ scancelled \subseteq scancelled'
  BY <1>2, EndWordsAssumption DEF End
<1>3. ASSUME NEW j \in Jobs, QueueReports(j)
      PROVE  /\ ClusterTypeOK'
             /\ \A k \in Jobs : Ended(k) => real'[k] = real[k]
             /\ scancelled \subseteq scancelled'
  <2>1. PICK w \in LiveWords \cup {"COMPLETING", None} : queue' = [queue EXCEPT ![j] = w]
    BY <1>3 DEF QueueReports
  <2> QED BY <1>3, <2>1 DEF QueueReports
<1>4. ASSUME NEW j \in Jobs, AcctReports(j) \/ Purge(j)
      PROVE  /\ ClusterTypeOK'
             /\ \A k \in Jobs : Ended(k) => real'[k] = real[k]
             /\ scancelled \subseteq scancelled'
  BY <1>4 DEF AcctReports, Purge
<1>6. ASSUME NEW js \in SUBSET Jobs, Scancel(js)
      PROVE  /\ ClusterTypeOK'
             /\ \A k \in Jobs : Ended(k) => real'[k] = real[k]
             /\ scancelled \subseteq scancelled'
  BY <1>6 DEF Scancel
<1>5. CASE UNCHANGED clusterVars
  BY <1>5 DEF clusterVars
<1> QED BY <1>1, <1>2, <1>3, <1>4, <1>5, <1>6 DEF ClusterNext

\* A step of a client leaves the cluster alone or is an accepted scancel.
LEMMA ClusterOfClient ==
    ASSUME TypeOK, NEW c \in Clients,
           Begins(c) \/ Proceeds(c) \/ WaitTimesOut(c) \/ Abort(c)
    PROVE  (\E js \in SUBSET Jobs : Scancel(js)) \/ UNCHANGED clusterVars
<1>1. CASE Begins(c)
  BY <1>1 DEF Begins, RefreshJob, WaitJob, Status, Reconcile, ReconcileNothing,
              CancelJob, CancelJobById
<1>2. CASE ScancelAccepted(c)
  BY <1>2 DEF ScancelAccepted, TypeOK, ControlTypeOK
<1>3. CASE Proceeds(c) /\ ~ScancelAccepted(c)
  BY <1>3 DEF Proceeds, Applies, SacctAnswers, SacctFails, SqueueAnswers, SqueueFails,
              Apply, ApplyFails, WaitOn, WaitOver, FinalAnswers, FinalMisses, Conclude, Mark
<1>4. CASE WaitTimesOut(c) \/ Abort(c)
  BY <1>4 DEF WaitTimesOut, Abort
<1> QED BY <1>1, <1>2, <1>3, <1>4

\* What a step of the whole does to the cluster.
LEMMA ClusterOfStep ==
    ASSUME TypeOK, [Next]_vars
    PROVE  ClusterNext \/ (\E js \in SUBSET Jobs : Scancel(js)) \/ UNCHANGED clusterVars
  BY ClusterOfClient DEF Next, vars

----------------------------------------------------------------------------
(* Type correctness *)

\* The data of the tracking part; ClusterStep and the Control lemmas have the rest.
DataTypeOK ==
    /\ store \in [Jobs -> JobStatus \cup {None}]
    /\ belief \in [Clients -> [Jobs -> JobStatus \cup {None}]]
    /\ result \in [Clients -> [Jobs -> Results \cup {None}]]

\* Operations that begin keep the types.
LEMMA BeginsType ==
    ASSUME TypeOK, NEW c \in Clients, Begins(c)
    PROVE  ControlTypeOK' /\ DataTypeOK'
<1> USE DEF DataTypeOK
<1>1. ASSUME NEW j \in Jobs,
             RefreshJob(c, j) \/ WaitJob(c, j) \/ CancelJob(c, j) \/ CancelJobById(c, j)
      PROVE  ControlTypeOK' /\ DataTypeOK'
  <2>1. PICK o \in Operations, l \in Places : Enter(c, o, {j}, l)
    BY <1>1 DEF RefreshJob, WaitJob, CancelJob, CancelJobById, Operations, Places
  <2>2. UNCHANGED <<store, belief, reply, result>>
    BY <1>1 DEF RefreshJob, WaitJob, CancelJob, CancelJobById
  <2>3. ControlTypeOK'
    BY <2>1, <2>2, EnterType DEF TypeOK
  <2> QED BY <2>2, <2>3 DEF TypeOK
<1>2. ASSUME NEW j \in Jobs, Status(c, j)
      PROVE  ControlTypeOK' /\ DataTypeOK'
  <2>1. Enter(c, "refresh", {j}, "sacct") /\ UNCHANGED <<store, reply, result>>
    BY <1>2 DEF Status
  <2>2. ControlTypeOK'
    BY <2>1, EnterType DEF TypeOK, Operations, Places
  <2>3. belief' \in [Clients -> [Jobs -> JobStatus \cup {None}]]
    BY <1>2 DEF Status, TypeOK
  <2> QED BY <2>1, <2>2, <2>3 DEF TypeOK
<1>3. CASE Reconcile(c)
  <2>1. PICK js \in SUBSET Jobs : Enter(c, "reconcile", js, "sacct")
    BY <1>3 DEF Reconcile
  <2>2. ControlTypeOK'
    BY <1>3, <2>1, EnterType DEF TypeOK, Operations, Places, Reconcile
  <2>3. belief' \in [Clients -> [Jobs -> JobStatus \cup {None}]]
    BY <1>3 DEF Reconcile, TypeOK
  <2> QED BY <1>3, <2>2, <2>3 DEF TypeOK, Reconcile
<1>4. CASE ReconcileNothing(c)
  <2>1. belief' \in [Clients -> [Jobs -> JobStatus \cup {None}]]
    BY <1>4 DEF ReconcileNothing, TypeOK
  <2> QED BY <1>4, <2>1 DEF TypeOK, ControlTypeOK, ReconcileNothing
<1> QED BY <1>1, <1>2, <1>3, <1>4 DEF Begins

\* Operations that go on keep the types.
LEMMA ProceedsType ==
    ASSUME TypeOK, FinalIsTerminal, NEW c \in Clients,
           Proceeds(c) \/ WaitTimesOut(c) \/ Abort(c)
    PROVE  ControlTypeOK' /\ DataTypeOK'
<1> USE DEF DataTypeOK
<1>a. AfterSacctMiss(c) \in Places /\ AfterQueries(c) \in Places
  BY DEF AfterSacctMiss, AfterQueries, Places
<1>1. CASE SacctAnswers(c)
  <2>1. SacctView(c) \in [Jobs -> JobStatus \cup {None}]
    BY StatusType DEF SacctView
  <2>2. ControlTypeOK'
    BY <1>1, <1>a, <2>1, HearType DEF SacctAnswers, TypeOK
  <2> QED BY <1>1, <2>2 DEF SacctAnswers, TypeOK
<1>2. CASE SqueueAnswers(c)
  <2>1. SqueueView(c) \in [Jobs -> JobStatus \cup {None}]
    BY StatusType DEF SqueueView
  <2>2. ControlTypeOK'
    BY <1>2, <1>a, <2>1, HearType DEF SqueueAnswers, TypeOK
  <2> QED BY <1>2, <2>2 DEF SqueueAnswers, TypeOK
<1>3. CASE SacctFails(c) \/ SqueueFails(c)
  <2>1. ControlTypeOK'
    BY <1>3, <1>a, ToldType DEF SacctFails, SqueueFails, TypeOK
  <2> QED BY <1>3, <2>1 DEF SacctFails, SqueueFails, TypeOK
<1>4. ASSUME NEW j \in Jobs, Apply(c, j) PROVE ControlTypeOK' /\ DataTypeOK'
  <2>1. reply[c][j] \in JobStatus
    BY <1>4 DEF Apply, TypeOK, ControlTypeOK
  <2>2. ControlTypeOK'
    <3>1. CASE \E k \in Jobs \ {j} : reply[c][k] # None
      <4>1. /\ reply' = [reply EXCEPT ![c][j] = None]
            /\ UNCHANGED <<pc, call, target>>
        BY <1>4, <3>1 DEF Apply
      <4> QED BY <4>1 DEF TypeOK, ControlTypeOK
    <3>2. CASE ~ \E k \in Jobs \ {j} : reply[c][k] # None
      BY <1>4, <1>a, <3>2, ToldType DEF Apply, TypeOK
    <3> QED BY <3>1, <3>2
  <2>3. store' \in [Jobs -> JobStatus \cup {None}]
    BY <1>4, <2>1, RecordType DEF Apply, TypeOK
  <2>4. belief' \in [Clients -> [Jobs -> JobStatus \cup {None}]]
    BY <1>4, <2>1 DEF Apply, TypeOK
  <2> QED BY <1>4, <2>2, <2>3, <2>4 DEF Apply, TypeOK
<1>5. CASE ApplyFails(c) \/ WaitTimesOut(c) \/ Abort(c)
  <2>1. ControlTypeOK'
    BY <1>5, LeaveType DEF ApplyFails, WaitTimesOut, Abort, TypeOK
  <2> QED BY <1>5, <2>1 DEF ApplyFails, WaitTimesOut, Abort, TypeOK
<1>6. CASE WaitOn(c) \/ WaitOver(c)
  <2>1. ControlTypeOK'
    BY <1>6 DEF WaitOn, WaitOver, Goto, TypeOK, ControlTypeOK, Places
  <2> QED BY <1>6, <2>1 DEF WaitOn, WaitOver, TypeOK
<1>7. CASE FinalAnswers(c) \/ FinalMisses(c)
  <2>1. PICK j \in Jobs, s \in JobStatus, z \in BOOLEAN : Conclude(c, j, s, z)
    <3>1. CASE FinalAnswers(c)
      BY <1>7, <3>1, StatusType DEF FinalAnswers, TypeOK, ControlTypeOK
    <3>2. CASE FinalMisses(c)
      BY <3>2 DEF FinalMisses, TypeOK, ControlTypeOK, FinalIsTerminal, Terminal, JobStatus
    <3> QED BY <1>7, <3>1, <3>2
  <2>2. ControlTypeOK'
    BY <2>1, LeaveType DEF Conclude, TypeOK
  <2>3. result' \in [Clients -> [Jobs -> Results \cup {None}]]
    <3> DEFINE r == [status |-> s,
                     raised |-> \/ s \in {"FAILED", "TIMEOUT", "CANCELLED"}
                                \/ s = "COMPLETED" /\ ~z]
    <3>1. r \in Results
      BY DEF Results
    <3>2. result' = [result EXCEPT ![c][j] = r]
      BY <2>1 DEF Conclude
    <3> HIDE DEF r
    <3> QED BY <3>1, <3>2 DEF TypeOK
  <2> QED BY <2>1, <2>2, <2>3 DEF Conclude, TypeOK
<1>8. CASE ScancelAccepted(c)
  <2>1. ControlTypeOK'
    <3>1. CASE call[c] = "cancel"
      <4>1. Goto(c, "mark") /\ UNCHANGED <<call, target, reply>>
        BY <1>8, <3>1 DEF ScancelAccepted
      <4> QED BY <4>1 DEF Goto, TypeOK, ControlTypeOK, Places
    <3>2. CASE call[c] # "cancel"
      <4>1. Leave(c)
        BY <1>8, <3>2 DEF ScancelAccepted
      <4> QED BY <4>1, LeaveType DEF TypeOK
    <3> QED BY <3>1, <3>2
  <2> QED BY <1>8, <2>1 DEF ScancelAccepted, TypeOK
<1>9. CASE Mark(c)
  <2>1. PICK j \in Jobs : /\ Record(j, "CANCELLED")
                         /\ belief' = [belief EXCEPT ![c][j] = "CANCELLED"]
    BY <1>9 DEF Mark, TypeOK, ControlTypeOK
  <2>2. ControlTypeOK'
    BY <1>9, LeaveType DEF Mark, TypeOK
  <2>3. store' \in [Jobs -> JobStatus \cup {None}]
    BY <2>1, RecordType DEF JobStatus
  <2>4. belief' \in [Clients -> [Jobs -> JobStatus \cup {None}]]
    BY <2>1 DEF TypeOK, JobStatus
  <2> QED BY <1>9, <2>2, <2>3, <2>4 DEF Mark, TypeOK
<1> QED BY <1>1, <1>2, <1>3, <1>4, <1>5, <1>6, <1>7, <1>8, <1>9 DEF Proceeds, Applies

\* Every step keeps the types.
LEMMA TypeStep == TypeOK /\ FinalIsTerminal /\ [Next]_vars => TypeOK'
<1> SUFFICES ASSUME TypeOK, FinalIsTerminal, [Next]_vars PROVE TypeOK'
  OBVIOUS
<1>1. ClusterTypeOK'
  BY ClusterOfStep, ClusterStep DEF TypeOK
<1>2. CASE UNCHANGED <<store, clientVars>>
  BY <1>1, <1>2 DEF TypeOK, ControlTypeOK, clientVars
<1>3. ASSUME NEW c \in Clients, Begins(c) \/ Proceeds(c) \/ WaitTimesOut(c) \/ Abort(c)
      PROVE  TypeOK'
  BY <1>1, <1>3, BeginsType, ProceedsType DEF TypeOK, DataTypeOK
<1> QED BY <1>2, <1>3 DEF Next, vars

----------------------------------------------------------------------------
(* What a step of a client does to the clients *)

\* The step of one client leaves the others alone.
LEMMA OthersKeep ==
    ASSUME TypeOK, NEW c \in Clients, NEW d \in Clients, d # c,
           Begins(c) \/ Proceeds(c) \/ WaitTimesOut(c) \/ Abort(c)
    PROVE  /\ pc'[d] = pc[d] /\ target'[d] = target[d] /\ call'[d] = call[d]
           /\ belief'[d] = belief[d] /\ reply'[d] = reply[d] /\ result'[d] = result[d]
<1> USE DEF TypeOK, ControlTypeOK, Enter, Leave, Told, Goto
<1>1. CASE Begins(c)
  BY <1>1 DEF Begins, RefreshJob, WaitJob, Status, Reconcile, ReconcileNothing,
              CancelJob, CancelJobById
<1>2. CASE SacctAnswers(c) \/ SacctFails(c) \/ SqueueAnswers(c) \/ SqueueFails(c)
  BY <1>2 DEF SacctAnswers, SacctFails, SqueueAnswers, SqueueFails, Hear
<1>3. CASE Applies(c)
  <2>1. PICK j \in Jobs : Apply(c, j)
    BY <1>3 DEF Applies
  <2>2. belief'[d] = belief[d] /\ result'[d] = result[d]
    BY <2>1 DEF Apply
  <2>3. CASE \E k \in Jobs \ {j} : reply[c][k] # None
    BY <2>1, <2>2, <2>3 DEF Apply
  <2>4. CASE ~ \E k \in Jobs \ {j} : reply[c][k] # None
    BY <2>1, <2>2, <2>4 DEF Apply
  <2> QED BY <2>3, <2>4
<1>4. CASE ApplyFails(c) \/ WaitTimesOut(c) \/ Abort(c) \/ WaitOn(c) \/ WaitOver(c)
  BY <1>4 DEF ApplyFails, WaitTimesOut, Abort, WaitOn, WaitOver
<1>5. CASE FinalAnswers(c) \/ FinalMisses(c)
  BY <1>5 DEF FinalAnswers, FinalMisses, Conclude
<1>6. CASE ScancelAccepted(c) \/ Mark(c)
  BY <1>6 DEF ScancelAccepted, Mark
<1> QED BY <1>1, <1>2, <1>3, <1>4, <1>5, <1>6 DEF Proceeds

\* A client is in the final lookup only with a terminal handle.
LEMMA FinalStep == TypeOK /\ FinalIsTerminal /\ [Next]_vars => FinalIsTerminal'
<1> SUFFICES ASSUME TypeOK, FinalIsTerminal, [Next]_vars PROVE FinalIsTerminal'
  OBVIOUS
<1>1. CASE UNCHANGED clientVars
  BY <1>1 DEF FinalIsTerminal, clientVars
<1>2. ASSUME NEW c \in Clients, Begins(c) \/ Proceeds(c) \/ WaitTimesOut(c) \/ Abort(c)
      PROVE  FinalIsTerminal'
  <2>1. pc'[c] = "final" => WaitOver(c)
    <3> USE DEF TypeOK, ControlTypeOK, Enter, Leave, Told, Goto
    <3>1. CASE Begins(c)
      BY <3>1 DEF Begins, RefreshJob, WaitJob, Status, Reconcile, ReconcileNothing,
                  CancelJob, CancelJobById
    <3>2. CASE SacctAnswers(c) \/ SacctFails(c) \/ SqueueAnswers(c) \/ SqueueFails(c)
      BY <3>2 DEF SacctAnswers, SacctFails, SqueueAnswers, SqueueFails, Hear,
                  AfterSacctMiss, AfterQueries
    <3>3. ASSUME NEW j \in Jobs, Apply(c, j) PROVE pc'[c] # "final"
      BY <3>3 DEF Apply, AfterQueries
    <3>4. CASE ApplyFails(c) \/ WaitTimesOut(c) \/ Abort(c) \/ WaitOn(c)
      BY <3>4 DEF ApplyFails, WaitTimesOut, Abort, WaitOn
    <3>5. CASE FinalAnswers(c) \/ FinalMisses(c) \/ ScancelAccepted(c) \/ Mark(c)
      BY <3>5 DEF FinalAnswers, FinalMisses, Conclude, ScancelAccepted, Mark
    <3> QED BY <1>2, <3>1, <3>2, <3>3, <3>4, <3>5 DEF Proceeds, Applies
  <2>2. pc'[c] = "final" => \A j \in target'[c] : belief'[c][j] \in Terminal
    BY <2>1 DEF WaitOver
  <2>3. ASSUME NEW d \in Clients, d # c, pc'[d] = "final"
        PROVE  \A j \in target'[d] : belief'[d][j] \in Terminal
    <3>1. pc'[d] = pc[d] /\ target'[d] = target[d] /\ belief'[d] = belief[d]
      BY <1>2, <2>3, OthersKeep
    <3> QED BY <2>3, <3>1 DEF FinalIsTerminal
  <2> QED BY <2>2, <2>3 DEF FinalIsTerminal
<1> QED BY <1>1, <1>2 DEF Next, vars, clientVars

\* The tracking part keeps its types: for every set of clients, jobs and end
\* words, all variables stay well typed and a result is taken only from a
\* terminal status or a row of sacct (client.py wait_job).
THEOREM TypeCorrect == Spec => [](TypeOK /\ FinalIsTerminal)
<1>1. Init => TypeOK /\ FinalIsTerminal
  <2> SUFFICES ASSUME Init PROVE TypeOK /\ FinalIsTerminal
    OBVIOUS
  <2>1. ClusterTypeOK
    BY DEF Init, ClusterInit, ClusterTypeOK, LiveWords
  <2>2. store \in [Jobs -> JobStatus \cup {None}]
    BY DEF Init, JobStatus
  <2>3. ControlTypeOK /\ FinalIsTerminal
    BY DEF Init, ControlTypeOK, FinalIsTerminal, NoReply, Places
  <2>4. /\ belief \in [Clients -> [Jobs -> JobStatus \cup {None}]]
        /\ result \in [Clients -> [Jobs -> Results \cup {None}]]
    BY <2>2 DEF Init, NoReply
  <2> QED BY <2>1, <2>2, <2>3, <2>4 DEF TypeOK
<1> QED BY <1>1, TypeStep, FinalStep, PTL DEF Spec

----------------------------------------------------------------------------
(* Truth *)

\* What is true of a job stays true, since its end is final and a scancel stands:
\* a status of the next state that was true before the step is true after it.
LEMMA TruthOfNext ==
    ASSUME TypeOK, [Next]_vars, NEW j \in Jobs
    PROVE  /\ Truthful(j, store'[j]) => Truthful(j, store[j])'
           /\ \A c \in Clients :
                  /\ Truthful(j, belief'[c][j]) => Truthful(j, belief[c][j])'
                  /\ Truthful(j, reply'[c][j]) => Truthful(j, reply[c][j])'
<1>1. (Ended(j) => real'[j] = real[j]) /\ scancelled \subseteq scancelled'
  BY ClusterOfStep, ClusterStep DEF TypeOK
<1> QED BY <1>1 DEF Truthful, Ended

\* The views say nothing that is not true.
LEMMA ViewsStep ==
    ASSUME TypeOK, ViewsAreTrue, [Next]_vars
    PROVE  ViewsAreTrue'
<1>1. \A j \in Jobs : Ended(j) => real'[j] = real[j]
  BY ClusterOfStep, ClusterStep DEF TypeOK
<1>2. ASSUME NEW k \in Jobs, AcctReports(k) PROVE ViewsAreTrue'
  BY <1>2 DEF AcctReports, ViewsAreTrue, TypeOK, ClusterTypeOK
<1>3. ASSUME NEW k \in Jobs, Purge(k) PROVE ViewsAreTrue'
  BY <1>3, EndWordsAssumption DEF Purge, ViewsAreTrue, TypeOK, ClusterTypeOK
<1>4. CASE UNCHANGED acct
  BY <1>1, <1>4 DEF ViewsAreTrue, Ended
<1>5. ClusterNext => UNCHANGED acct \/ \E k \in Jobs : AcctReports(k) \/ Purge(k)
  BY DEF ClusterNext, Begin, End, QueueReports
<1> QED BY <1>2, <1>3, <1>4, <1>5, ClusterOfStep DEF Scancel, clusterVars

\* Of what sacct and squeue answer, an end is true.
LEMMA AnswersAreTrue ==
    ASSUME TypeOK, ViewsAreTrue, NEW c \in Clients, NEW j \in Jobs
    PROVE  Truthful(j, SacctView(c)[j]) /\ Truthful(j, SqueueView(c)[j])
<1>0. None \notin Terminal
  BY StatusAssumption DEF Terminal, JobStatus
<1>1. SacctStatus(acct[j]) \in Terminal => Ended(j) /\ acct[j] = real[j]
  BY TerminalRowHasEnded DEF ViewsAreTrue, TypeOK, ClusterTypeOK, Ended
<1>2. SqueueStatus(queue[j]) \notin Terminal
  BY SqueueReportsNoEnd DEF TypeOK, ClusterTypeOK
<1> QED BY <1>0, <1>1, <1>2 DEF Truthful, SacctView, SqueueView

\* Statuses on their way, the records and the marks, in one invariant.
StatusInv == RecordedEndIsReal /\ ViewsAreTrue /\ BeliefsAreTrue /\ MarkFollowsScancel

\* What client c may have put into the places of job j: a record or a handle from
\* what it held, the record, or the mark of an accepted scancel; a reply from SLURM.
Moves(c, j) ==
    LET marked == IF pc[c] = "mark" /\ j \in target[c] THEN {"CANCELLED"} ELSE {}
    IN  /\ \/ store'[j] = store[j]
           \/ store'[j] \in ({reply[c][j]} \cup marked) \ {None}
        /\ belief'[c][j] \in {belief[c][j], store[j], reply[c][j]} \cup marked
        /\ reply'[c][j] \in {reply[c][j], None, SacctView(c)[j], SqueueView(c)[j]}

\* No step of a client puts a status anywhere that comes from anywhere else.
LEMMA StatusesMove ==
    ASSUME TypeOK, NEW c \in Clients, NEW j \in Jobs,
           Begins(c) \/ Proceeds(c) \/ WaitTimesOut(c) \/ Abort(c)
    PROVE  Moves(c, j)
<1>c. ASSUME Leave(c) PROVE reply'[c][j] = None
  BY <1>c DEF Leave, NoReply, TypeOK, ControlTypeOK
<1>d. ASSUME NEW l, Told(c, l) PROVE reply'[c][j] = None
  <2>1. CASE l = "idle"
    BY <1>c, <1>d, <2>1 DEF Told
  <2>2. CASE l # "idle"
    BY <1>d, <2>2 DEF Told, NoReply, TypeOK, ControlTypeOK
  <2> QED BY <2>1, <2>2
<1>1. CASE Begins(c)
  <2>1. UNCHANGED <<store, reply>>
    BY <1>1 DEF Begins, RefreshJob, WaitJob, Status, Reconcile, ReconcileNothing,
                CancelJob, CancelJobById
  <2>2. belief'[c][j] \in {belief[c][j], store[j]}
    <3>1. ASSUME NEW k \in Jobs, Status(c, k) PROVE belief'[c][j] \in {belief[c][j], store[j]}
      BY <3>1 DEF Status, TypeOK
    <3>2. CASE Reconcile(c) \/ ReconcileNothing(c)
      <4>1. belief' = [belief EXCEPT ![c] =
                [i \in Jobs |-> IF store[i] = None THEN belief[c][i] ELSE store[i]]]
        BY <3>2 DEF Reconcile, ReconcileNothing
      <4> QED BY <4>1 DEF TypeOK
    <3>3. ASSUME NEW k \in Jobs,
                 RefreshJob(c, k) \/ WaitJob(c, k) \/ CancelJob(c, k) \/ CancelJobById(c, k)
          PROVE  belief'[c][j] \in {belief[c][j], store[j]}
      BY <3>3 DEF RefreshJob, WaitJob, CancelJob, CancelJobById
    <3> QED BY <1>1, <3>1, <3>2, <3>3 DEF Begins
  <2> QED BY <2>1, <2>2 DEF Moves
<1>2. CASE SacctAnswers(c) \/ SqueueAnswers(c)
  <2>1. UNCHANGED <<store, belief>>
    BY <1>2 DEF SacctAnswers, SqueueAnswers
  <2>2. PICK answer, l : answer \in {SacctView(c), SqueueView(c)} /\ Hear(c, answer, l)
    BY <1>2 DEF SacctAnswers, SqueueAnswers
  <2>3. reply'[c][j] \in {None, answer[j]}
    <3>1. CASE \E k \in Jobs : answer[k] # None
      BY <2>2, <3>1 DEF Hear, TypeOK, ControlTypeOK
    <3>2. CASE ~ \E k \in Jobs : answer[k] # None
      BY <1>d, <2>2, <3>2 DEF Hear
    <3> QED BY <3>1, <3>2
  <2> QED BY <2>1, <2>2, <2>3 DEF Moves
<1>3. CASE SacctFails(c) \/ SqueueFails(c)
  <2>1. UNCHANGED <<store, belief>>
    BY <1>3 DEF SacctFails, SqueueFails
  <2>2. \E l : Told(c, l)
    BY <1>3 DEF SacctFails, SqueueFails
  <2> QED BY <1>d, <2>1, <2>2 DEF Moves
<1>4. ASSUME NEW k \in Jobs, Apply(c, k)
      PROVE  Moves(c, j)
  <2>1. store'[j] = store[j] \/ store'[j] \in {reply[c][j]} \ {None}
    BY <1>4 DEF Apply, Record, TypeOK
  <2>2. belief'[c][j] \in {belief[c][j], reply[c][j]}
    BY <1>4 DEF Apply, TypeOK
  <2>3. reply'[c][j] \in {reply[c][j], None}
    <3>1. CASE \E i \in Jobs \ {k} : reply[c][i] # None
      <4>1. reply' = [reply EXCEPT ![c][k] = None]
        BY <1>4, <3>1 DEF Apply
      <4> QED BY <4>1 DEF TypeOK, ControlTypeOK
    <3>2. CASE ~ \E i \in Jobs \ {k} : reply[c][i] # None
      BY <1>4, <1>d, <3>2 DEF Apply
    <3> QED BY <3>1, <3>2
  <2> QED BY <2>1, <2>2, <2>3 DEF Moves
<1>5. CASE ApplyFails(c) \/ WaitTimesOut(c) \/ Abort(c)
  BY <1>c, <1>5 DEF ApplyFails, WaitTimesOut, Abort, Moves
<1>6. CASE WaitOn(c) \/ WaitOver(c)
  BY <1>6 DEF WaitOn, WaitOver, Moves
<1>7. CASE FinalAnswers(c) \/ FinalMisses(c)
  BY <1>c, <1>7 DEF FinalAnswers, FinalMisses, Conclude, Moves
<1>8. CASE ScancelAccepted(c)
  <2>1. UNCHANGED <<store, belief>> /\ (Leave(c) \/ UNCHANGED reply)
    BY <1>8 DEF ScancelAccepted
  <2> QED BY <1>c, <2>1 DEF Moves
<1>9. CASE Mark(c)
  <2>1. PICK k \in target[c] : /\ Record(k, "CANCELLED")
                              /\ belief' = [belief EXCEPT ![c][k] = "CANCELLED"]
    BY <1>9 DEF Mark
  <2>2. pc[c] = "mark"
    BY <1>9 DEF Mark
  <2>4. store'[j] = store[j] \/ (j = k /\ store'[j] = "CANCELLED")
    BY <2>1 DEF Record, TypeOK
  <2>5. belief'[c][j] = belief[c][j] \/ (j = k /\ belief'[c][j] = "CANCELLED")
    BY <2>1 DEF TypeOK
  <2>6. reply'[c][j] = None
    BY <1>9, <1>c DEF Mark
  <2>7. None # "CANCELLED"
    BY StatusAssumption DEF JobStatus
  <2> QED BY <2>1, <2>2, <2>4, <2>5, <2>6, <2>7 DEF Moves
<1> QED BY <1>1, <1>2, <1>3, <1>4, <1>5, <1>6, <1>7, <1>8, <1>9 DEF Proceeds, Applies

\* Every status that a step of a client puts anywhere was true before the step.
LEMMA ClientTruth ==
    ASSUME TypeOK, StatusInv, NEW c \in Clients,
           Begins(c) \/ Proceeds(c) \/ WaitTimesOut(c) \/ Abort(c)
    PROVE  \A j \in Jobs : /\ Truthful(j, store'[j])
                          /\ Truthful(j, belief'[c][j])
                          /\ Truthful(j, reply'[c][j])
<1> SUFFICES ASSUME NEW j \in Jobs
             PROVE  /\ Truthful(j, store'[j])
                    /\ Truthful(j, belief'[c][j])
                    /\ Truthful(j, reply'[c][j])
  OBVIOUS
<1>1. Truthful(j, None)
  BY StatusAssumption DEF Truthful, Terminal, JobStatus
<1>2. Truthful(j, store[j]) /\ Truthful(j, belief[c][j]) /\ Truthful(j, reply[c][j])
  BY DEF StatusInv, RecordedEndIsReal, BeliefsAreTrue
<1>3. Truthful(j, SacctView(c)[j]) /\ Truthful(j, SqueueView(c)[j])
  BY AnswersAreTrue DEF StatusInv
<1>4. pc[c] = "mark" /\ j \in target[c] => Truthful(j, "CANCELLED")
  BY DEF StatusInv, MarkFollowsScancel, Truthful
<1>5. Moves(c, j)
  BY StatusesMove
<1> QED BY <1>1, <1>2, <1>3, <1>4, <1>5 DEF Moves

\* The mark follows an accepted scancel of the same job.
LEMMA MarkStep ==
    ASSUME TypeOK, StatusInv, [Next]_vars
    PROVE  MarkFollowsScancel'
<1>0. scancelled \subseteq scancelled'
  BY ClusterOfStep, ClusterStep DEF TypeOK
<1>1. CASE UNCHANGED clientVars
  BY <1>0, <1>1 DEF StatusInv, MarkFollowsScancel, clientVars
<1>2. ASSUME NEW c \in Clients, Begins(c) \/ Proceeds(c) \/ WaitTimesOut(c) \/ Abort(c)
      PROVE  MarkFollowsScancel'
  <2>1. pc'[c] = "mark" => ScancelAccepted(c) /\ target'[c] = target[c]
    <3> USE DEF TypeOK, ControlTypeOK, Enter, Leave, Told, Goto
    <3>1. CASE Begins(c)
      <4>1. CASE ReconcileNothing(c)
        BY <4>1 DEF ReconcileNothing
      <4> QED BY <3>1, <4>1 DEF Begins, RefreshJob, WaitJob, Status, Reconcile,
                                CancelJob, CancelJobById
    <3>2. CASE SacctAnswers(c) \/ SacctFails(c) \/ SqueueAnswers(c) \/ SqueueFails(c)
      BY <3>2 DEF SacctAnswers, SacctFails, SqueueAnswers, SqueueFails, Hear,
                  AfterSacctMiss, AfterQueries
    <3>3. ASSUME NEW j \in Jobs, Apply(c, j) PROVE pc'[c] # "mark"
      BY <3>3 DEF Apply, AfterQueries
    <3>4. CASE ApplyFails(c) \/ WaitTimesOut(c) \/ Abort(c) \/ WaitOn(c) \/ WaitOver(c)
      BY <3>4 DEF ApplyFails, WaitTimesOut, Abort, WaitOn, WaitOver
    <3>5. CASE FinalAnswers(c) \/ FinalMisses(c) \/ Mark(c)
      BY <3>5 DEF FinalAnswers, FinalMisses, Conclude, Mark
    <3>6. CASE ScancelAccepted(c)
      BY <3>6 DEF ScancelAccepted
    <3> QED BY <1>2, <3>1, <3>2, <3>3, <3>4, <3>5, <3>6 DEF Proceeds, Applies
  <2>2. pc'[c] = "mark" => target'[c] \subseteq scancelled'
    <3> SUFFICES ASSUME pc'[c] = "mark" PROVE target'[c] \subseteq scancelled'
      OBVIOUS
    <3>1. Scancel(target[c])
      BY <2>1 DEF ScancelAccepted
    <3> QED BY <2>1, <3>1 DEF Scancel
  <2>3. ASSUME NEW d \in Clients, d # c, pc'[d] = "mark"
        PROVE  target'[d] \subseteq scancelled'
    <3>1. pc'[d] = pc[d] /\ target'[d] = target[d]
      BY <1>2, <2>3, OthersKeep
    <3> QED BY <1>0, <2>3, <3>1 DEF StatusInv, MarkFollowsScancel
  <2> QED BY <2>2, <2>3 DEF MarkFollowsScancel
<1> QED BY <1>1, <1>2 DEF Next, vars, clientVars

\* Every step keeps all ends true, from view to record.
LEMMA StatusStep == TypeOK /\ StatusInv /\ [Next]_vars => StatusInv'
<1> SUFFICES ASSUME TypeOK, StatusInv, [Next]_vars PROVE StatusInv'
  OBVIOUS
<1>1. ViewsAreTrue' /\ MarkFollowsScancel'
  BY ViewsStep, MarkStep DEF StatusInv
<1>2. CASE UNCHANGED <<store, clientVars>>
  <2>1. ASSUME NEW j \in Jobs PROVE Truthful(j, store[j])'
    <3>1. Truthful(j, store[j])
      BY DEF StatusInv, RecordedEndIsReal
    <3>2. Truthful(j, store'[j])
      BY <1>2, <3>1
    <3> QED BY <3>2, TruthOfNext
  <2>2. ASSUME NEW c \in Clients, NEW j \in Jobs
        PROVE  Truthful(j, belief[c][j])' /\ Truthful(j, reply[c][j])'
    <3>1. Truthful(j, belief'[c][j]) /\ Truthful(j, reply'[c][j])
      BY <1>2 DEF StatusInv, BeliefsAreTrue, clientVars
    <3> QED BY <3>1, TruthOfNext
  <2> QED BY <1>1, <2>1, <2>2 DEF StatusInv, RecordedEndIsReal, BeliefsAreTrue
<1>3. ASSUME NEW c \in Clients, Begins(c) \/ Proceeds(c) \/ WaitTimesOut(c) \/ Abort(c)
      PROVE  StatusInv'
  <2>1. ASSUME NEW j \in Jobs PROVE Truthful(j, store[j])'
    <3>1. Truthful(j, store'[j])
      BY <1>3, ClientTruth
    <3> QED BY <3>1, TruthOfNext
  <2>2. ASSUME NEW d \in Clients, NEW j \in Jobs
        PROVE  Truthful(j, belief[d][j])' /\ Truthful(j, reply[d][j])'
    <3>1. CASE d = c
      <4>1. Truthful(j, belief'[d][j]) /\ Truthful(j, reply'[d][j])
        BY <1>3, <3>1, ClientTruth
      <4> QED BY <4>1, TruthOfNext
    <3>2. CASE d # c
      <4>1. belief'[d] = belief[d] /\ reply'[d] = reply[d]
        BY <1>3, <3>2, OthersKeep
      <4>2. Truthful(j, belief'[d][j]) /\ Truthful(j, reply'[d][j])
        BY <4>1 DEF StatusInv, BeliefsAreTrue
      <4> QED BY <4>2, TruthOfNext
    <3> QED BY <3>1, <3>2
  <2> QED BY <1>1, <2>1, <2>2 DEF StatusInv, RecordedEndIsReal, BeliefsAreTrue
<1> QED BY <1>2, <1>3 DEF Next, vars, clientVars

\* A completed job stays completed.
LEMMA CompletedIsFinal ==
    ASSUME TypeOK, [Next]_vars, NEW j \in Jobs, real[j] = "COMPLETED"
    PROVE  real'[j] = "COMPLETED"
<1>1. Ended(j)
  BY StatusAssumption DEF TypeOK, ClusterTypeOK, LiveWords, Ended, JobStatus
<1>2. Ended(j) => real'[j] = real[j]
  BY ClusterOfStep, ClusterStep DEF TypeOK
<1> QED BY <1>1, <1>2

\* Both lookups of wait_job tell the truth about success.
LEMMA ConclusionIsReal ==
    ASSUME TypeOK, StatusInv, NEW c \in Clients, NEW j \in target[c], NEW s, NEW z,
           Conclude(c, j, s, z), s = "COMPLETED",
           s = SacctStatus(acct[j]) \/ s = belief[c][j]
    PROVE  real[j] = "COMPLETED"
<1>0. j \in Jobs /\ "COMPLETED" \in Terminal
  BY DEF TypeOK, ControlTypeOK, Terminal
<1>1. CASE s = SacctStatus(acct[j])
  <2>1. acct[j] = "COMPLETED"
    BY <1>1, CompletedIsCompleted
  <2>2. acct[j] \in EndWords
    BY <1>0, <2>1, StatusAssumption DEF TypeOK, ClusterTypeOK, LiveWords, JobStatus
  <2> QED BY <1>0, <2>1, <2>2 DEF StatusInv, ViewsAreTrue
<1>2. CASE s = belief[c][j]
  <2>1. SacctStatus(real[j]) = "COMPLETED"
    BY <1>0, <1>2 DEF StatusInv, BeliefsAreTrue, Truthful
  <2> QED BY <2>1, CompletedIsCompleted
<1> QED BY <1>1, <1>2

\* Every step keeps successes real.
LEMMA SuccessStep == TypeOK /\ StatusInv /\ SuccessIsReal /\ [Next]_vars => SuccessIsReal'
<1> SUFFICES ASSUME TypeOK, StatusInv, SuccessIsReal, [Next]_vars,
                    NEW d \in Clients, NEW k \in Jobs,
                    result'[d][k] # None, result'[d][k].status = "COMPLETED"
             PROVE  real'[k] = "COMPLETED"
  BY DEF SuccessIsReal
<1>1. CASE result'[d][k] = result[d][k]
  BY <1>1, CompletedIsFinal DEF SuccessIsReal
<1>2. ASSUME NEW c \in Clients, Begins(c) \/ Proceeds(c) \/ WaitTimesOut(c) \/ Abort(c)
      PROVE  real'[k] = "COMPLETED"
  <2>1. CASE d # c
    BY <1>1, <1>2, <2>1, OthersKeep
  <2>2. CASE FinalAnswers(c)
    <3>1. PICK j \in target[c] : Conclude(c, j, SacctStatus(acct[j]), acct[j] = "COMPLETED")
      BY <2>2 DEF FinalAnswers
    <3>2. CASE d = c /\ k = j
      <4>1. result'[d][k].status = SacctStatus(acct[j])
        BY <3>1, <3>2 DEF Conclude, TypeOK
      <4>2. real[j] = "COMPLETED"
        BY <3>1, <4>1, ConclusionIsReal
      <4> QED BY <3>2, <4>2, CompletedIsFinal
    <3>3. CASE d = c /\ k # j
      BY <1>1, <3>1, <3>3 DEF Conclude, TypeOK
    <3> QED BY <2>1, <3>2, <3>3
  <2>3. CASE FinalMisses(c)
    <3>1. PICK j \in target[c] : Conclude(c, j, belief[c][j], FALSE)
      BY <2>3 DEF FinalMisses
    <3>2. CASE d = c /\ k = j
      <4>1. result'[d][k].status = belief[c][j]
        BY <3>1, <3>2 DEF Conclude, TypeOK
      <4>2. real[j] = "COMPLETED"
        BY <3>1, <4>1, ConclusionIsReal
      <4> QED BY <3>2, <4>2, CompletedIsFinal
    <3>3. CASE d = c /\ k # j
      BY <1>1, <3>1, <3>3 DEF Conclude, TypeOK
    <3> QED BY <2>1, <3>2, <3>3
  <2>4. CASE Begins(c)
    BY <1>1, <2>4 DEF Begins, RefreshJob, WaitJob, Status, Reconcile, ReconcileNothing,
                      CancelJob, CancelJobById
  <2>5. CASE Proceeds(c) /\ ~FinalAnswers(c) /\ ~FinalMisses(c)
    BY <1>1, <2>5 DEF Proceeds, Applies, SacctAnswers, SacctFails, SqueueAnswers,
                      SqueueFails, Apply, ApplyFails, WaitOn, WaitOver, ScancelAccepted, Mark
  <2>6. CASE WaitTimesOut(c) \/ Abort(c)
    BY <1>1, <2>6 DEF WaitTimesOut, Abort
  <2> QED BY <1>2, <2>2, <2>3, <2>4, <2>5, <2>6
<1> QED BY <1>1, <1>2 DEF Next, vars, clientVars

----------------------------------------------------------------------------
(* The results *)

\* TrackingInv holds in every reachable state: every status on its way from
\* SLURM to a record or a result is true, however clients, lagging views,
\* failing queries and aborted operations interleave (client.py).
THEOREM TrackingSafe == Spec => []TrackingInv
<1>1. Init => StatusInv /\ SuccessIsReal
  <2> SUFFICES ASSUME Init PROVE StatusInv /\ SuccessIsReal
    OBVIOUS
  <2>0. None \notin Terminal /\ None \notin EndWords /\ "PENDING" \notin Terminal
    BY StatusAssumption, EndWordsAssumption DEF Terminal, JobStatus
  <2>1. \A j \in Jobs : Truthful(j, None) /\ Truthful(j, store[j])
    BY <2>0 DEF Init, Truthful
  <2>2. RecordedEndIsReal
    BY <2>1 DEF RecordedEndIsReal
  <2>3. BeliefsAreTrue
    BY <2>1 DEF Init, BeliefsAreTrue, NoReply
  <2>4. ViewsAreTrue /\ MarkFollowsScancel /\ SuccessIsReal
    BY <2>0 DEF Init, ClusterInit, ViewsAreTrue, MarkFollowsScancel, SuccessIsReal, NoReply
  <2> QED BY <2>2, <2>3, <2>4 DEF StatusInv
<1>2. StatusInv /\ SuccessIsReal /\ FinalIsTerminal => TrackingInv
  BY DEF StatusInv, TrackingInv
<1> QED BY <1>1, <1>2, TypeCorrect, StatusStep, SuccessStep, PTL DEF Spec

\* The store never records an end that did not happen (refresh_job,
\* _reconcile_store, cancel_job), for any number of clients and jobs.
THEOREM EndsAreReal == Spec => []RecordedEndIsReal
<1>1. TrackingInv => RecordedEndIsReal
  BY DEF TrackingInv
<1> QED BY <1>1, TrackingSafe, PTL

\* wait_job returns COMPLETED only for a job that did complete.
THEOREM SuccessesAreReal == Spec => []SuccessIsReal
<1>1. TrackingInv => SuccessIsReal
  BY DEF TrackingInv
<1> QED BY <1>1, TrackingSafe, PTL

----------------------------------------------------------------------------
(* How late an answer may be *)

\* Job j has had status s, or nothing was read of it, or its mark is meant.
HasHad(j, s) ==
    \/ s \in Past(SacctStatus(real[j])) \cup {None, "UNKNOWN"}
    \/ s = "CANCELLED" /\ j \in scancelled

\* The rows of a job that no daemon has seen running are not ahead of it.
RowsAreLate == \A j \in Jobs : "RUNNING" \in {acct[j], queue[j]} => real[j] # "PENDING"

\* Nobody holds, and nobody has recorded, a status that the job has not had yet.
StatusesAreLate ==
    \A j \in Jobs :
        /\ HasHad(j, store[j])
        /\ \A c \in Clients : HasHad(j, belief[c][j]) /\ HasHad(j, reply[c][j])

\* What the views of sacct and squeue show is a state the job has been in, or
\* unreadable, or nothing: Execution lets every lookup answer that way.
ViewsAreLate ==
    \A j \in Jobs, c \in Clients :
        {SacctView(c)[j], SqueueView(c)[j]} \subseteq
            Past(SacctStatus(real[j])) \cup {None, "UNKNOWN"}

\* A job begins and ends, and never goes back.
LEMMA JobsGoForward ==
    ASSUME ClusterTypeOK,
           ClusterNext \/ (\E js \in SUBSET Jobs : Scancel(js)) \/ UNCHANGED clusterVars,
           NEW j \in Jobs
    PROVE  \/ real'[j] = real[j]
           \/ real[j] \in LiveWords /\ real'[j] \in {"RUNNING"} \cup EndWords
<1>1. CASE ClusterNext
  <2>1. PICK k \in Jobs : Begin(k) \/ End(k) \/ UNCHANGED real
    BY <1>1 DEF ClusterNext, QueueReports, AcctReports, Purge
  <2> QED BY <2>1 DEF Begin, End, ClusterTypeOK, LiveWords
<1> QED BY <1>1 DEF Scancel, clusterVars

\* What a job has had it has had for ever.
LEMMA PastGrows ==
    ASSUME TypeOK, [Next]_vars, NEW j \in Jobs
    PROVE  /\ Past(SacctStatus(real[j])) \subseteq Past(SacctStatus(real[j]))'
           /\ \A s : HasHad(j, s) =>
                  \/ s \in Past(SacctStatus(real[j]))' \cup {None, "UNKNOWN"}
                  \/ s = "CANCELLED" /\ j \in scancelled'
<1>1. \/ real'[j] = real[j]
      \/ real[j] \in LiveWords /\ real'[j] \in {"RUNNING"} \cup EndWords
  BY ClusterOfStep, JobsGoForward DEF TypeOK
<1>2. scancelled \subseteq scancelled'
  BY ClusterOfStep, ClusterStep DEF TypeOK
<1>3. Past(SacctStatus(real[j])) \subseteq Past(SacctStatus(real[j]))'
  <2>1. CASE real'[j] = real[j]
    BY <2>1
  <2>2. CASE real[j] \in LiveWords /\ real'[j] \in {"RUNNING"} \cup EndWords
    <3>1. SacctStatus(real'[j]) # "PENDING"
      BY <2>2, EndWordsAssumption, StatusAssumption DEF SacctStatus, PlainWords, JobStatus
    <3>2. Past(SacctStatus(real[j])) \subseteq {"PENDING", "RUNNING"}
      BY <2>2, StatusAssumption DEF LiveWords, SacctStatus, PlainWords, Past, Terminal, JobStatus
    <3> QED BY <3>1, <3>2 DEF Past
  <2> QED BY <1>1, <2>1, <2>2
<1>4. ASSUME NEW s, HasHad(j, s)
      PROVE  \/ s \in Past(SacctStatus(real[j]))' \cup {None, "UNKNOWN"}
             \/ s = "CANCELLED" /\ j \in scancelled'
  BY <1>2, <1>3, <1>4 DEF HasHad
<1> QED BY <1>3, <1>4

\* The daemons report what is, and a report stays behind.
LEMMA RowsStep ==
    ASSUME TypeOK, RowsAreLate, [Next]_vars
    PROVE  RowsAreLate'
<1> SUFFICES ASSUME NEW j \in Jobs, "RUNNING" \in {acct'[j], queue'[j]} PROVE real'[j] # "PENDING"
  BY DEF RowsAreLate
<1>1. \/ real'[j] = real[j]
      \/ real[j] \in LiveWords /\ real'[j] \in {"RUNNING"} \cup EndWords
  BY ClusterOfStep, JobsGoForward DEF TypeOK
<1>2. CASE real'[j] # real[j]
  BY <1>1, <1>2, EndWordsAssumption
<1>3. CASE acct'[j] = acct[j] /\ queue'[j] = queue[j]
  BY <1>2, <1>3 DEF RowsAreLate
<1>4. ASSUME NEW k \in Jobs, QueueReports(k) PROVE real'[j] # "PENDING"
  <2>1. PICK w : /\ w = real[k] \/ w \in {None, "COMPLETING"}
                 /\ queue' = [queue EXCEPT ![k] = w]
    BY <1>4 DEF QueueReports
  <2>2. UNCHANGED <<real, acct>>
    BY <1>4 DEF QueueReports
  <2>3. None # "RUNNING"
    BY StatusAssumption DEF JobStatus
  <2> QED BY <2>1, <2>2, <2>3 DEF RowsAreLate, TypeOK, ClusterTypeOK
<1>5. ASSUME NEW k \in Jobs, AcctReports(k) \/ Purge(k) PROVE real'[j] # "PENDING"
  <2>1. None # "RUNNING"
    BY StatusAssumption DEF JobStatus
  <2> QED BY <1>5, <2>1 DEF AcctReports, Purge, RowsAreLate, TypeOK, ClusterTypeOK
<1>6. \/ \E k \in Jobs : QueueReports(k) \/ AcctReports(k) \/ Purge(k)
      \/ acct' = acct /\ queue' = queue
  BY ClusterOfStep DEF ClusterNext, Begin, End, Scancel, clusterVars
<1> QED BY <1>3, <1>4, <1>5, <1>6

\* So what the views show is not ahead of the job.
LEMMA ViewsFromRows == TypeOK /\ ViewsAreTrue /\ RowsAreLate => ViewsAreLate
<1> SUFFICES ASSUME TypeOK, ViewsAreTrue, RowsAreLate, NEW j \in Jobs, NEW c \in Clients
             PROVE  {SacctView(c)[j], SqueueView(c)[j]} \subseteq
                        Past(SacctStatus(real[j])) \cup {None, "UNKNOWN"}
  BY DEF ViewsAreLate
<1>1. SacctStatus(real[j]) = "PENDING" => real[j] = "PENDING"
  BY StatusAssumption DEF SacctStatus, PlainWords, JobStatus
<1>2. SacctStatus(acct[j]) \in Past(SacctStatus(real[j])) \cup {None, "UNKNOWN"}
  <2>1. CASE acct[j] \in EndWords
    <3>1. SacctStatus(real[j]) \in Terminal \cup {"UNKNOWN"}
      BY <2>1, EndWordsAssumption
      DEF ViewsAreTrue, SacctStatus, PlainWords, Terminal
    <3> QED BY <2>1, <3>1 DEF ViewsAreTrue, Past
  <2>2. CASE acct[j] \in LiveWords \cup {None}
    BY <1>1, <2>2 DEF LiveWords, SacctStatus, PlainWords, RowsAreLate, Past
  <2> QED BY <2>1, <2>2 DEF TypeOK, ClusterTypeOK
<1>3. SqueueStatus(queue[j]) \in Past(SacctStatus(real[j])) \cup {None, "UNKNOWN"}
  BY <1>1 DEF TypeOK, ClusterTypeOK, LiveWords, SqueueStatus, PlainWords, RowsAreLate, Past
<1> QED BY <1>2, <1>3 DEF SacctView, SqueueView

\* No step lets anybody hold or record a status that is still to come.
LEMMA LateStep ==
    TypeOK /\ StatusInv /\ RowsAreLate /\ StatusesAreLate /\ [Next]_vars => StatusesAreLate'
<1> SUFFICES ASSUME TypeOK, StatusInv, RowsAreLate, StatusesAreLate, [Next]_vars, NEW j \in Jobs
             PROVE  /\ HasHad(j, store[j])'
                    /\ \A d \in Clients : HasHad(j, belief[d][j])' /\ HasHad(j, reply[d][j])'
  BY DEF StatusesAreLate
<1>1. ASSUME NEW s, HasHad(j, s)
      PROVE  \/ s \in Past(SacctStatus(real[j]))' \cup {None, "UNKNOWN"}
             \/ s = "CANCELLED" /\ j \in scancelled'
  BY <1>1, PastGrows
<1>2. /\ HasHad(j, store[j])
      /\ \A d \in Clients : HasHad(j, belief[d][j]) /\ HasHad(j, reply[d][j])
  BY DEF StatusesAreLate
<1>3. /\ HasHad(j, store'[j])
      /\ \A d \in Clients : HasHad(j, belief'[d][j]) /\ HasHad(j, reply'[d][j])
  <2>1. CASE UNCHANGED <<store, clientVars>>
    BY <1>2, <2>1 DEF clientVars
  <2>2. ASSUME NEW c \in Clients, Begins(c) \/ Proceeds(c) \/ WaitTimesOut(c) \/ Abort(c)
        PROVE  /\ HasHad(j, store'[j])
               /\ \A d \in Clients : HasHad(j, belief'[d][j]) /\ HasHad(j, reply'[d][j])
    <3>1. Moves(c, j)
      BY <2>2, StatusesMove
    <3>2. HasHad(j, None) /\ HasHad(j, SacctView(c)[j]) /\ HasHad(j, SqueueView(c)[j])
      BY ViewsFromRows DEF StatusInv, ViewsAreLate, HasHad
    <3>3. pc[c] = "mark" /\ j \in target[c] => HasHad(j, "CANCELLED")
      BY DEF StatusInv, MarkFollowsScancel, HasHad
    <3>4. HasHad(j, store'[j]) /\ HasHad(j, belief'[c][j]) /\ HasHad(j, reply'[c][j])
      BY <1>2, <3>1, <3>2, <3>3 DEF Moves
    <3>5. \A d \in Clients \ {c} : belief'[d][j] = belief[d][j] /\ reply'[d][j] = reply[d][j]
      BY <2>2, OthersKeep
    <3> QED BY <1>2, <3>4, <3>5
  <2> QED BY <2>1, <2>2 DEF Next, vars
<1> QED BY <1>1, <1>3 DEF HasHad

\* Whatever the delays, the failures and the other clients, no lookup, no handle
\* and no record is ahead of its job, so that Execution may let a lookup answer
\* anything that the call has been (client.py status, refresh_job; core/slurm.py).
THEOREM AnswersAreLate == Spec => [](ViewsAreLate /\ StatusesAreLate)
<1>1. Init => RowsAreLate /\ StatusesAreLate
  <2> SUFFICES ASSUME Init PROVE RowsAreLate /\ StatusesAreLate
    OBVIOUS
  <2>1. \A j \in Jobs : HasHad(j, "PENDING") /\ HasHad(j, None)
    BY DEF HasHad, Past
  <2>2. \A j \in Jobs : HasHad(j, store[j])
    BY <2>1 DEF Init
  <2>3. None # "RUNNING"
    BY StatusAssumption DEF JobStatus
  <2> QED BY <2>1, <2>2, <2>3 DEF Init, ClusterInit, RowsAreLate, StatusesAreLate, NoReply
<1>2. TypeOK /\ RowsAreLate /\ [Next]_vars => RowsAreLate'
  BY RowsStep
<1>3. TypeOK /\ StatusInv /\ RowsAreLate => ViewsAreLate
  BY ViewsFromRows DEF StatusInv
<1>4. TrackingInv => StatusInv
  BY DEF TrackingInv, StatusInv
<1> QED BY <1>1, <1>2, <1>3, <1>4, LateStep, TrackingSafe, TypeCorrect, PTL DEF Spec

----------------------------------------------------------------------------
(* Rest *)

\* The end of j is known to sacct or has been forgotten by it, in a word that
\* slurp can read, and squeue has dropped the job.
Shown(j) ==
    /\ Ended(j) /\ SacctStatus(real[j]) \in Terminal
    /\ acct[j] = real[j] \/ (acct[j] = None /\ j \in purged)
    /\ queue[j] = None

\* The clients that hold an answer about j from before.
Stale(j) == {c \in Clients : reply[c][j] \notin Terminal \cup {None}}

Settled(j) == Shown(j) /\ Stale(j) = {} /\ store[j] \in Terminal

\* From then on old answers about the job get fewer only, and once there are none
\* and its record is of an end, that stays so: no client can open it again.
RecordsComeToRest ==
    [][\A j \in Jobs : /\ Shown(j) => Shown(j)' /\ Stale(j)' \subseteq Stale(j)
                       /\ Settled(j) => Settled(j)']_vars

\* The views of a job that is shown stay as they are.
LEMMA ShownStays ==
    ASSUME TypeOK, [Next]_vars, NEW j \in Jobs, Shown(j)
    PROVE  Shown(j)'
<1>1. real'[j] = real[j]
  BY ClusterOfStep, ClusterStep DEF TypeOK, Shown
<1>2. None \notin EndWords /\ real[j] \notin LiveWords
  BY EndWordsAssumption DEF Shown, Ended, LiveWords
<1>3. queue'[j] = queue[j]
  <2>1. ASSUME NEW k \in Jobs, QueueReports(k) PROVE queue'[j] = queue[j]
    <3>1. CASE k = j
      <4>1. None \notin LiveWords
        BY StatusAssumption DEF LiveWords, JobStatus
      <4> QED BY <1>2, <2>1, <3>1, <4>1 DEF QueueReports, Shown, Live
    <3>2. CASE k # j
      BY <2>1, <3>2 DEF QueueReports, TypeOK, ClusterTypeOK
    <3> QED BY <3>1, <3>2
  <2> QED BY <2>1, ClusterOfStep
          DEF ClusterNext, Begin, End, AcctReports, Purge, Scancel, clusterVars
<1>4. acct'[j] = real[j] \/ (acct'[j] = None /\ j \in purged')
  <2>1. ASSUME NEW k \in Jobs, AcctReports(k) \/ Purge(k)
        PROVE  acct'[j] = real[j] \/ (acct'[j] = None /\ j \in purged')
    BY <2>1 DEF AcctReports, Purge, Shown, TypeOK, ClusterTypeOK
  <2>2. CASE UNCHANGED <<acct, purged>>
    BY <2>2 DEF Shown
  <2> QED BY <2>1, <2>2, ClusterOfStep
          DEF ClusterNext, Begin, End, QueueReports, Scancel, clusterVars
<1> QED BY <1>1, <1>3, <1>4 DEF Shown, Ended

\* Nobody hears anything new about it that is not an end.
LEMMA StaleShrinks ==
    ASSUME TypeOK, [Next]_vars, NEW j \in Jobs, Shown(j)
    PROVE  Stale(j)' \subseteq Stale(j)
<1> SUFFICES ASSUME NEW d \in Clients, reply'[d][j] \notin Terminal \cup {None}
             PROVE  reply[d][j] \notin Terminal \cup {None}
  BY DEF Stale
<1>1. CASE UNCHANGED clientVars
  BY <1>1 DEF clientVars
<1>2. ASSUME NEW c \in Clients, Begins(c) \/ Proceeds(c) \/ WaitTimesOut(c) \/ Abort(c)
      PROVE  reply[d][j] \notin Terminal \cup {None}
  <2>1. CASE d # c
    BY <1>2, <2>1, OthersKeep
  <2>2. CASE d = c
    <3>1. SacctView(c)[j] \in Terminal \cup {None} /\ SqueueView(c)[j] \in Terminal \cup {None}
      BY DEF Shown, SacctView, SqueueView, SacctStatus, SqueueStatus, PlainWords
    <3> QED BY <1>2, <2>2, <3>1, StatusesMove DEF Moves
  <2> QED BY <2>1, <2>2
<1> QED BY <1>1, <1>2 DEF Next, vars, clientVars

\* What the liveness of a watch rests on besides fairness: stale answers that
\* clients still hold are the only danger for a record that has come to its end,
\* there are no new ones, and after the last the record stays
\* (client.py refresh_job, _reconcile_store).
THEOREM RecordsRest == Spec => RecordsComeToRest
<1>1. TypeOK /\ [Next]_vars =>
          [\A j \in Jobs : /\ Shown(j) => Shown(j)' /\ Stale(j)' \subseteq Stale(j)
                           /\ Settled(j) => Settled(j)']_vars
  <2> SUFFICES ASSUME TypeOK, [Next]_vars, NEW j \in Jobs, Shown(j)
               PROVE  /\ Shown(j)' /\ Stale(j)' \subseteq Stale(j)
                      /\ Settled(j) => Settled(j)'
    BY DEF Settled
  <2>1. Shown(j)' /\ Stale(j)' \subseteq Stale(j)
    BY ShownStays, StaleShrinks
  <2>2. ASSUME Settled(j) PROVE store'[j] \in Terminal
    <3>1. CASE UNCHANGED store
      BY <2>2, <3>1 DEF Settled
    <3>2. ASSUME NEW c \in Clients, Begins(c) \/ Proceeds(c) \/ WaitTimesOut(c) \/ Abort(c),
                 store' # store
          PROVE  store'[j] \in Terminal
      <4>1. reply[c][j] \in Terminal \cup {None}
        BY <2>2 DEF Settled, Stale
      <4>2. \/ store'[j] = store[j]
            \/ store'[j] \in {reply[c][j], "CANCELLED"} \ {None}
        BY <3>2, StatusesMove DEF Moves
      <4> QED BY <2>2, <4>1, <4>2 DEF Settled, Terminal
    <3> QED BY <3>1, <3>2 DEF Next, vars, clientVars
  <2> QED BY <2>1, <2>2 DEF Settled
<1> QED BY <1>1, TypeCorrect, PTL DEF Spec, RecordsComeToRest

----------------------------------------------------------------------------
(* Why a wait ends, as far as it can be said without fairness *)

\* wait_job is about one job, which is the only one it can hold an answer about,
\* and it is somewhere between its query and its second lookup; who does nothing
\* holds no answer.
WaitIsSingle(c) ==
    /\ pc[c] = "idle" => call[c] = "none" /\ reply[c] = NoReply
    /\ call[c] = "wait" =>
          /\ pc[c] \in {"sacct", "squeue", "apply", "check", "final"}
          /\ \E j \in Jobs : target[c] = {j} /\ \A k \in Jobs \ {j} : reply[c][k] = None

WaitsAreSingle == \A c \in Clients : WaitIsSingle(c)

\* Client c has been told that j, which it waits for, has ended.
ToldEnd(c, j) ==
    /\ call[c] = "wait" /\ target[c] = {j}
    /\ \/ pc[c] = "apply" /\ reply[c][j] \in Terminal
       \/ pc[c] = "check" /\ belief[c][j] \in Terminal
       \/ pc[c] = "final"

\* The steps that c has left then.
StepsToResult(c) ==
    CASE pc[c] = "apply" -> 3 [] pc[c] = "check" -> 2 [] pc[c] = "final" -> 1 [] OTHER -> 0

\* What sacct knows it knows until it forgets it; an answer from it tells the
\* waiting client of the end; from then on the client goes straight to its result
\* in three steps, which nothing that others do takes back.
WaitsGetOn ==
    [][\A c \in Clients, j \in Jobs :
          /\ KnownEnd(j) => KnownEnd(j)' \/ j \in purged'
          /\ call[c] = "wait" /\ j \in target[c] /\ KnownEnd(j) /\ SacctAnswers(c)
                => ToldEnd(c, j)'
          /\ ToldEnd(c, j) => ToldEnd(c, j)' \/ call'[c] = "none"
          /\ ToldEnd(c, j) /\ Proceeds(c) => StepsToResult(c)' < StepsToResult(c)
          /\ ToldEnd(c, j) => StepsToResult(c)' <= StepsToResult(c)]_vars

\* No step of a client makes its wait about anything else.
LEMMA WaitStaysSingle ==
    ASSUME TypeOK, NEW c \in Clients, WaitIsSingle(c),
           Begins(c) \/ Proceeds(c) \/ WaitTimesOut(c) \/ Abort(c)
    PROVE  WaitIsSingle(c)'
<1> USE DEF TypeOK, ControlTypeOK, Goto
<1>a. ASSUME Leave(c) PROVE WaitIsSingle(c)'
  BY <1>a DEF Leave, WaitIsSingle, NoReply
<1>b. ASSUME NEW l \in {"sacct", "squeue", "check", "idle"}, Told(c, l), pc[c] # "idle"
      PROVE  WaitIsSingle(c)'
  <2>1. CASE l = "idle"
    BY <1>a, <1>b, <2>1 DEF Told
  <2>2. CASE l # "idle"
    <3>1. /\ pc'[c] = l /\ reply'[c] = NoReply /\ UNCHANGED <<call, target>>
      BY <1>b, <2>2 DEF Told, NoReply
    <3>2. \A k \in Jobs : NoReply[k] = None
      BY DEF NoReply
    <3> QED BY <1>b, <2>2, <3>1, <3>2 DEF WaitIsSingle
  <2> QED BY <2>1, <2>2
<1>1. CASE Begins(c)
  <2>1. ASSUME NEW j \in Jobs, WaitJob(c, j) PROVE WaitIsSingle(c)'
    BY <2>1 DEF WaitJob, Enter, WaitIsSingle, NoReply
  <2>2. CASE ReconcileNothing(c)
    BY <2>2 DEF ReconcileNothing, WaitIsSingle
  <2>3. ASSUME NEW j \in Jobs, RefreshJob(c, j) \/ Status(c, j) \/ CancelJob(c, j)
                              \/ CancelJobById(c, j) \/ Reconcile(c)
        PROVE  WaitIsSingle(c)'
    BY <2>3 DEF RefreshJob, Status, CancelJob, CancelJobById, Reconcile, Enter, WaitIsSingle
  <2>4. CASE Reconcile(c)
    BY <2>4 DEF Reconcile, Enter, WaitIsSingle
  <2> QED BY <1>1, <2>1, <2>2, <2>3, <2>4 DEF Begins
<1>2. CASE SacctFails(c) \/ SqueueFails(c)
  BY <1>b, <1>2 DEF SacctFails, SqueueFails, AfterSacctMiss, AfterQueries
<1>c. ASSUME NEW answer, NEW l \in {"sacct", "squeue", "check", "idle"}, pc[c] # "idle",
             Hear(c, answer, l), answer \in {SacctView(c), SqueueView(c)}
      PROVE  WaitIsSingle(c)'
  <2>1. CASE \E j \in Jobs : answer[j] # None
    <3>1. /\ reply' = [reply EXCEPT ![c] = answer] /\ pc' = [pc EXCEPT ![c] = "apply"]
          /\ UNCHANGED <<call, target>>
      BY <1>c, <2>1 DEF Hear
    <3>2. \A k \in Jobs : k \notin target[c] => answer[k] = None
      BY <1>c DEF SacctView, SqueueView
    <3> QED BY <1>c, <3>1, <3>2 DEF WaitIsSingle
  <2>2. CASE ~ \E j \in Jobs : answer[j] # None
    BY <1>b, <1>c, <2>2 DEF Hear
  <2> QED BY <2>1, <2>2
<1>3. CASE SacctAnswers(c) \/ SqueueAnswers(c)
  <2>1. CASE SacctAnswers(c)
    BY <1>c, <2>1 DEF SacctAnswers, AfterSacctMiss
  <2>2. CASE SqueueAnswers(c)
    BY <1>c, <2>2 DEF SqueueAnswers, AfterQueries
  <2> QED BY <1>3, <2>1, <2>2
<1>4. ASSUME NEW j \in Jobs, Apply(c, j) PROVE WaitIsSingle(c)'
  <2>1. CASE \E k \in Jobs \ {j} : reply[c][k] # None
    BY <1>4, <2>1 DEF Apply, WaitIsSingle
  <2>2. CASE ~ \E k \in Jobs \ {j} : reply[c][k] # None
    BY <1>4, <1>b, <2>2 DEF Apply, AfterQueries
  <2> QED BY <2>1, <2>2
<1>5. CASE ApplyFails(c) \/ WaitTimesOut(c) \/ Abort(c) \/ Mark(c)
  BY <1>5, <1>a DEF ApplyFails, WaitTimesOut, Abort, Mark
<1>6. CASE WaitOn(c) \/ WaitOver(c)
  BY <1>6 DEF WaitOn, WaitOver, WaitIsSingle
<1>7. CASE FinalAnswers(c) \/ FinalMisses(c)
  BY <1>7, <1>a DEF FinalAnswers, FinalMisses, Conclude
<1>8. CASE ScancelAccepted(c)
  <2>1. CASE call[c] = "cancel"
    BY <1>8, <2>1 DEF ScancelAccepted, WaitIsSingle
  <2>2. CASE call[c] # "cancel"
    BY <1>8, <1>a, <2>2 DEF ScancelAccepted
  <2> QED BY <2>1, <2>2
<1> QED BY <1>1, <1>2, <1>3, <1>4, <1>5, <1>6, <1>7, <1>8 DEF Proceeds, Applies

\* What a client that knows the end does next.
LEMMA ToldGoesOn ==
    ASSUME TypeOK, FinalIsTerminal, NEW c \in Clients, NEW j \in Jobs, WaitIsSingle(c),
           ToldEnd(c, j), Begins(c) \/ Proceeds(c) \/ WaitTimesOut(c) \/ Abort(c)
    PROVE  /\ ToldEnd(c, j)' \/ call'[c] = "none"
           /\ StepsToResult(c)' < StepsToResult(c)
<1> USE DEF TypeOK, ControlTypeOK, Goto
<1>1. None \notin Terminal
  BY StatusAssumption DEF Terminal, JobStatus
<1>a. ASSUME Leave(c) PROVE call'[c] = "none" /\ StepsToResult(c)' < StepsToResult(c)
  BY <1>a DEF Leave, StepsToResult, ToldEnd
<1>2. ASSUME NEW i \in Jobs, Apply(c, i)
      PROVE  ToldEnd(c, j)' /\ StepsToResult(c)' < StepsToResult(c)
  <2>1. pc[c] = "apply" /\ reply[c][j] \in Terminal /\ call[c] = "wait"
    BY <1>2 DEF Apply, ToldEnd
  <2>2. i = j /\ ~ \E k \in Jobs \ {i} : reply[c][k] # None
    BY <1>1, <1>2, <2>1 DEF Apply, WaitIsSingle
  <2>3. /\ belief'[c][j] = reply[c][j] /\ pc' = [pc EXCEPT ![c] = "check"]
        /\ UNCHANGED <<call, target>>
    BY <1>2, <2>1, <2>2 DEF Apply, AfterQueries, Told
  <2> QED BY <2>1, <2>3 DEF ToldEnd, StepsToResult
<1>3. CASE WaitOver(c)
  BY <1>3 DEF WaitOver, ToldEnd, StepsToResult
<1>4. CASE FinalAnswers(c) \/ FinalMisses(c) \/ Abort(c)
  BY <1>4, <1>a DEF FinalAnswers, FinalMisses, Conclude, Abort
<1>5. WaitOver(c) \/ FinalAnswers(c) \/ FinalMisses(c) \/ Abort(c) \/ Applies(c)
  BY DEF ToldEnd, Begins, Proceeds, RefreshJob, WaitJob, Status, Reconcile, ReconcileNothing,
         CancelJob, CancelJobById, Enter, SacctAnswers, SacctFails, SqueueAnswers,
         SqueueFails, ApplyFails, WaitOn, WaitTimesOut, ScancelAccepted, Mark
<1> QED BY <1>2, <1>3, <1>4, <1>5 DEF Applies

\* An answer of sacct after the end tells it.
LEMMA SacctTellsEnd ==
    ASSUME TypeOK, NEW c \in Clients, NEW j \in Jobs, WaitIsSingle(c),
           call[c] = "wait", j \in target[c], KnownEnd(j), SacctAnswers(c)
    PROVE  ToldEnd(c, j)'
<1> USE DEF TypeOK, ControlTypeOK, Goto
<1>1. target[c] = {j}
  BY DEF WaitIsSingle
<1>2. SacctView(c)[j] \in Terminal /\ None \notin Terminal
  BY StatusAssumption DEF SacctView, KnownEnd, Terminal, JobStatus
<1>3. /\ reply' = [reply EXCEPT ![c] = SacctView(c)] /\ pc' = [pc EXCEPT ![c] = "apply"]
      /\ UNCHANGED <<call, target>>
  BY <1>2 DEF SacctAnswers, Hear
<1> QED BY <1>1, <1>2, <1>3 DEF ToldEnd

\* sacct forgets an end, but does not take it back.
LEMMA KnownEndStays ==
    ASSUME TypeOK, ViewsAreTrue, [Next]_vars, NEW j \in Jobs, KnownEnd(j)
    PROVE  KnownEnd(j)' \/ j \in purged'
<1>1. Ended(j) /\ acct[j] = real[j]
  BY DEF KnownEnd, ViewsAreTrue, Ended
<1>2. real'[j] = real[j]
  BY <1>1, ClusterOfStep, ClusterStep DEF TypeOK
<1>3. ASSUME NEW k \in Jobs, AcctReports(k) \/ Purge(k) PROVE acct'[j] = acct[j] \/ j \in purged'
  BY <1>1, <1>3 DEF AcctReports, Purge, TypeOK, ClusterTypeOK
<1>4. acct'[j] = acct[j] \/ j \in purged'
  BY <1>3, ClusterOfStep
  DEF ClusterNext, Begin, End, QueueReports, Scancel, clusterVars
<1> QED BY <1>4 DEF KnownEnd

\* What WaitEnds rests on besides fairness: one answered query of sacct after the
\* end is enough for wait_job, whatever other clients do meanwhile; from then on it
\* has three steps left, and only an exception or Ctrl+C ends it otherwise
\* (client.py refresh_job, wait_job).
THEOREM WaitsAlwaysGetOn == Spec => WaitsGetOn
<1>1. Init => WaitsAreSingle
  BY DEF Init, WaitsAreSingle, WaitIsSingle
<1>2. TypeOK /\ WaitsAreSingle /\ [Next]_vars => WaitsAreSingle'
  <2> SUFFICES ASSUME TypeOK, WaitsAreSingle, [Next]_vars, NEW d \in Clients
               PROVE  WaitIsSingle(d)'
    BY DEF WaitsAreSingle
  <2>1. CASE UNCHANGED clientVars
    BY <2>1 DEF clientVars, WaitsAreSingle, WaitIsSingle
  <2>2. ASSUME NEW c \in Clients, Begins(c) \/ Proceeds(c) \/ WaitTimesOut(c) \/ Abort(c)
        PROVE  WaitIsSingle(d)'
    <3>1. CASE c = d
      BY <2>2, <3>1, WaitStaysSingle DEF WaitsAreSingle
    <3>2. CASE c # d
      BY <2>2, <3>2, OthersKeep DEF WaitsAreSingle, WaitIsSingle
    <3> QED BY <3>1, <3>2
  <2> QED BY <2>1, <2>2 DEF Next, vars, clientVars
<1>3. TypeOK /\ FinalIsTerminal /\ TrackingInv /\ WaitsAreSingle /\ [Next]_vars =>
        [\A c \in Clients, j \in Jobs :
            /\ KnownEnd(j) => KnownEnd(j)' \/ j \in purged'
            /\ call[c] = "wait" /\ j \in target[c] /\ KnownEnd(j) /\ SacctAnswers(c)
                  => ToldEnd(c, j)'
            /\ ToldEnd(c, j) => ToldEnd(c, j)' \/ call'[c] = "none"
            /\ ToldEnd(c, j) /\ Proceeds(c) => StepsToResult(c)' < StepsToResult(c)
            /\ ToldEnd(c, j) => StepsToResult(c)' <= StepsToResult(c)]_vars
  <2> SUFFICES ASSUME TypeOK, FinalIsTerminal, TrackingInv, WaitsAreSingle, [Next]_vars,
                      NEW c \in Clients, NEW j \in Jobs
               PROVE  /\ KnownEnd(j) => KnownEnd(j)' \/ j \in purged'
                      /\ call[c] = "wait" /\ j \in target[c] /\ KnownEnd(j) /\ SacctAnswers(c)
                            => ToldEnd(c, j)'
                      /\ ToldEnd(c, j) => ToldEnd(c, j)' \/ call'[c] = "none"
                      /\ ToldEnd(c, j) /\ Proceeds(c) => StepsToResult(c)' < StepsToResult(c)
                      /\ ToldEnd(c, j) => StepsToResult(c)' <= StepsToResult(c)
    OBVIOUS
  <2>1. KnownEnd(j) => KnownEnd(j)' \/ j \in purged'
    BY KnownEndStays DEF TrackingInv
  <2>2. call[c] = "wait" /\ j \in target[c] /\ KnownEnd(j) /\ SacctAnswers(c) => ToldEnd(c, j)'
    BY SacctTellsEnd DEF WaitsAreSingle
  <2>3. StepsToResult(c) \in 0 .. 3
    BY DEF StepsToResult
  <2>4. ASSUME ToldEnd(c, j), Begins(c) \/ Proceeds(c) \/ WaitTimesOut(c) \/ Abort(c)
        PROVE  /\ ToldEnd(c, j)' \/ call'[c] = "none"
               /\ StepsToResult(c)' < StepsToResult(c)
    BY <2>4, ToldGoesOn DEF WaitsAreSingle
  <2>5. ASSUME ToldEnd(c, j), ~(Begins(c) \/ Proceeds(c) \/ WaitTimesOut(c) \/ Abort(c))
        PROVE  ToldEnd(c, j)' /\ StepsToResult(c)' = StepsToResult(c)
    <3>1. CASE UNCHANGED clientVars
      BY <2>5, <3>1 DEF clientVars, ToldEnd, StepsToResult
    <3>2. ASSUME NEW d \in Clients,
                 Begins(d) \/ Proceeds(d) \/ WaitTimesOut(d) \/ Abort(d)
          PROVE  ToldEnd(c, j)' /\ StepsToResult(c)' = StepsToResult(c)
      <4>1. d # c
        BY <2>5, <3>2
      <4>2. /\ pc'[c] = pc[c] /\ target'[c] = target[c] /\ call'[c] = call[c]
            /\ belief'[c] = belief[c] /\ reply'[c] = reply[c]
        BY <3>2, <4>1, OthersKeep
      <4> QED BY <2>5, <4>2 DEF ToldEnd, StepsToResult
    <3> QED BY <3>1, <3>2 DEF Next, vars, clientVars
  <2>6. ToldEnd(c, j) => StepsToResult(c)' <= StepsToResult(c)
    <3>1. CASE Begins(c) \/ Proceeds(c) \/ WaitTimesOut(c) \/ Abort(c)
      <4>1. StepsToResult(c)' \in 0 .. 3
        BY DEF StepsToResult
      <4> QED BY <2>3, <2>4, <3>1, <4>1
    <3>2. CASE ~(Begins(c) \/ Proceeds(c) \/ WaitTimesOut(c) \/ Abort(c))
      BY <2>3, <2>5, <3>2
    <3> QED BY <3>1, <3>2
  <2> QED BY <2>1, <2>2, <2>4, <2>5, <2>6
<1> QED BY <1>1, <1>2, <1>3, TypeCorrect, TrackingSafe, PTL DEF Spec, WaitsGetOn
============================================================================
