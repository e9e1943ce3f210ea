-------------------------- MODULE SSHManagerProofs --------------------------
(***************************************************************************)
(* Proofs about SSHManager for any number of threads, calls and retries.    *)
(***************************************************************************)
EXTENDS SSHManager, TLAPS

\* None is neither a connection nor, in the cache, a live one.
LEMMA NoneIsNoConnection ==
    ASSUME TypeOK
    PROVE  None \notin Connections /\ ~IsLive(None)
<1>1. Connections \subseteq Nat BY DEF TypeOK, Connections
<1>2. open \subseteq Connections BY DEF TypeOK
<1> QED BY <1>1, <1>2, CallsAssumption DEF IsLive

\* Steps of the threads keep the types.
LEMMA TypeCaller ==
    ASSUME TypeOK, NEW h \in Threads, Caller(h)
    PROVE  TypeOK'
<1>1. ASSUME NEW c \in Calls, Call(h, c) PROVE TypeOK'
    BY <1>1 DEF TypeOK, Call, Goto, cache, tries, Places, Connections
<1>2. CASE Answer(h)
    BY <1>2 DEF TypeOK, Answer, cache, tries, Places, Connections
<1>3. CASE Interrupt(h)
    BY <1>3 DEF TypeOK, Interrupt, cache, tries, Places, Connections
<1>4. CASE Close(h)
    BY <1>4, ShutdownsAssumption DEF TypeOK, Close, cache, tries, Places, Connections
<1>5. CASE Stop(h)
    BY <1>5 DEF TypeOK, Stop, cache, tries, Places, Connections
<1> QED BY <1>1, <1>2, <1>3, <1>4, <1>5 DEF Caller

\* The queue of the lock stays a queue of calls.
LEMMA TypeLeaveQueue ==
    ASSUME queue \in Seq(Calls), LeaveQueue
    PROVE  queue' \in Seq(Calls)
BY DEF LeaveQueue

\* The part of TypeOK that End and Retry could disturb.
TriesOK ==
    /\ pc \in [Calls -> Places]
    /\ used \in [Calls -> Connections \cup {None}]
    /\ attempt \in [Calls -> Nat]
    /\ \A c \in Calls : attempt[c] <= MaxRetries[c]
    /\ failed \in [Calls -> SUBSET Connections]

\* A call that ends keeps the types.
LEMMA TypeEnd ==
    ASSUME TypeOK, NEW c \in Calls, NEW place \in Places, End(c, place), UNCHANGED made
    PROVE  TriesOK'
<1>1. /\ pc' \in [Calls -> Places]
      /\ used' \in [Calls -> Connections \cup {None}]
      /\ attempt' \in [Calls -> Nat]
    BY DEF TypeOK, End, Goto
<1>2. \A d \in Calls : attempt'[d] <= MaxRetries[d]
    <2> SUFFICES ASSUME NEW d \in Calls PROVE attempt'[d] <= MaxRetries[d]
        OBVIOUS
    <2>1. MaxRetries[d] \in Nat /\ attempt[d] <= MaxRetries[d]
        BY RetriesAssumption DEF TypeOK
    <2>2. attempt'[d] = 0 \/ attempt'[d] = attempt[d] BY DEF TypeOK, End
    <2> QED BY <2>1, <2>2
<1>3. failed' \in [Calls -> SUBSET Connections] BY DEF TypeOK, End
<1> QED BY <1>1, <1>2, <1>3 DEF TriesOK, Connections

\* A call that retries keeps the types: it has retries left.
LEMMA TypeRetry ==
    ASSUME TypeOK, NEW c \in Calls, NEW xs \in SUBSET Connections, Retry(c, xs),
           UNCHANGED made
    PROVE  TriesOK'
<1>1. CASE attempt[c] < MaxRetries[c]
    <2>0. pc' \in [Calls -> Places] BY <1>1 DEF TypeOK, Retry, Goto, Places
    <2>1. /\ used' \in [Calls -> Connections \cup {None}]
          /\ attempt' \in [Calls -> Nat]
        BY <1>1 DEF TypeOK, Retry
    <2>2. \A d \in Calls : attempt'[d] <= MaxRetries[d]
        <3> SUFFICES ASSUME NEW d \in Calls PROVE attempt'[d] <= MaxRetries[d]
            OBVIOUS
        <3>1. /\ MaxRetries[d] \in Nat /\ attempt[d] \in Nat
              /\ attempt[d] <= MaxRetries[d]
            BY RetriesAssumption DEF TypeOK
        <3>2. attempt'[d] = IF d = c THEN attempt[d] + 1 ELSE attempt[d]
            BY <1>1 DEF TypeOK, Retry
        <3> QED BY <1>1, <3>1, <3>2
    <2>3. failed' \in [Calls -> SUBSET Connections] BY <1>1 DEF TypeOK, Retry
    <2> QED BY <2>0, <2>1, <2>2, <2>3 DEF TriesOK, Connections
<1>2. CASE ~(attempt[c] < MaxRetries[c])
    <2>1. End(c, "raised") BY <1>2 DEF Retry
    <2> QED BY <2>1, TypeEnd DEF Places
<1> QED BY <1>1, <1>2

\* A coroutine has a connection while its command runs: used is none of None.
UsedInv == \A c \in Calls : pc[c] = "command" => used[c] \in Connections

\* Steps of the coroutines keep the types.
LEMMA TypeStep ==
    ASSUME TypeOK, UsedInv, NEW c \in Calls, Step(c)
    PROVE  TypeOK'
<1>1. CASE Enqueue(c)
    BY <1>1 DEF TypeOK, Enqueue, cache, tries, Connections
<1>2. CASE UseCached(c)
    <2>1. queue' \in Seq(Calls) BY <1>2, TypeLeaveQueue DEF TypeOK, UseCached
    <2>2. cached \in Connections BY <1>2 DEF TypeOK, UseCached, IsLive
    <2> QED BY <1>2, <2>1, <2>2 DEF TypeOK, UseCached, Goto, cache, Places, Connections
<1>3. CASE StartConnect(c)
    <2>1. queue' \in Seq(Calls) BY <1>3, TypeLeaveQueue DEF TypeOK, StartConnect
    <2> QED BY <1>3, <2>1 DEF TypeOK, StartConnect, Goto, cache, tries, Places, Connections
<1>4. CASE Connected(c)
    <2>1. made' \in Nat /\ made' \in Connections' /\ Connections \subseteq Connections'
        BY <1>4 DEF TypeOK, Connected, Connections
    <2>2. /\ cached' \in Connections' /\ open' \subseteq Connections'
          /\ dropped' \subseteq Connections'
          /\ used' \in [Calls -> Connections' \cup {None}]
          /\ failed' \in [Calls -> SUBSET Connections']
        BY <1>4, <2>1 DEF TypeOK, Connected
    <2> QED BY <1>4, <2>1, <2>2 DEF TypeOK, Connected, Goto, Places
<1>5. CASE ConnectFails(c)
    <2>1. {} \in SUBSET Connections OBVIOUS
    <2>2. Retry(c, {}) BY <1>5 DEF ConnectFails
    <2> QED BY <1>5, <2>1, <2>2, TypeRetry DEF TypeOK, TriesOK, ConnectFails, cache, Connections
<1>6. CASE ConnectRaises(c)
    BY <1>6, TypeEnd DEF TypeOK, TriesOK, ConnectRaises, cache, Places, Connections
<1>7. CASE CommandReturns(c)
    BY <1>7, TypeEnd DEF TypeOK, TriesOK, CommandReturns, cache, Places, Connections
<1>8. CASE CommandFails(c)
    <2>1. {used[c]} \in SUBSET Connections BY <1>8 DEF UsedInv, CommandFails
    <2>2. Retry(c, {used[c]}) BY <1>8 DEF CommandFails
    <2> QED BY <1>8, <2>1, <2>2, TypeRetry DEF TypeOK, TriesOK, CommandFails, cache, Connections
<1>9. CASE CommandRaises(c)
    BY <1>9, TypeEnd DEF TypeOK, TriesOK, CommandRaises, cache, Places, Connections
<1>10. CASE SleepEnds(c)
    BY <1>10 DEF TypeOK, SleepEnds, Goto, cache, tries, Places, Connections
<1>11. CASE Forget(c)
    <2>1. queue' \in Seq(Calls) BY <1>11, TypeLeaveQueue DEF TypeOK, Forget
    <2> QED BY <1>11, <2>1 DEF TypeOK, Forget, Goto, tries, Places, Connections
<1> QED
    BY <1>1, <1>2, <1>3, <1>4, <1>5, <1>6, <1>7, <1>8, <1>9, <1>10, <1>11 DEF Step

----------------------------------------------------------------------------
(* The inductive invariant *)

\* Who connects holds the lock, and meanwhile nothing in the cache is live.
LockInv == \A c \in Calls : pc[c] = "connecting" => lock = c /\ ~IsLive(cached)

\* Outside the pause before it, what is cached is no connection that failed.
FailedInv ==
    \A c \in Calls :
        /\ pc[c] \notin {"sleep", "forget"} => cached \notin failed[c]
        /\ pc[c] = "command" => used[c] \notin failed[c]

ConnectionInv == TypeOK /\ UsedInv /\ LockInv /\ OneConnection /\ FailedInv

\* At the start nothing is open.
LEMMA InitConnectionInv == Init => ConnectionInv
BY CallsAssumption, RetriesAssumption, ShutdownsAssumption
DEF Init, ConnectionInv, TypeOK, UsedInv, LockInv, OneConnection, FailedInv,
    IsLive, Connections, Places

\* The callers' threads touch no connection.
LEMMA ConnectionInvCaller ==
    ASSUME ConnectionInv, NEW h \in Threads, Caller(h)
    PROVE  ConnectionInv'
<1>1. TypeOK' BY TypeCaller DEF ConnectionInv
<1>2. UNCHANGED <<cache, lock, tries>>
    BY DEF Caller, Call, Answer, Interrupt, Close, Stop
<1>3. \A c \in Calls : pc'[c] = pc[c] \/ (pc'[c] = "get" /\ pc[c] = "new")
    <2>0. pc \in [Calls -> Places] BY DEF ConnectionInv, TypeOK
    <2>1. ASSUME NEW d \in Calls, Call(h, d)
          PROVE  \A c \in Calls : pc'[c] = pc[c] \/ (pc'[c] = "get" /\ pc[c] = "new")
        <3>1. pc[d] = "new" /\ pc' = [pc EXCEPT ![d] = "get"] BY <2>1 DEF Call, Goto
        <3> QED BY <2>0, <3>1
    <2>2. CASE Answer(h) \/ Interrupt(h) \/ Close(h) \/ Stop(h)
        <3>1. pc' = pc BY <2>2 DEF Answer, Interrupt, Close, Stop
        <3> QED BY <3>1
    <2> QED BY <2>1, <2>2 DEF Caller
<1> QED
    BY <1>1, <1>2, <1>3
    DEF ConnectionInv, UsedInv, LockInv, OneConnection, FailedInv, cache, tries,
        IsLive, Connections

\* close takes the cached connection only.
LEMMA ConnectionInvShutdown ==
    ASSUME ConnectionInv, Shutdown
    PROVE  ConnectionInv'
<1>1. TypeOK' BY ShutdownsAssumption DEF ConnectionInv, TypeOK, Shutdown, tries, Connections
<1>2. ~IsLive(None)' BY NoneIsNoConnection DEF ConnectionInv, Shutdown, IsLive
<1>3. \A c \in Calls : None \notin failed[c]
    BY NoneIsNoConnection DEF ConnectionInv, TypeOK
<1> QED
    BY <1>1, <1>2, <1>3
    DEF ConnectionInv, Shutdown, UsedInv, LockInv, OneConnection, FailedInv, tries,
        IsLive, Connections

\* A connection that breaks is open nowhere.
LEMMA ConnectionInvLose ==
    ASSUME ConnectionInv, NEW x \in open, Lose(x)
    PROVE  ConnectionInv'
<1>1. TypeOK' BY DEF ConnectionInv, TypeOK, Lose, tries, Connections
<1> QED
    BY <1>1
    DEF ConnectionInv, Lose, UsedInv, LockInv, OneConnection, FailedInv, tries,
        IsLive, Connections

\* End and Retry: c leaves with nothing, or pauses with one more failure.
LEMMA AfterEnd ==
    ASSUME ConnectionInv, NEW c \in Calls, NEW place \in {"returned", "raised"},
           End(c, place)
    PROVE  /\ pc'[c] = place /\ failed'[c] = {}
           /\ \A d \in Calls \ {c} :
                 pc'[d] = pc[d] /\ used'[d] = used[d] /\ failed'[d] = failed[d]
BY DEF ConnectionInv, TypeOK, End, Goto

\* A call that retries pauses or raises, and disturbs no other.
LEMMA AfterRetry ==
    ASSUME ConnectionInv, NEW c \in Calls, NEW xs \in SUBSET Connections, Retry(c, xs)
    PROVE  /\ pc'[c] \in {"sleep", "raised"}
           /\ pc'[c] = "raised" => failed'[c] = {}
           /\ \A d \in Calls \ {c} :
                 pc'[d] = pc[d] /\ used'[d] = used[d] /\ failed'[d] = failed[d]
<1>1. CASE attempt[c] < MaxRetries[c]
    BY <1>1 DEF ConnectionInv, TypeOK, Retry, Goto
<1>2. CASE ~(attempt[c] < MaxRetries[c])
    <2>1. End(c, "raised") BY <1>2 DEF Retry
    <2> QED BY <2>1, AfterEnd
<1> QED BY <1>1, <1>2

\* What all steps by which a command or a connect ends have in common.
LEMMA ConnectionInvEnds ==
    ASSUME ConnectionInv, TypeOK', NEW c \in Calls, UNCHANGED cache,
           lock' = lock \/ (pc[c] = "connecting" /\ lock' = None),
           pc'[c] \in {"sleep", "returned", "raised"},
           pc'[c] # "sleep" => failed'[c] = {},
           \A d \in Calls \ {c} :
               pc'[d] = pc[d] /\ used'[d] = used[d] /\ failed'[d] = failed[d]
    PROVE  ConnectionInv'
<1>1. ASSUME NEW d \in Calls, pc'[d] = "connecting" PROVE lock' = d /\ ~IsLive(cached)'
    <2>1. d # c /\ pc[d] = "connecting" BY <1>1
    <2>2. lock = d /\ ~IsLive(cached) BY <2>1 DEF ConnectionInv, LockInv
    <2>3. pc[c] # "connecting" BY <2>1, <2>2 DEF ConnectionInv, LockInv
    <2> QED BY <2>2, <2>3 DEF cache, IsLive
<1>2. UsedInv' BY DEF ConnectionInv, UsedInv, cache, Connections
<1>3. FailedInv' BY DEF ConnectionInv, FailedInv, cache
<1>4. OneConnection' BY DEF ConnectionInv, OneConnection, cache
<1> QED BY <1>1, <1>2, <1>3, <1>4 DEF ConnectionInv, LockInv

\* Steps of the coroutines keep the invariant.
LEMMA ConnectionInvStep ==
    ASSUME ConnectionInv, NEW c \in Calls, Step(c)
    PROVE  ConnectionInv'
<1>0. TypeOK' BY TypeStep DEF ConnectionInv
<1>1. CASE Enqueue(c)
    BY <1>0, <1>1
    DEF ConnectionInv, Enqueue, UsedInv, LockInv, OneConnection, FailedInv, cache, tries,
        IsLive, Connections
<1>2. CASE UseCached(c)
    <2>1. cached \in Connections BY <1>2 DEF ConnectionInv, TypeOK, UseCached, IsLive
    <2>2. \A d \in Calls : pc[d] # "connecting"
        BY <1>2 DEF ConnectionInv, LockInv, UseCached, MayEnter, TypeOK
    <2>3. cached \notin failed[c] BY <1>2 DEF ConnectionInv, FailedInv, UseCached
    <2> QED
        BY <1>0, <1>2, <2>1, <2>2, <2>3
        DEF ConnectionInv, TypeOK, UseCached, Goto, UsedInv, LockInv, OneConnection,
            FailedInv, cache, Connections
<1>3. CASE StartConnect(c)
    <2>1. \A d \in Calls : pc[d] # "connecting"
        BY <1>3, CallsAssumption DEF ConnectionInv, LockInv, StartConnect, MayEnter
    <2> QED
        BY <1>0, <1>3, <2>1
        DEF ConnectionInv, TypeOK, StartConnect, Goto, UsedInv, LockInv, OneConnection,
            FailedInv, cache, tries, IsLive, Connections
<1>4. CASE Connected(c)
    <2>1. lock = c /\ cached \notin open
        BY <1>4 DEF ConnectionInv, LockInv, Connected, IsLive
    <2>2. LockInv'
        <3>1. \A d \in Calls : pc'[d] # "connecting"
            BY <1>4, <2>1 DEF ConnectionInv, LockInv, TypeOK, Connected, Goto
        <3> QED BY <3>1 DEF LockInv
    <2>3. OneConnection'
        BY <1>4, <2>1 DEF ConnectionInv, OneConnection, Connected
    <2>4. \A d \in Calls : made' \notin failed[d]
        BY <1>4 DEF ConnectionInv, TypeOK, Connected, Connections
    <2>5. FailedInv'
        BY <1>4, <2>4 DEF ConnectionInv, TypeOK, FailedInv, Connected, Goto
    <2>6. UsedInv'
        BY <1>4 DEF ConnectionInv, TypeOK, UsedInv, Connected, Goto, Connections
    <2> QED BY <1>0, <2>2, <2>3, <2>5, <2>6 DEF ConnectionInv
<1>5. CASE ConnectFails(c)
    <2>1. Retry(c, {}) /\ UNCHANGED cache /\ pc[c] = "connecting" /\ lock' = None
        BY <1>5 DEF ConnectFails
    <2>2. {} \in SUBSET Connections OBVIOUS
    <2> QED BY <1>0, <2>1, <2>2, AfterRetry, ConnectionInvEnds
<1>6. CASE ConnectRaises(c)
    <2>1. End(c, "raised") /\ UNCHANGED cache /\ pc[c] = "connecting" /\ lock' = None
        BY <1>6 DEF ConnectRaises
    <2> QED BY <1>0, <2>1, AfterEnd, ConnectionInvEnds
<1>7. CASE CommandReturns(c)
    <2>1. End(c, "returned") /\ UNCHANGED <<cache, lock>>
        BY <1>7 DEF CommandReturns
    <2> QED BY <1>0, <2>1, AfterEnd, ConnectionInvEnds
<1>8. CASE CommandFails(c)
    <2>1. Retry(c, {used[c]}) /\ UNCHANGED <<cache, lock>>
        BY <1>8 DEF CommandFails
    <2>2. {used[c]} \in SUBSET Connections
        BY <1>8 DEF ConnectionInv, UsedInv, CommandFails
    <2> QED BY <1>0, <2>1, <2>2, AfterRetry, ConnectionInvEnds
<1>9. CASE CommandRaises(c)
    <2>1. End(c, "raised") /\ UNCHANGED <<cache, lock>>
        BY <1>9 DEF CommandRaises
    <2> QED BY <1>0, <2>1, AfterEnd, ConnectionInvEnds
<1>10. CASE SleepEnds(c)
    BY <1>0, <1>10
    DEF ConnectionInv, TypeOK, SleepEnds, Goto, UsedInv, LockInv, OneConnection,
        FailedInv, cache, tries, IsLive, Connections
<1>11. CASE Forget(c)
    <2>1. ~IsLive(None)' BY <1>11, NoneIsNoConnection DEF ConnectionInv, Forget, IsLive
    <2>2. \A d \in Calls : None \notin failed[d]
        BY NoneIsNoConnection DEF ConnectionInv, TypeOK
    <2>3. OneConnection' BY <1>11 DEF ConnectionInv, OneConnection, Forget
    <2>4. LockInv' /\ UsedInv'
        BY <1>11, <2>1
        DEF ConnectionInv, TypeOK, Forget, Goto, LockInv, UsedInv, tries, IsLive, Connections
    <2>5. FailedInv'
        BY <1>11, <2>2 DEF ConnectionInv, TypeOK, Forget, Goto, FailedInv, tries
    <2> QED BY <1>0, <2>3, <2>4, <2>5 DEF ConnectionInv
<1> QED
    BY <1>1, <1>2, <1>3, <1>4, <1>5, <1>6, <1>7, <1>8, <1>9, <1>10, <1>11 DEF Step

\* The invariant holds whatever threads, coroutines and the network do.
THEOREM ConnectionInvariant == Spec => []ConnectionInv
<1>1. ConnectionInv /\ [Next]_vars => ConnectionInv'
    <2> SUFFICES ASSUME ConnectionInv, [Next]_vars PROVE ConnectionInv'
        OBVIOUS
    <2>1. ASSUME NEW h \in Threads, Caller(h) PROVE ConnectionInv'
        BY <2>1, ConnectionInvCaller
    <2>2. CASE Shutdown BY <2>2, ConnectionInvShutdown
    <2>3. ASSUME NEW c \in Calls, Step(c) PROVE ConnectionInv'
        BY <2>3, ConnectionInvStep
    <2>4. ASSUME NEW x \in open, Lose(x) PROVE ConnectionInv'
        BY <2>4, ConnectionInvLose
    <2>5. CASE UNCHANGED vars
        BY <2>5
        DEF vars, cache, tries, ConnectionInv, TypeOK, UsedInv, LockInv, OneConnection,
            FailedInv, IsLive, Connections
    <2> QED BY <2>1, <2>2, <2>3, <2>4, <2>5 DEF Next
<1> QED BY <1>1, InitConnectionInv, PTL DEF Spec

\* Every variable keeps its type.
THEOREM ConnectionTypes == Spec => []TypeOK
<1>1. ConnectionInv => TypeOK BY DEF ConnectionInv
<1> QED BY <1>1, ConnectionInvariant, PTL

\* For any number of calls at once, no connection is open beside the cached one
\* but those that retries let go of.
THEOREM OnlyOneConnection == Spec => []OneConnection
<1>1. ConnectionInv => OneConnection BY DEF ConnectionInv
<1> QED BY <1>1, ConnectionInvariant, PTL

\* For any number of retries beside each other, none runs again over a
\* connection on which it has failed.
THEOREM RetriesReconnect == Spec => []RetryReconnects
<1>1. ConnectionInv => RetryReconnects BY DEF ConnectionInv, FailedInv, RetryReconnects
<1> QED BY <1>1, ConnectionInvariant, PTL

----------------------------------------------------------------------------
(* Why CallsReturn holds, as far as it can be said without fairness: somebody
   can always move, and every move brings a call nearer to its end. *)

\* The lock is held only across a connect; who queues for it does so once and
\* waits for nothing else.
QueueInv ==
    /\ lock # None => lock \in Calls /\ pc[lock] = "connecting"
    /\ \A i \in DOMAIN queue : WantsLock(queue[i])
    /\ IsInjective(queue)

\* A step of a call that neither has nor wants the lock keeps the queue, and so
\* does one that gives the lock back.
LEMMA QueueKept ==
    ASSUME ConnectionInv, QueueInv, NEW c \in Calls, ~WantsLock(c), queue' = queue,
           \A d \in Calls \ {c} : pc'[d] = pc[d],
           lock' = None \/ (lock' = lock /\ pc[c] # "connecting")
    PROVE  QueueInv' /\ \A d \in Calls : Queued(d)' = Queued(d)
<1>1. \A i \in DOMAIN queue : queue[i] \in Calls BY DEF ConnectionInv, TypeOK
<1>2. \A i \in DOMAIN queue : queue[i] # c BY DEF QueueInv
<1> QED BY <1>1, <1>2 DEF QueueInv, WantsLock, Queued, IsInjective

\* Who enters leaves the queue, if it was in it, and no other does.
LEMMA QueueLeft ==
    ASSUME ConnectionInv, QueueInv, NEW c \in Calls, MayEnter(c), LeaveQueue
    PROVE  /\ \A i \in DOMAIN queue' : queue'[i] \in Calls \ {c} /\ WantsLock(queue'[i])
           /\ IsInjective(queue')
           /\ ~Queued(c)' /\ \A d \in Calls \ {c} : Queued(d)' = Queued(d)
<1>0. queue \in Seq(Calls) BY DEF ConnectionInv, TypeOK
<1>1. CASE queue = <<>> BY <1>1 DEF LeaveQueue, Queued, IsInjective
<1>2. CASE queue # <<>>
    <2>1. queue' = Tail(queue) /\ queue[1] = c BY <1>0, <1>2 DEF LeaveQueue, MayEnter
    <2>2. /\ DOMAIN queue = 1 .. Len(queue) /\ Len(queue) \in Nat \ {0}
          /\ DOMAIN queue' = 1 .. Len(queue) - 1
          /\ \A i \in 1 .. Len(queue) - 1 : queue'[i] = queue[i + 1]
        BY <1>0, <1>2, <2>1
    <2>3. \A i, j \in DOMAIN queue : queue[i] = queue[j] => i = j
        BY DEF QueueInv, IsInjective
    <2>4. \A i \in DOMAIN queue' : queue'[i] \in Calls \ {c} /\ WantsLock(queue'[i])
        <3> SUFFICES ASSUME NEW i \in DOMAIN queue'
                     PROVE  queue'[i] \in Calls \ {c} /\ WantsLock(queue'[i])
            OBVIOUS
        <3>1. i + 1 \in DOMAIN queue /\ 1 \in DOMAIN queue /\ i + 1 # 1 BY <2>2
        <3>2. queue'[i] = queue[i + 1] /\ queue[i + 1] \in Calls BY <1>0, <2>2, <3>1
        <3> QED BY <2>1, <2>3, <3>1, <3>2 DEF QueueInv
    <2>5. IsInjective(queue')
        <3> SUFFICES ASSUME NEW i \in DOMAIN queue', NEW j \in DOMAIN queue',
                            queue'[i] = queue'[j]
                     PROVE  i = j
            BY DEF IsInjective
        <3>1. i + 1 \in DOMAIN queue /\ j + 1 \in DOMAIN queue BY <2>2
        <3>2. i + 1 = j + 1 BY <2>2, <2>3, <3>1
        <3> QED BY <2>2, <3>2
    <2>6. ASSUME NEW d \in Calls \ {c} PROVE Queued(d)' = Queued(d)
        <3>1. ASSUME NEW i \in DOMAIN queue', queue'[i] = d PROVE Queued(d)
            BY <2>2, <3>1 DEF Queued
        <3>2. ASSUME NEW i \in DOMAIN queue, queue[i] = d PROVE Queued(d)'
            <4>1. i # 1 BY <2>1, <3>2
            <4>2. i - 1 \in DOMAIN queue' /\ queue'[i - 1] = queue[i] BY <2>2, <4>1
            <4> QED BY <3>2, <4>2 DEF Queued
        <3> QED BY <3>1, <3>2 DEF Queued
    <2> QED BY <2>4, <2>5, <2>6 DEF Queued
<1> QED BY <1>1, <1>2

\* Entering keeps the invariant, whether the lock is kept for a connect or not.
LEMMA QueueEntered ==
    ASSUME ConnectionInv, QueueInv, NEW c \in Calls, MayEnter(c), LeaveQueue,
           \A d \in Calls \ {c} : pc'[d] = pc[d],
           lock' = None \/ (lock' = c /\ pc'[c] = "connecting")
    PROVE  /\ QueueInv' /\ ~Queued(c)'
           /\ \A d \in Calls \ {c} : Queued(d)' = Queued(d)
BY QueueLeft DEF QueueInv, WantsLock

\* Who arrives is put behind the others.
LEMMA QueueJoined ==
    ASSUME ConnectionInv, QueueInv, NEW c \in Calls, Enqueue(c)
    PROVE  /\ QueueInv' /\ Queued(c)'
           /\ \A d \in Calls \ {c} : Queued(d)' = Queued(d)
<1>0. queue \in Seq(Calls) BY DEF ConnectionInv, TypeOK
<1>1. queue' = Append(queue, c) /\ ~Queued(c) /\ WantsLock(c) /\ UNCHANGED <<lock, pc>>
    BY DEF Enqueue
<1>2. /\ Len(queue) \in Nat /\ DOMAIN queue = 1 .. Len(queue)
      /\ DOMAIN queue' = 1 .. Len(queue) + 1
      /\ queue'[Len(queue) + 1] = c
      /\ \A i \in DOMAIN queue : i \in DOMAIN queue' /\ queue'[i] = queue[i]
      /\ \A i \in DOMAIN queue' : i \in DOMAIN queue \/ i = Len(queue) + 1
    BY <1>0, <1>1
<1>3. \A i \in DOMAIN queue : queue[i] # c BY <1>1 DEF Queued
<1>4. \A i \in DOMAIN queue' : pc'[queue'[i]] \in {"get", "forget"}
    BY <1>1, <1>2 DEF QueueInv, WantsLock
<1>5. IsInjective(queue')
    <2> SUFFICES ASSUME NEW i \in DOMAIN queue', NEW j \in DOMAIN queue',
                        queue'[i] = queue'[j]
                 PROVE  i = j
        BY DEF IsInjective
    <2>1. CASE i \in DOMAIN queue /\ j \in DOMAIN queue
        BY <1>2, <2>1 DEF QueueInv, IsInjective
    <2>2. CASE i = Len(queue) + 1 /\ j \in DOMAIN queue BY <1>2, <1>3, <2>2
    <2>3. CASE j = Len(queue) + 1 /\ i \in DOMAIN queue BY <1>2, <1>3, <2>3
    <2> QED BY <1>2, <2>1, <2>2, <2>3
<1>6. Queued(c)' BY <1>2 DEF Queued
<1>7. ASSUME NEW d \in Calls \ {c} PROVE Queued(d)' = Queued(d)
    BY <1>2 DEF Queued
<1> QED BY <1>1, <1>4, <1>5, <1>6, <1>7 DEF QueueInv, WantsLock

\* How far a call is from its end within an attempt; a retry begins with the
\* pause.
Rank(c) ==
    CASE pc[c] = "new" -> 7
      [] pc[c] = "sleep" -> 9
      [] pc[c] = "forget" -> IF Queued(c) THEN 7 ELSE 8
      [] pc[c] = "get" -> IF Queued(c) THEN 5 ELSE 6
      [] pc[c] = "connecting" -> 4
      [] OTHER -> 3

\* The steps that a call may still take, at most.
Distance(c) ==
    IF Ended(c) THEN 0 ELSE 10 * (MaxRetries[c] - attempt[c]) + Rank(c)

\* A distance is a number, and its bound is that of the call's retries.
LEMMA DistanceIsBounded ==
    ASSUME TypeOK, NEW c \in Calls
    PROVE  /\ Rank(c) \in 3 .. 9
           /\ Distance(c) \in 0 .. 10 * MaxRetries[c] + 9
           /\ MaxRetries[c] \in Nat /\ attempt[c] \in 0 .. MaxRetries[c]
           /\ pc[c] \in Places
<1>1. /\ MaxRetries[c] \in Nat /\ attempt[c] \in 0 .. MaxRetries[c]
      /\ pc[c] \in Places
    BY RetriesAssumption DEF TypeOK
<1>2. Rank(c) \in 3 .. 9 BY <1>1 DEF Rank, Places
<1> QED BY <1>1, <1>2 DEF Distance

\* The same, for the state after a step too.
LEMMA DistancesAreIntegers == TypeOK => \A c \in Calls : Distance(c) \in Int
BY DistanceIsBounded

\* A call whose place, attempts and place in the queue stay is as far as before.
LEMMA DistanceKept ==
    ASSUME NEW d \in Calls, pc'[d] = pc[d], attempt'[d] = attempt[d],
           Queued(d)' = Queued(d)
    PROVE  Distance(d)' = Distance(d)
BY DEF Distance, Rank, Ended

\* What a step of c does to the lock, to the queue and to the distances.
Advances(c) ==
    /\ QueueInv'
    /\ Distance(c)' < Distance(c)
    /\ \A d \in Calls \ {c} : Distance(d)' = Distance(d)

\* Ending a call leaves no distance; the next attempt is nearer to the end than
\* the one that failed.
LEMMA FailureAdvances ==
    ASSUME ConnectionInv, TypeOK', QueueInv, NEW c \in Calls,
           pc[c] \in {"connecting", "command"},
           queue' = queue,
           lock' = IF pc[c] = "connecting" THEN None ELSE lock,
           (\E place \in {"returned", "raised"} : End(c, place))
              \/ (\E xs \in SUBSET Connections : Retry(c, xs))
    PROVE  Advances(c)
<1>0. TypeOK BY DEF ConnectionInv
<1>1. \/ pc'[c] \in {"returned", "raised"}
      \/ pc'[c] = "sleep" /\ attempt'[c] = attempt[c] + 1
    BY <1>0 DEF TypeOK, End, Retry, Goto
<1>2. \A d \in Calls \ {c} : pc'[d] = pc[d] /\ attempt'[d] = attempt[d]
    BY <1>0 DEF TypeOK, End, Retry, Goto
<1>3. QueueInv' /\ \A d \in Calls : Queued(d)' = Queued(d)
    BY <1>2, QueueKept DEF WantsLock
<1>4. Distance(c)' < Distance(c)
    <2>1. /\ MaxRetries[c] \in Nat /\ attempt[c] \in Nat /\ Distance(c) \in Int
          /\ Distance(c) >= 10 * (MaxRetries[c] - attempt[c]) + 3
          /\ MaxRetries[c] - attempt[c] >= 0
        BY <1>0, DistanceIsBounded DEF Distance, Ended
    <2>2. CASE pc'[c] \in {"returned", "raised"}
        <3>1. Distance(c)' = 0 BY <2>2 DEF Distance, Ended
        <3> QED BY <2>1, <3>1
    <2>3. CASE pc'[c] = "sleep" /\ attempt'[c] = attempt[c] + 1
        <3>1. Distance(c)' = 10 * (MaxRetries[c] - (attempt[c] + 1)) + 9
            BY <2>3 DEF Distance, Rank, Ended
        <3> QED BY <2>1, <3>1
    <2> QED BY <1>1, <2>2, <2>3
<1> QED BY <1>2, <1>3, <1>4, DistanceKept DEF Advances

\* A step within an attempt.
LEMMA PlaceAdvances ==
    ASSUME TypeOK, NEW c \in Calls, ~Ended(c), ~Ended(c)', attempt' = attempt,
           QueueInv', Rank(c)' < Rank(c), Rank(c)' \in Nat,
           \A d \in Calls \ {c} : pc'[d] = pc[d] /\ Queued(d)' = Queued(d)
    PROVE  Advances(c)
<1>1. Distance(c)' < Distance(c)
    <2>1. /\ Distance(c) = 10 * (MaxRetries[c] - attempt[c]) + Rank(c)
          /\ Distance(c)' = 10 * (MaxRetries[c] - attempt[c]) + Rank(c)'
        BY DEF Distance
    <2> QED BY <2>1, DistanceIsBounded
<1> QED BY <1>1, DistanceKept DEF Advances

\* Every step of a coroutine brings its call nearer to its end.
LEMMA StepAdvances ==
    ASSUME ConnectionInv, TypeOK', QueueInv, NEW c \in Calls, Step(c)
    PROVE  Advances(c)
<1>0. TypeOK /\ pc \in [Calls -> Places] BY DEF ConnectionInv, TypeOK
<1>1. CASE Enqueue(c)
    <2>1. /\ QueueInv' /\ Queued(c)' /\ ~Queued(c) /\ WantsLock(c)
          /\ \A d \in Calls \ {c} : Queued(d)' = Queued(d)
          /\ pc' = pc /\ attempt' = attempt
        BY <1>1, QueueJoined DEF Enqueue, tries
    <2>2. Rank(c)' < Rank(c) /\ Rank(c)' \in Nat BY <2>1 DEF WantsLock, Rank
    <2> QED BY <1>0, <2>1, <2>2, PlaceAdvances DEF WantsLock, Ended
<1>2. CASE UseCached(c)
    <2>1. /\ pc[c] = "get" /\ pc'[c] = "command" /\ attempt' = attempt
          /\ \A d \in Calls \ {c} : pc'[d] = pc[d]
          /\ lock' = None /\ MayEnter(c) /\ LeaveQueue
        BY <1>0, <1>2 DEF UseCached, Goto, MayEnter
    <2>2. Rank(c)' < Rank(c) /\ Rank(c)' \in Nat BY <2>1 DEF Rank
    <2> QED BY <1>0, <2>1, <2>2, QueueEntered, PlaceAdvances DEF Ended
<1>3. CASE StartConnect(c)
    <2>1. /\ pc[c] = "get" /\ pc'[c] = "connecting" /\ attempt' = attempt
          /\ \A d \in Calls \ {c} : pc'[d] = pc[d]
          /\ lock' = c /\ MayEnter(c) /\ LeaveQueue
        BY <1>0, <1>3 DEF StartConnect, Goto, tries
    <2>2. Rank(c)' < Rank(c) /\ Rank(c)' \in Nat BY <2>1 DEF Rank
    <2> QED BY <1>0, <2>1, <2>2, QueueEntered, PlaceAdvances DEF Ended
<1>4. CASE Connected(c)
    <2>1. /\ pc[c] = "connecting" /\ pc'[c] = "command" /\ attempt' = attempt
          /\ \A d \in Calls \ {c} : pc'[d] = pc[d]
          /\ lock' = None /\ queue' = queue
        BY <1>0, <1>4 DEF Connected, Goto
    <2>2. Rank(c)' < Rank(c) /\ Rank(c)' \in Nat BY <2>1 DEF Rank
    <2>3. ~WantsLock(c) BY <2>1 DEF WantsLock
    <2> QED BY <1>0, <2>1, <2>2, <2>3, QueueKept, PlaceAdvances DEF Ended
<1>5. CASE ConnectFails(c)
    <2>1. {} \in SUBSET Connections OBVIOUS
    <2> QED BY <1>5, <2>1, FailureAdvances DEF ConnectFails
<1>6. CASE ConnectRaises(c) BY <1>6, FailureAdvances DEF ConnectRaises
<1>7. CASE CommandReturns(c) BY <1>7, FailureAdvances DEF CommandReturns
<1>8. CASE CommandFails(c)
    <2>1. {used[c]} \in SUBSET Connections
        BY <1>8 DEF ConnectionInv, UsedInv, CommandFails
    <2> QED BY <1>8, <2>1, FailureAdvances DEF CommandFails
<1>9. CASE CommandRaises(c) BY <1>9, FailureAdvances DEF CommandRaises
<1>10. CASE SleepEnds(c)
    <2>1. /\ pc[c] = "sleep" /\ pc'[c] = "forget" /\ attempt' = attempt
          /\ \A d \in Calls \ {c} : pc'[d] = pc[d]
          /\ lock' = lock /\ queue' = queue
        BY <1>0, <1>10 DEF SleepEnds, Goto, tries
    <2>2. Rank(c)' < Rank(c) /\ Rank(c)' \in Nat BY <2>1 DEF Rank
    <2>3. ~WantsLock(c) BY <2>1 DEF WantsLock
    <2> QED BY <1>0, <2>1, <2>2, <2>3, QueueKept, PlaceAdvances DEF Ended
<1>11. CASE Forget(c)
    <2>1. /\ pc[c] = "forget" /\ pc'[c] = "get" /\ attempt' = attempt
          /\ \A d \in Calls \ {c} : pc'[d] = pc[d]
          /\ lock' = None /\ MayEnter(c) /\ LeaveQueue
        BY <1>0, <1>11 DEF Forget, Goto, MayEnter, tries
    <2>2. Rank(c)' < Rank(c) /\ Rank(c)' \in Nat BY <2>1 DEF Rank
    <2> QED BY <1>0, <2>1, <2>2, QueueEntered, PlaceAdvances DEF Ended
<1> QED
    BY <1>1, <1>2, <1>3, <1>4, <1>5, <1>6, <1>7, <1>8, <1>9, <1>10, <1>11 DEF Step

\* What steps that are of no coroutine do.
LEMMA OthersKeepDistance ==
    ASSUME ConnectionInv, TypeOK', QueueInv, UNCHANGED <<lock, queue, attempt>>,
           \/ pc' = pc
           \/ \E c \in Calls : pc[c] = "new" /\ pc' = [pc EXCEPT ![c] = "get"]
    PROVE  QueueInv' /\ \A d \in Calls : Distance(d)' <= Distance(d)
<1>0. TypeOK /\ pc \in [Calls -> Places] BY DEF ConnectionInv, TypeOK
<1>1. CASE pc' = pc
    <2>1. QueueInv' BY <1>1 DEF QueueInv, WantsLock
    <2>2. ASSUME NEW d \in Calls PROVE Distance(d)' <= Distance(d)
        <3>1. Distance(d)' = Distance(d) BY <1>1 DEF Distance, Rank, Ended, Queued
        <3>2. Distance(d) \in Int BY <1>0, DistanceIsBounded
        <3> QED BY <3>1, <3>2
    <2> QED BY <2>1, <2>2
<1>2. ASSUME NEW c \in Calls, pc[c] = "new", pc' = [pc EXCEPT ![c] = "get"]
      PROVE  QueueInv' /\ \A d \in Calls : Distance(d)' <= Distance(d)
    <2>1. pc'[c] = "get" /\ \A d \in Calls \ {c} : pc'[d] = pc[d] BY <1>0, <1>2
    <2>2. QueueInv' /\ \A d \in Calls : Queued(d)' = Queued(d)
        BY <1>2, <2>1, QueueKept DEF WantsLock
    <2>3. ASSUME NEW d \in Calls \ {c} PROVE Distance(d)' <= Distance(d)
        <3>1. Distance(d)' = Distance(d) BY <2>1, <2>2, DistanceKept
        <3>2. Distance(d) \in Int BY <1>0, DistanceIsBounded
        <3> QED BY <3>1, <3>2
    <2>4. Distance(c)' <= Distance(c)
        <3>1. /\ Distance(c) = 10 * (MaxRetries[c] - attempt[c]) + 7
              /\ Distance(c)' = 10 * (MaxRetries[c] - attempt[c]) + Rank(c)'
              /\ Rank(c)' \in {5, 6}
            BY <1>2, <2>1 DEF Distance, Rank, Ended
        <3> QED BY <1>0, <3>1, DistanceIsBounded
    <2> QED BY <2>2, <2>3, <2>4
<1> QED BY <1>1, <1>2

\* The queue's invariant, and what every step does to the distances.
LEMMA NextAdvances ==
    ASSUME ConnectionInv, TypeOK', QueueInv, [Next]_vars
    PROVE  /\ QueueInv'
           /\ \A c \in Calls :
                 /\ Distance(c)' <= Distance(c)
                 /\ Step(c) => Distance(c)' < Distance(c)
<1>0. \A c \in Calls : Distance(c) \in Int /\ Distance(c)' \in Int
    <2>1. (TypeOK => \A c \in Calls : Distance(c) \in Int)' BY DistancesAreIntegers, PTL
    <2> QED BY <2>1, DistancesAreIntegers DEF ConnectionInv
<1>1. \A c \in Calls : Step(c) => Advances(c) BY StepAdvances
<1>2. CASE \E c \in Calls : Step(c)
    <2>1. PICK c \in Calls : Advances(c) BY <1>1, <1>2
    <2>2. \A d \in Calls : Distance(d)' <= Distance(d) BY <1>0, <2>1 DEF Advances
    <2> QED BY <1>1, <2>1, <2>2 DEF Advances
<1>3. CASE (\E h \in Threads : Caller(h)) \/ Shutdown \/ (\E x \in open : Lose(x))
           \/ UNCHANGED vars
    <2>1. /\ UNCHANGED <<lock, queue, attempt>>
          /\ \/ pc' = pc
             \/ \E c \in Calls : pc[c] = "new" /\ pc' = [pc EXCEPT ![c] = "get"]
        BY <1>3
        DEF Caller, Call, Answer, Interrupt, Close, Stop, Shutdown, Lose, vars, tries, Goto
    <2>2. QueueInv' /\ \A d \in Calls : Distance(d)' <= Distance(d)
        BY <2>1, OthersKeepDistance
    <2> QED BY <1>1, <2>2 DEF Advances
<1> QED BY <1>2, <1>3 DEF Next

\* The lock is held across connects only, and nobody is in its queue twice.
THEOREM QueueInvariant == Spec => []QueueInv
<1>1. Init => QueueInv BY CallsAssumption DEF Init, QueueInv, IsInjective
<1>2. ConnectionInv /\ ConnectionInv' /\ QueueInv /\ [Next]_vars => QueueInv'
    BY NextAdvances DEF ConnectionInv
<1> QED BY <1>1, <1>2, ConnectionInvariant, PTL DEF Spec

\* Every step of a call brings it nearer to its end, by a measure that is at
\* most ten per attempt, and no step of another call, of a thread, of close or
\* of the network takes it back.
CallsAdvance ==
    [][\A c \in Calls :
          /\ Distance(c)' <= Distance(c)
          /\ Step(c) => Distance(c)' < Distance(c)]_vars

\* However many coroutines and retries there are, no call runs for ever: what it
\* still may do shrinks with every step it takes.
THEOREM CallsAdvanceAlways == Spec => CallsAdvance
<1>1. ConnectionInv /\ ConnectionInv' /\ QueueInv /\ [Next]_vars
      => [\A c \in Calls :
             /\ Distance(c)' <= Distance(c)
             /\ Step(c) => Distance(c)' < Distance(c)]_vars
    BY NextAdvances DEF ConnectionInv
<1> QED BY <1>1, ConnectionInvariant, QueueInvariant, PTL DEF Spec, CallsAdvance

\* While the loop runs, a call that has begun and not ended is before a step of
\* its own that nothing can keep from it, or it waits for the lock, in a queue
\* whose first may have the lock now or waits for a call that is connecting.
NobodyIsStranded ==
    loop = "running" =>
        \A c \in Calls :
            \/ pc[c] \in {"new", "returned", "raised"}
            \/ pc[c] \in {"connecting", "command", "sleep"}
            \/ WantsLock(c) /\ (MayEnter(c) \/ ~Queued(c))
            \/ /\ WantsLock(c) /\ Queued(c)
               /\ \/ lock \in Calls /\ pc[lock] = "connecting"
                  \/ MayEnter(Head(queue))

\* No set of calls, retries and interrupted waits is ever waiting on itself.
THEOREM NobodyIsEverStranded == Spec => []NobodyIsStranded
<1>1. ConnectionInv /\ QueueInv => NobodyIsStranded
    <2> SUFFICES ASSUME ConnectionInv, QueueInv, loop = "running", NEW c \in Calls,
                        WantsLock(c), Queued(c)
                 PROVE  \/ lock \in Calls /\ pc[lock] = "connecting"
                        \/ MayEnter(Head(queue))
        BY DEF NobodyIsStranded, ConnectionInv, TypeOK, Places, WantsLock
    <2>1. queue \in Seq(Calls) /\ queue # <<>> BY DEF ConnectionInv, TypeOK, Queued
    <2>2. Head(queue) = queue[1] /\ 1 \in DOMAIN queue BY <2>1
    <2>3. WantsLock(Head(queue)) BY <2>2 DEF QueueInv
    <2> QED BY <2>1, <2>3 DEF QueueInv, MayEnter
<1> QED BY <1>1, ConnectionInvariant, QueueInvariant, PTL
=============================================================================
