----------------------------- MODULE SSHManager -----------------------------
(***************************************************************************)
(* The SSH connection of a SyncClient: SSHManager (src/slurp/core/ssh.py)   *)
(* on the client's background loop (src/slurp/client.py).  Calls are         *)
(* coroutines of one event loop, so that a step runs from one await to the   *)
(* next; the caller's thread waits for the call's future, and Ctrl+C ends    *)
(* the wait but not the coroutine, which goes on beside the next call or     *)
(* beside close().  asyncio.Lock is first come, first served.  One profile,  *)
(* hence one entry in the cache of connections.                             *)
(***************************************************************************)
EXTENDS Naturals, Sequences, SequencesExt

CONSTANTS
    Threads,     \* threads that use the client
    Calls,       \* calls of run, run_with_retry and open_process
    MaxRetries,  \* MaxRetries[c]: run_with_retry's max_retries, 0 for the others
    MaxShutdowns, \* bound: _shutdown_async coroutines that have not begun
    None

ASSUME RetriesAssumption == MaxRetries \in [Calls -> Nat]
ASSUME ShutdownsAssumption == MaxShutdowns \in Nat
ASSUME CallsAssumption == None \notin Calls /\ None \notin Nat

VARIABLES
    loop,      \* "running" until SyncClient.close stops it
    cached,    \* _connections[profile]: the number of a connection, or None
    open,      \* the connections that are open, as asyncssh knows
    made,      \* connections are numbered in the order they are made
    lock,      \* the holder of _lock, or None
    queue,     \* who waits for it, in order of arrival
    pc,        \* per call: where its coroutine is
    used,      \* used[c]: the connection c's command goes over
    attempt,   \* attempt[c]: how many attempts of c have failed
    failed,    \* failed[c]: the connections they failed on (history)
    dropped,   \* open connections that a retry took from the cache (history)
    shutdowns, \* how many _shutdown_async coroutines have not begun
    waiting    \* waiting[h]: the call thread h waits for, "shutdown" while it
               \* waits for that within close, or None

cache == <<cached, open, made, dropped>>
tries == <<used, attempt, failed>>
vars == <<loop, cache, lock, queue, pc, tries, shutdowns, waiting>>

Places == {"new", "get", "connecting", "command", "sleep", "forget", "returned", "raised"}
Connections == 1 .. made

TypeOK ==
    /\ loop \in {"running", "stopped"}
    /\ made \in Nat
    /\ cached \in Connections \cup {None}
    /\ open \subseteq Connections /\ dropped \subseteq Connections
    /\ lock \in Calls \cup {None}
    /\ queue \in Seq(Calls)
    /\ pc \in [Calls -> Places]
    /\ used \in [Calls -> Connections \cup {None}]
    /\ attempt \in [Calls -> Nat]
    /\ \A c \in Calls : attempt[c] <= MaxRetries[c]
    /\ failed \in [Calls -> SUBSET Connections]
    /\ shutdowns \in 0 .. MaxShutdowns
    /\ waiting \in [Threads -> Calls \cup {None, "shutdown"}]

Init ==
    /\ loop = "running"
    /\ cached = None /\ open = {} /\ made = 0 /\ dropped = {}
    /\ lock = None /\ queue = <<>>
    /\ pc = [c \in Calls |-> "new"]
    /\ used = [c \in Calls |-> None]
    /\ attempt = [c \in Calls |-> 0]
    /\ failed = [c \in Calls |-> {}]
    /\ shutdowns = 0
    /\ waiting = [h \in Threads |-> None]

Goto(c, place) == pc' = [pc EXCEPT ![c] = place]

\* The coroutine returns or raises; its local variables are gone.
End(c, place) ==
    /\ Goto(c, place)
    /\ used' = [used EXCEPT ![c] = None]
    /\ attempt' = [attempt EXCEPT ![c] = 0]
    /\ failed' = [failed EXCEPT ![c] = {}]

----------------------------------------------------------------------------
(* The caller's side: SyncClient._run and close *)

\* After close the coroutine is handed to a loop that does not run it.
Call(h, c) ==
    /\ waiting[h] = None /\ pc[c] = "new"
    /\ Goto(c, "get")
    /\ waiting' = [waiting EXCEPT ![h] = c]
    /\ UNCHANGED <<loop, cache, lock, queue, tries, shutdowns>>

Ended(c) == pc[c] \in {"returned", "raised"}

Answer(h) ==
    /\ waiting[h] \in Calls /\ Ended(waiting[h])
    /\ waiting' = [waiting EXCEPT ![h] = None]
    /\ UNCHANGED <<loop, cache, lock, queue, pc, tries, shutdowns>>

\* Ctrl+C ends the wait for a future; the coroutine is not cancelled.
Interrupt(h) ==
    /\ waiting[h] # None
    /\ waiting' = [waiting EXCEPT ![h] = None]
    /\ UNCHANGED <<loop, cache, lock, queue, pc, tries, shutdowns>>

Close(h) ==
    /\ waiting[h] = None /\ loop = "running" /\ shutdowns < MaxShutdowns
    /\ waiting' = [waiting EXCEPT ![h] = "shutdown"]
    /\ shutdowns' = shutdowns + 1
    /\ UNCHANGED <<loop, cache, lock, queue, pc, tries>>

\* _shutdown_async on the loop: the cached connection is closed and forgotten,
\* without the lock.
Shutdown ==
    /\ loop = "running" /\ shutdowns > 0
    /\ shutdowns' = shutdowns - 1
    /\ open' = open \ {cached}
    /\ cached' = None
    /\ UNCHANGED <<loop, made, dropped, lock, queue, pc, tries, waiting>>

\* The loop is stopped when _shutdown_async has ended or five seconds are over,
\* so that it may not have begun in a loop that was busy.
Stop(h) ==
    /\ waiting[h] = "shutdown"
    /\ loop' = "stopped"
    /\ waiting' = [waiting EXCEPT ![h] = None]
    /\ UNCHANGED <<cache, lock, queue, pc, tries, shutdowns>>

----------------------------------------------------------------------------
(* The coroutines *)

WantsLock(c) == pc[c] \in {"get", "forget"}

Queued(c) == \E i \in DOMAIN queue : queue[i] = c

\* asyncio.Lock: a waiter that was woken keeps its turn until it runs.
MayEnter(c) ==
    /\ loop = "running" /\ WantsLock(c) /\ lock = None
    /\ IF queue = <<>> THEN TRUE ELSE Head(queue) = c

LeaveQueue == queue' = IF queue = <<>> THEN queue ELSE Tail(queue)

Enqueue(c) ==
    /\ loop = "running" /\ WantsLock(c) /\ ~Queued(c)
    /\ lock # None \/ queue # <<>>
    /\ queue' = Append(queue, c)
    /\ UNCHANGED <<loop, cache, lock, pc, tries, shutdowns, waiting>>

IsLive(x) == x \in open

\* get_connection: a live connection is used at once, the lock is not kept.
UseCached(c) ==
    /\ pc[c] = "get" /\ MayEnter(c) /\ IsLive(cached)
    /\ LeaveQueue
    /\ used' = [used EXCEPT ![c] = cached]
    /\ Goto(c, "command")
    /\ UNCHANGED <<loop, cache, lock, attempt, failed, shutdowns, waiting>>

\* Mutant: the lock is given back before the connect.
StartConnectUnlocked(c) ==
    /\ pc[c] = "get" /\ MayEnter(c) /\ ~IsLive(cached)
    /\ LeaveQueue
    /\ Goto(c, "connecting")
    /\ UNCHANGED <<loop, cache, lock, tries, shutdowns, waiting>>

\* get_connection: the lock is held until _connect has ended.
StartConnect(c) ==
    /\ pc[c] = "get" /\ MayEnter(c) /\ ~IsLive(cached)
    /\ LeaveQueue
    /\ lock' = c
    /\ Goto(c, "connecting")
    /\ UNCHANGED <<loop, cache, tries, shutdowns, waiting>>

Connected(c) ==
    /\ loop = "running" /\ pc[c] = "connecting"
    /\ made' = made + 1
    /\ open' = open \cup {made'}
    /\ cached' = made'
    /\ used' = [used EXCEPT ![c] = made']
    /\ lock' = None
    /\ Goto(c, "command")
    /\ UNCHANGED <<loop, dropped, queue, attempt, failed, shutdowns, waiting>>

\* Mutant: one retry too many.
RetryOnceMore(c, xs) ==
    IF attempt[c] <= MaxRetries[c]
    THEN /\ Goto(c, "sleep")
         /\ used' = [used EXCEPT ![c] = None]
         /\ attempt' = [attempt EXCEPT ![c] = @ + 1]
         /\ failed' = [failed EXCEPT ![c] = @ \cup xs]
    ELSE End(c, "raised")

\* run_with_retry: an SSHError, of a command over the connections xs or of
\* _connect, is retried after a pause until it has been retried enough.
Retry(c, xs) ==
    IF attempt[c] < MaxRetries[c]
    THEN /\ Goto(c, "sleep")
         /\ used' = [used EXCEPT ![c] = None]
         /\ attempt' = [attempt EXCEPT ![c] = @ + 1]
         /\ failed' = [failed EXCEPT ![c] = @ \cup xs]
    ELSE End(c, "raised")

\* Mutant: the exception leaves the lock taken.
ConnectFailsLocked(c) ==
    /\ loop = "running" /\ pc[c] = "connecting"
    /\ Retry(c, {})
    /\ UNCHANGED <<loop, cache, lock, queue, shutdowns, waiting>>

\* asyncssh.Error and OSError become an SSHError.
ConnectFails(c) ==
    /\ loop = "running" /\ pc[c] = "connecting"
    /\ lock' = None
    /\ Retry(c, {})
    /\ UNCHANGED <<loop, cache, queue, shutdowns, waiting>>

\* Anything else is raised as it is, as by a loop whose executor is shut down.
ConnectRaises(c) ==
    /\ loop = "running" /\ pc[c] = "connecting"
    /\ lock' = None
    /\ End(c, "raised")
    /\ UNCHANGED <<loop, cache, queue, shutdowns, waiting>>

\* The exit status is there, or the connection broke and there is none: unless
\* it is to be checked, a status that is missing passes for 0.
CommandReturns(c) ==
    /\ loop = "running" /\ pc[c] = "command"
    /\ End(c, "returned")
    /\ UNCHANGED <<loop, cache, lock, queue, shutdowns, waiting>>

\* An SSHError: the exit status (none, if the connection broke) or the timeout.
CommandFails(c) ==
    /\ loop = "running" /\ pc[c] = "command"
    /\ Retry(c, {used[c]})
    /\ UNCHANGED <<loop, cache, lock, queue, shutdowns, waiting>>

\* asyncssh's own exception for a connection that is lost is not an SSHError.
CommandRaises(c) ==
    /\ loop = "running" /\ pc[c] = "command" /\ ~IsLive(used[c])
    /\ End(c, "raised")
    /\ UNCHANGED <<loop, cache, lock, queue, shutdowns, waiting>>

SleepEnds(c) ==
    /\ loop = "running" /\ pc[c] = "sleep"
    /\ Goto(c, "forget")
    /\ UNCHANGED <<loop, cache, lock, queue, tries, shutdowns, waiting>>

\* Mutant: the retry leaves the connection in the cache.
ForgetNothing(c) ==
    /\ pc[c] = "forget" /\ MayEnter(c)
    /\ LeaveQueue
    /\ Goto(c, "get")
    /\ UNCHANGED <<loop, cache, lock, tries, shutdowns, waiting>>

\* "Force reconnect": whatever is cached by now leaves the cache, unclosed.
Forget(c) ==
    /\ pc[c] = "forget" /\ MayEnter(c)
    /\ LeaveQueue
    /\ cached' = None
    /\ dropped' = dropped \cup (open \cap {cached})
    /\ Goto(c, "get")
    /\ UNCHANGED <<loop, open, made, lock, tries, shutdowns, waiting>>

\* The network: a connection breaks.
Lose(x) ==
    /\ open' = open \ {x}
    /\ dropped' = dropped \ {x}
    /\ UNCHANGED <<loop, cached, made, lock, queue, pc, tries, shutdowns, waiting>>

Step(c) ==
    \/ Enqueue(c) \/ UseCached(c) \/ StartConnect(c)
    \/ Connected(c) \/ ConnectFails(c) \/ ConnectRaises(c)
    \/ CommandReturns(c) \/ CommandFails(c) \/ CommandRaises(c)
    \/ SleepEnds(c) \/ Forget(c)

Caller(h) ==
    \/ \E c \in Calls : Call(h, c)
    \/ Answer(h) \/ Interrupt(h) \/ Close(h) \/ Stop(h)

Next ==
    \/ \E h \in Threads : Caller(h)
    \/ Shutdown
    \/ \E c \in Calls : Step(c)
    \/ \E x \in open : Lose(x)

Spec == Init /\ [][Next]_vars

\* The loop runs its coroutines, connects and commands end (connects by the
\* timeouts of TCP and of the login, commands by their own), answers are taken.
Fairness ==
    /\ \A c \in Calls : WF_vars(Step(c))
    /\ \A h \in Threads : WF_vars(Answer(h)) /\ WF_vars(Stop(h))

FairSpec == Spec /\ Fairness

----------------------------------------------------------------------------
(* Properties *)

\* However many coroutines find no connection at once, and however they fail
\* and retry beside each other and beside close, at most one open connection
\* is not one that a retry let go of: the cached one.
\* (_lock is held across _connect; ssh.py:105-111.)
OneConnection == open \subseteq {cached} \cup dropped

\* "Force reconnect": an attempt never runs over a connection on which an
\* earlier attempt of the same call has failed, although between the two
\* others use and replace what is cached.
RetryReconnects == \A c \in Calls : pc[c] = "command" => used[c] \notin failed[c]

\* A thread that waits for a call gets its result or its exception, or the
\* client is closed under it: no connect that fails keeps the lock, and no
\* coroutine waits for the lock behind others for ever.
CallsReturn ==
    \A h \in Threads : (waiting[h] # None) ~> (waiting[h] = None \/ loop = "stopped")
=============================================================================
