----------------------------- MODULE Dashboard -----------------------------
(***************************************************************************)
(* The page of the web UI (src/slurp/webui/static/dashboard.js): its map of *)
(* jobs, filled by GET /api/jobs and by the events of JobStream.           *)
(***************************************************************************)
EXTENDS JobStream

VARIABLES
    fetched,   \* the reply of /api/jobs on its way to the page
    rows,      \* the page's map `jobs`
    stray      \* that map has an entry for the id undefined

pageVars == <<fetched, rows, stray>>
pageAndStream == <<vars, pageVars>>

PageTypeOK ==
    /\ TypeOK
    /\ rows \in Table /\ fetched \in Table \cup {None} /\ stray \in BOOLEAN

\* refreshJobs comes before the first connectSSE.
PageInit ==
    /\ Init
    /\ fetched = None /\ rows \in {Nothing, FirstOf(store)} /\ stray = FALSE

\* job_update: the handler takes the payload {"job": {...}} for the job itself
\* and files it under its job_id, which is undefined.
HandleEvents ==
    /\ stray' = (stray \/ told' # told)
    /\ UNCHANGED <<fetched, rows>>

\* GET /api/jobs: list_jobs of one more client, with or without an answer.
FetchJobs ==
    /\ fetched = None
    /\ \E known \in {{}} \cup IF network = "up" THEN {Open(store)} ELSE {} :
          LET replies == [j \in Jobs |-> IF j \in known THEN slurm[j] ELSE None]
          IN  /\ store' = Recorded(store, replies)
              /\ fetched' = FirstOf(Updated(store, replies))
    /\ UNCHANGED <<worldVars, pc, conn, roundVars, toldVars, rows, stray>>

\* refreshJobs: jobs.clear(), then the reply.
ShowJobs ==
    /\ fetched # None
    /\ rows' = fetched /\ stray' = FALSE
    /\ fetched' = None
    /\ UNCHANGED vars

FetchFails ==
    /\ fetched # None
    /\ fetched' = None
    /\ UNCHANGED <<vars, rows, stray>>

\* The user presses Refresh at any time, or never.
PageNext == (Next /\ HandleEvents) \/ FetchJobs \/ ShowJobs \/ FetchFails

PageSpec ==
    /\ PageInit /\ [][PageNext]_pageAndStream
    /\ Fairness
    /\ WF_pageAndStream(ShowJobs)

----------------------------------------------------------------------------
\* "Server-Sent Events (SSE) stream for live job updates" (sse.py), and what
\* docs/11-web-ui.md says job_update does: an end that the stream has told, and
\* does not take back, comes to be shown by the page.
PageFollowsStream ==
    \A j \in Jobs, w \in Ends : told[j] = w ~> (rows[j] = w \/ told[j] # w)
============================================================================
