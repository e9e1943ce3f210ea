--------------------------- MODULE MCJobTracking ---------------------------
(***************************************************************************)
(* Small instances of JobTracking: users who work on a job by hand beside a *)
(* `watch`, and ends that slurp can and cannot read.                        *)
(***************************************************************************)
EXTENDS JobTracking

CONSTANTS user, watcher

MCCalls == [c \in Clients |->
               IF c \in Watchers THEN {"reconcile"}
               ELSE {"refresh", "status", "wait", "reconcile", "cancel", "cancelById"}]

\* For the liveness run: a user who waits and cancels, and ends that slurp can
\* read, among them the CANCELLED of a cancel that has no uid to name.
MCWaitCalls == [c \in Clients |->
                   IF c \in Watchers THEN {"reconcile"} ELSE {"status", "wait", "cancel"}]
============================================================================
