---------------------------- MODULE RunLifecycle ----------------------------
(***************************************************************************)
(* What the run queue promises about a row of connector_runs, whether a    *)
(* request handler, a worker or retention writes it: the life of a run as  *)
(* the API and the operations panel show it.  Runs do not depend on each   *)
(* other, and a step may move several.                                     *)
(***************************************************************************)
EXTENDS Integers

CONSTANTS RunIds, RunMaxAttempts

VARIABLE life           \* status, attempts, limit and cancel of every run

Run(status, attempts, limit, cancel) ==
    [status |-> status, attempts |-> attempts, limit |-> limit, cancel |-> cancel]

(* A queued run with all its attempts, or an inline one on its only one *)
Create(run, next) ==
    /\ run.status = "unused"
    /\ \/ next = Run("queued", 0, RunMaxAttempts, FALSE)
       \/ next = Run("running", 1, 1, FALSE)

Claim(run, next) ==
    /\ run.status = "queued" /\ run.attempts < run.limit
    /\ next = Run("running", run.attempts + 1, run.limit, FALSE)

(* The lease expired, and an attempt is left *)
Requeue(run, next) ==
    /\ run.status = "running" /\ ~run.cancel /\ run.attempts < run.limit
    /\ next = Run("queued", run.attempts, run.limit, FALSE)

(* Only a run nobody asked to cancel ends in another status *)
Finish(run, next) ==
    /\ run.status = "running" /\ ~run.cancel
    /\ \E status \in {"success", "partial_success", "failed"} :
         next = Run(status, run.attempts, run.limit, FALSE)

AskCancel(run, next) ==
    /\ run.status = "running" /\ ~run.cancel
    /\ next = Run("running", run.attempts, run.limit, TRUE)

Cancel(run, next) ==
    /\ \/ run.status = "queued"
       \/ run.status = "running" /\ run.cancel
    /\ next = Run("cancelled", run.attempts, run.limit, TRUE)

(* A finished run only ever leaves its status by being deleted *)
Delete(run, next) ==
    /\ run.status \in {"success", "partial_success", "failed", "cancelled"}
    /\ next = Run("purged", 0, 0, FALSE)

RunStep(run, next) ==
    \/ Create(run, next) \/ Claim(run, next) \/ Requeue(run, next)
    \/ Finish(run, next) \/ AskCancel(run, next) \/ Cancel(run, next)
    \/ Delete(run, next)

Init == life = [r \in RunIds |-> Run("unused", 0, 0, FALSE)]

Next == \A r \in RunIds : life'[r] = life[r] \/ RunStep(life[r], life'[r])

Spec == Init /\ [][Next]_life
=============================================================================
