---------------------------- MODULE ConnectorRuns ----------------------------
(***************************************************************************)
(* The connector run queue: the connector_runs table, the worker processes *)
(* that claim, execute, renew and recover leased runs, and the HTTP        *)
(* handlers that queue, retry and cancel runs or execute them inline.      *)
(*                                                                         *)
(* Every action is one database statement or transaction, or one step of a *)
(* process between two of them.  A transaction whose effects nobody can    *)
(* see before it commits is one action; the two that hold a row lock other *)
(* processes wait for (the creation of a run) are split at the lock.       *)
(*                                                                         *)
(* Instants are countdowns: the row's lease_expires_at and next_attempt_at *)
(* hold the time left until them and Tick lowers all of them.  Processes   *)
(* pass Utc::now() of their own host into their statements; a reading may  *)
(* be up to Drift behind the fastest clock, through skew or through the    *)
(* delay between reading the clock and executing the statement.            *)
(*                                                                         *)
(* The demo seed, a command for development, also writes runs: those of    *)
(* its own source, in one transaction.  It is not part of this model.      *)
(***************************************************************************)
EXTENDS Integers, FiniteSets, RetryBackoff

CONSTANTS
    RunIds,             \* identifiers the serial column can hand out
    Sources, Targets,   \* connector sources, and import targets
    Workers,            \* worker ids: a fresh UUID per worker process
    Handlers,           \* HTTP request handlers of the API process
    NoRun, NoWorker,    \* SQL NULL in parent_run_id and worker_id
    Nobody,             \* no holder of a row lock
    NoRequest,          \* a handler that is not creating a run
    LeaseSeconds,       \* CONNECTOR_RUN_LEASE_SECONDS
    RetryBase, RetryMax,  \* CONNECTOR_RUN_RETRY_{BASE,MAX}_SECONDS
    RunMaxAttempts,     \* CONNECTOR_RUN_MAX_ATTEMPTS
    RecoveryLimit,      \* rows recovered per pass, 100 in the worker loop
    Drift,              \* how far behind a process's clock reading may be
    OperatorStatuses,   \* what operators set connectors to, "absent" to delete
    RequestKinds        \* the kinds of request handlers are sent

ASSUME RunIdsAssumption == RunIds \subseteq Nat /\ NoRun \notin RunIds
ASSUME KeysAssumption == Sources # {} /\ Targets # {}
ASSUME ProcessesAssumption ==
    /\ Workers \cap Handlers = {}
    /\ NoWorker \notin Workers \cup Handlers
    /\ Nobody \notin Workers \cup Handlers
ASSUME PolicyAssumption ==
    /\ LeaseSeconds \in Nat \ {0}
    /\ RetryBase \in Nat \ {0} /\ RetryMax \in Nat \ {0}
    /\ RunMaxAttempts \in Nat \ {0}
    /\ RecoveryLimit \in Nat \ {0}
    /\ Drift \in Nat
ASSUME OperatorsAssumption ==
    /\ OperatorStatuses \subseteq {"absent", "active", "paused", "error"}
    /\ RequestKinds \subseteq {"queue", "inline", "import", "retry"}

VARIABLES
    runs,       \* the connector_runs table
    connectors, \* status of each connector row, "absent" when there is none
    lock,       \* holder of the FOR UPDATE lock on a connector row
    pc,         \* where each process is
    job,        \* the run a process is executing
    attempt,    \* attempt_count in the process's copy of that run
    prepared,   \* what load_payload_for_claimed_run returned
    request,    \* the run a handler was asked to create
    renewing    \* whether a worker's RunLeaseRenewal task is alive

vars == <<runs, connectors, lock, pc, job, attempt, prepared, request, renewing>>

Procs == Workers \cup Handlers

Active == {"queued", "running"}
Finished == {"success", "partial_success", "failed", "cancelled"}
NoRow == {"unused", "purged"}       \* before the insert, after the delete

(* connector_run_is_retryable *)
Retryable == {"failed", "partial_success", "cancelled"}

Readings == 0..Drift                \* now = (fastest clock) - lag

Row == [status : Active \cup Finished \cup NoRow,
        source : Sources, target : Targets,
        worker : Workers \cup {NoWorker},
        attempts : Nat, limit : Nat,
        due : Int, leased : BOOLEAN, lease : Int,
        cancel : BOOLEAN, parent : RunIds \cup {NoRun}]

Kinds == {"queue", "inline", "import", "retry"}
Request == [kind : Kinds, source : Sources, target : Targets,
            parent : RunIds \cup {NoRun}]

(* The columns of an identifier that has no row *)
EmptyRow(status) ==
    [status |-> status,
     source |-> CHOOSE s \in Sources : TRUE, target |-> CHOOSE t \in Targets : TRUE,
     worker |-> NoWorker, attempts |-> 0, limit |-> 0,
     due |-> 0, leased |-> FALSE, lease |-> 0, cancel |-> FALSE, parent |-> NoRun]

-----------------------------------------------------------------------------
(* The columns a statement's WHERE clause reads.  NULL satisfies neither   *)
(* lease_expires_at > now nor lease_expires_at <= now.                     *)

LeaseValid(r, lag) == runs[r].leased /\ runs[r].lease + lag > 0
LeaseExpired(r, lag) == runs[r].leased /\ runs[r].lease + lag <= 0
IsDue(r, lag) == runs[r].due + lag <= 0

(* worker_id = the caller's, or IS NULL for an inline execution *)
OwnedBy(r, p) == runs[r].worker = IF p \in Workers THEN p ELSE NoWorker

(* Mutant: the worker is not compared *)
ExecutionIsActiveForAnyone(r, p, lag) ==
    /\ runs[r].status = "running"
    /\ ~runs[r].cancel
    /\ p \in Workers => LeaseValid(r, lag)

ExecutionIsActive(r, p, lag) ==
    /\ runs[r].status = "running"
    /\ ~runs[r].cancel
    /\ OwnedBy(r, p)
    /\ p \in Workers => LeaseValid(r, lag)

(* Mutant: finalize whatever was requested meanwhile *)
FinalizeCancelled(r, p, lag) ==
    /\ runs[r].status = "running"
    /\ OwnedBy(r, p)
    /\ p \in Workers => LeaseValid(r, lag)

(* The WHERE clause of finalize_if_active *)
FinalizeMatches(r, p, lag) ==
    /\ runs[r].status = "running"
    /\ OwnedBy(r, p)
    /\ ~runs[r].cancel
    /\ p \in Workers => LeaseValid(r, lag)

(* Mutant: the worker is not compared *)
RenewForAnyone(r, w, lag) ==
    /\ runs[r].status = "running"
    /\ ~runs[r].cancel
    /\ LeaseValid(r, lag)

(* The WHERE clause of renew_lease *)
RenewMatches(r, w, lag) ==
    /\ runs[r].status = "running"
    /\ runs[r].worker = w
    /\ ~runs[r].cancel
    /\ LeaseValid(r, lag)

(* The WHERE clause of mark_cancelled_if_requested: the lease may be over *)
CancelMatches(r, p) ==
    /\ runs[r].status = "running"
    /\ OwnedBy(r, p)
    /\ runs[r].cancel

(* Mutant: a running run does not count *)
HasQueued(s, t) ==
    \E r \in RunIds : /\ runs[r].status = "queued"
                      /\ runs[r].source = s /\ runs[r].target = t

HasPending(s, t) ==
    \E r \in RunIds : /\ runs[r].status \in Active
                      /\ runs[r].source = s /\ runs[r].target = t

(* Mutant: create_retry does not lock the parent *)
ParentNotLocked(r) == FALSE

(* The parent row a retry has locked until its insert commits *)
ParentLocked(r) == \E h \in Handlers : pc[h] = "insert" /\ request[h].parent = r

-----------------------------------------------------------------------------
Init ==
    /\ runs = [r \in RunIds |-> EmptyRow("unused")]
    /\ connectors \in [Sources -> {"absent", "active"}]
    /\ lock = [s \in Sources |-> Nobody]
    /\ pc = [p \in Procs |-> IF p \in Workers THEN "recover" ELSE "idle"]
    /\ job = [p \in Procs |-> NoRun]
    /\ attempt = [p \in Procs |-> 0]
    /\ prepared = [p \in Procs |-> "error"]
    /\ request = [h \in Handlers |-> NoRequest]
    /\ renewing = [w \in Workers |-> FALSE]

-----------------------------------------------------------------------------
(* Handlers: POST /connectors/<source>/runs, the import routes and         *)
(* POST /connectors/runs/<id>/retry, up to the insert of the run.  A       *)
(* request that is refused changes nothing, and the handler is idle again. *)

Ask(h, next, kind, s, t, parent) ==
    /\ kind \in RequestKinds
    /\ pc[h] = "idle"
    /\ pc' = [pc EXCEPT ![h] = next]
    /\ request' = [request EXCEPT ![h] = [kind |-> kind, source |-> s,
                                          target |-> t, parent |-> parent]]
    /\ UNCHANGED <<runs, connectors, lock, job, attempt, prepared, renewing>>

(* run_connector: the status is read before, and outside, the transaction *)
(* that creates the run.                                                  *)
RunConnector(h, s, t, mode) ==
    /\ connectors[s] \notin {"absent", "paused"}
    /\ Ask(h, IF mode = "queue" THEN "create" ELSE "default", mode, s, t, NoRun)

ImportItems(h, s, t) == Ask(h, "default", "import", s, t, NoRun)

RetryConnectorRun(h, r) ==
    /\ runs[r].status \in Retryable
    /\ connectors[runs[r].source] \notin {"absent", "paused"}
    /\ Ask(h, "create", "retry", runs[r].source, runs[r].target, r)

(* find_or_create_default, the first statement of create_running_run *)
FindOrCreateDefault(h) ==
    /\ pc[h] = "default"
    /\ LET s == request[h].source
       IN  connectors' = [connectors EXCEPT ![s] = IF @ = "absent" THEN "active" ELSE @]
    /\ pc' = [pc EXCEPT ![h] = "create"]
    /\ UNCHANGED <<runs, lock, job, attempt, prepared, request, renewing>>

Refuse(h) ==
    /\ pc' = [pc EXCEPT ![h] = "idle"]
    /\ request' = [request EXCEPT ![h] = NoRequest]
    /\ UNCHANGED <<runs, connectors, lock, job, attempt, prepared, renewing>>

(* Mutant: the connector row is read without FOR UPDATE *)
ConnectorNotLocked(s) == TRUE

ConnectorUnlocked(s) == lock[s] = Nobody

(* create_if_no_pending and create_retry: lock the connector row (and the *)
(* parent), then count the active runs of the source and target.          *)
LockAndCount(h) ==
    /\ pc[h] = "create"
    /\ LET q == request[h] IN
         /\ ConnectorUnlocked(q.source)
         /\ \/ /\ \/ connectors[q.source] = "absent"
                  \/ q.parent # NoRun /\ runs[q.parent].status \in NoRow
                  \/ HasPending(q.source, q.target)
               /\ Refuse(h)
            \/ /\ connectors[q.source] # "absent"
               /\ q.parent # NoRun => runs[q.parent].status \notin NoRow
               /\ ~HasPending(q.source, q.target)
               /\ lock' = [lock EXCEPT ![q.source] = h]
               /\ pc' = [pc EXCEPT ![h] = "insert"]
               /\ UNCHANGED <<runs, connectors, job, attempt, prepared, request, renewing>>

(* The NewConnectorRun of create_queued_run_with_parent *)
QueuedRow(q) ==
    [EmptyRow("queued") EXCEPT !.source = q.source, !.target = q.target,
                               !.limit = RunMaxAttempts, !.parent = q.parent]

(* The NewConnectorRun of create_running_run: no worker and no lease *)
RunningRow(q) ==
    [EmptyRow("running") EXCEPT !.source = q.source, !.target = q.target,
                                !.attempts = 1, !.limit = 1]

(* The insert, and the commit that releases the locks.  A queue or retry   *)
(* handler answers; an inline handler goes on to execute its run, and an   *)
(* import handler goes straight to the transaction that writes its items.  *)
(* The bound of the model is RunIds: once all of them are used, a creation *)
(* can only fail (CreateError).                                            *)
InsertRun(h) ==
    /\ pc[h] = "insert"
    /\ LET q == request[h]
           inline == q.kind \in {"inline", "import"}
       IN  \E r \in RunIds, lag \in Readings :
             /\ runs[r].status = "unused"
             /\ \A id \in RunIds : id < r => runs[id].status # "unused"
             /\ runs' = [runs EXCEPT ![r] =
                           IF inline THEN RunningRow(q)
                           ELSE [QueuedRow(q) EXCEPT !.due = -lag]]
             /\ lock' = [lock EXCEPT ![q.source] = Nobody]
             /\ pc' = [pc EXCEPT ![h] = CASE q.kind = "inline" -> "claimed"
                                          [] q.kind = "import" -> "writing"
                                          [] OTHER -> "idle"]
             /\ job' = [job EXCEPT ![h] = IF inline THEN r ELSE NoRun]
             /\ attempt' = [attempt EXCEPT ![h] = IF inline THEN 1 ELSE 0]
             /\ prepared' = [prepared EXCEPT ![h] = IF q.kind = "import" THEN "payload"
                                                    ELSE "error"]
             /\ request' = [request EXCEPT ![h] = NoRequest]
             /\ UNCHANGED <<connectors, renewing>>

-----------------------------------------------------------------------------
(* The worker loop: recover expired leases, then claim due runs until none *)
(* is left or the cycle's five are used, then sleep and start over.  An    *)
(* error in either reconnects and starts the cycle over.                   *)

(* The columns every statement that ends a running run writes *)
EndedRow(row, status) == [row EXCEPT !.status = status, !.leased = FALSE, !.lease = 0]

RequeuedRow(row, lag) ==
    [row EXCEPT !.status = "queued", !.worker = NoWorker, !.leased = FALSE, !.lease = 0,
                !.due = BoundedRetryBackoff(row.attempts, RetryBase, RetryMax) - lag]

(* Mutants of recovery: one attempt too many, the attempts forgotten, and  *)
(* the cancel request overlooked.                                          *)
RecoveredOnceMore(row, lag) ==
    IF row.cancel THEN EndedRow(row, "cancelled")
    ELSE IF row.attempts > row.limit THEN EndedRow(row, "failed")
    ELSE RequeuedRow(row, lag)

RecoveredAfresh(row, lag) ==
    IF row.cancel THEN EndedRow(row, "cancelled")
    ELSE [RequeuedRow(row, lag) EXCEPT !.attempts = 0]

RecoveredUncancelled(row, lag) ==
    IF row.attempts >= row.limit THEN EndedRow(row, "failed") ELSE RequeuedRow(row, lag)

(* The branch recover_expired_leases takes for an expired run *)
RecoveredRow(row, lag) ==
    IF row.cancel THEN EndedRow(row, "cancelled")
    ELSE IF row.attempts >= row.limit THEN EndedRow(row, "failed")
    ELSE RequeuedRow(row, lag)

(* The recovery of a run out of attempts marks its connector as failing *)
GivesUp(r) == ~runs[r].cancel /\ runs[r].attempts >= runs[r].limit

Expired(lag) == {r \in RunIds : runs[r].status = "running" /\ LeaseExpired(r, lag)}

(* Rows that may be locked by the transaction that finalizes their run *)
BeingFinalized == {job[p] : p \in {x \in Procs : pc[x] = "writing"}}

RecoverBatch(batch, lag) ==
    /\ runs' = [r \in RunIds |-> IF r \in batch THEN RecoveredRow(runs[r], lag) ELSE runs[r]]
    /\ connectors' = [s \in Sources |->
                        IF /\ connectors[s] # "absent"
                           /\ \E r \in batch : GivesUp(r) /\ runs[r].source = s
                        THEN "error" ELSE connectors[s]]

(* Mutant: a pass that finds more than it takes does nothing *)
BatchesThatFit(found) == IF Cardinality(found) <= RecoveryLimit THEN {found} ELSE {{}}

(* The oldest leases of those found, as many as a pass takes *)
Batches(found) ==
    {batch \in SUBSET found :
       /\ Cardinality(batch) = AtMost(Cardinality(found), RecoveryLimit)
       /\ \A r \in batch, x \in found \ batch : runs[r].lease <= runs[x].lease}

(* One pass, when others hold locks on some of the given rows: SKIP LOCKED *)
(* passes over those.                                                      *)
RecoveryPass(w, lockable) ==
    /\ pc[w] = "recover"
    /\ \E lag \in Readings, skipped \in SUBSET lockable :
         \E batch \in Batches(Expired(lag) \ skipped) :
           /\ \A r \in batch : GivesUp(r) => ConnectorUnlocked(runs[r].source)
           /\ RecoverBatch(batch, lag)
    /\ pc' = [pc EXCEPT ![w] = "claim"]
    /\ UNCHANGED <<lock, job, attempt, prepared, request, renewing>>

(* Any row may be locked: by the transaction that finalizes its run, or    *)
(* for a moment by a cancel request, a renewal or another worker's pass.   *)
RecoverExpiredLeases(w) == RecoveryPass(w, RunIds)

(* Mutant: the last attempt is never taken *)
ClaimableButLast(lag) ==
    {r \in RunIds : /\ runs[r].status = "queued"
                    /\ IsDue(r, lag)
                    /\ ~runs[r].cancel
                    /\ runs[r].attempts + 1 < runs[r].limit}

Claimable(lag) ==
    {r \in RunIds : /\ runs[r].status = "queued"
                    /\ IsDue(r, lag)
                    /\ ~runs[r].cancel
                    /\ runs[r].attempts < runs[r].limit}

(* Mutants: the attempt is not counted in the row, or no lease is taken *)
ClaimedUncounted(row, w, lag) ==
    [row EXCEPT !.status = "running", !.worker = w,
                !.leased = TRUE, !.lease = LeaseSeconds - lag]
ClaimedUnleased(row, w, lag) ==
    [row EXCEPT !.status = "running", !.worker = w, !.attempts = @ + 1]

(* The UPDATE of claim_next_queued *)
ClaimedRow(row, w, lag) ==
    [row EXCEPT !.status = "running", !.worker = w, !.attempts = @ + 1,
                !.leased = TRUE, !.lease = LeaseSeconds - lag]

(* claim_next_queued takes a due run whose next_attempt_at is smallest,    *)
(* SKIP LOCKED passing over rows that a cancel request or another claim    *)
(* has locked.                                                             *)
ClaimNextQueued(w) ==
    /\ pc[w] = "claim"
    /\ \E lag \in Readings, locked \in SUBSET RunIds :
         \E r \in Claimable(lag) \ locked :
           /\ \A x \in Claimable(lag) \ locked : runs[r].due <= runs[x].due
           /\ runs' = [runs EXCEPT ![r] = ClaimedRow(@, w, lag)]
           /\ job' = [job EXCEPT ![w] = r]
           /\ attempt' = [attempt EXCEPT ![w] = runs[r].attempts + 1]
    /\ renewing' = [renewing EXCEPT ![w] = TRUE]
    /\ pc' = [pc EXCEPT ![w] = "claimed"]
    /\ UNCHANGED <<connectors, lock, prepared, request>>

(* The cycle ends without a claim: no run is due, the due ones are locked, *)
(* or the cleanup's, the scheduler's or the claim's statement failed.      *)
StartCycleOver(w) ==
    /\ pc[w] = "claim"
    /\ pc' = [pc EXCEPT ![w] = "recover"]
    /\ UNCHANGED <<runs, connectors, lock, job, attempt, prepared, request, renewing>>

(* RunLeaseRenewal: renew_lease on a connection of its own, at any moment  *)
(* between the claim and the end of the execution.                         *)
RenewLease(w) ==
    /\ renewing[w]
    /\ \E lag \in Readings :
         LET r == job[w] IN
           IF RenewMatches(r, w, lag)
           THEN /\ runs' = [runs EXCEPT ![r].lease = LeaseSeconds - lag]
                /\ UNCHANGED renewing
           ELSE /\ renewing' = [renewing EXCEPT ![w] = FALSE]
                /\ UNCHANGED runs
    /\ UNCHANGED <<connectors, lock, pc, job, attempt, prepared, request>>

(* A renewal that fails on the database is tried again until a whole lease *)
(* has passed since the last one that worked; that lease has then run out. *)
RenewalGivesUp(w) ==
    /\ renewing[w]
    /\ ~(runs[job[w]].status = "running" /\ OwnedBy(job[w], w) /\ LeaseValid(job[w], 0))
    /\ renewing' = [renewing EXCEPT ![w] = FALSE]
    /\ UNCHANGED <<runs, connectors, lock, pc, job, attempt, prepared, request>>

(* A deleted row; the key of the run it was stays readable for the model *)
PurgedRow(row) ==
    [EmptyRow("purged") EXCEPT !.source = row.source, !.target = row.target]

(* The retention pass deletes finished runs older than its cutoff, which   *)
(* may be any of them; parent_run_id is ON DELETE SET NULL.                *)
DeleteFinishedRuns(w) ==
    /\ pc[w] = "claim"
    /\ \E old \in SUBSET {r \in RunIds : runs[r].status \in Finished /\ ~ParentLocked(r)} :
         /\ old # {}
         /\ runs' = [r \in RunIds |->
                       IF r \in old THEN PurgedRow(runs[r])
                       ELSE IF runs[r].parent \in old THEN [runs[r] EXCEPT !.parent = NoRun]
                       ELSE runs[r]]
    /\ UNCHANGED <<connectors, lock, pc, job, attempt, prepared, request, renewing>>

-----------------------------------------------------------------------------
(* execute_connector_run, by a worker or by an inline handler: check that  *)
(* the run is still ours, load the payload, check again, then one          *)
(* transaction that checks, writes the items, checks and finalizes.        *)

Goto(p, next) ==
    /\ pc' = [pc EXCEPT ![p] = next]
    /\ UNCHANGED <<runs, connectors, lock, job, attempt, prepared, request, renewing>>

CheckBeforeLoad(p) ==
    /\ pc[p] = "claimed"
    /\ \E lag \in Readings :
         Goto(p, IF ExecutionIsActive(job[p], p, lag) THEN "loading" ELSE "settling")

(* load_payload_for_claimed_run.  A connector or config that is missing,   *)
(* paused or disabled, and a fetch or a query that fails, become a failed  *)
(* execution with one error; the state of the config is not modelled.      *)
LoadPayload(p) ==
    /\ pc[p] = "loading"
    /\ \E result \in {"payload", "error"} :
         /\ result = "payload" => connectors[runs[job[p]].source] \notin {"absent", "paused"}
         /\ prepared' = [prepared EXCEPT ![p] = result]
    /\ pc' = [pc EXCEPT ![p] = "prepared"]
    /\ UNCHANGED <<runs, connectors, lock, job, attempt, request, renewing>>

CheckAfterLoad(p) ==
    /\ pc[p] = "prepared"
    /\ \E lag \in Readings :
         Goto(p, IF ExecutionIsActive(job[p], p, lag) THEN "begin" ELSE "settling")

BeginTransaction(p) ==
    /\ pc[p] = "begin"
    /\ \E lag \in Readings :
         Goto(p, IF ExecutionIsActive(job[p], p, lag) THEN "writing" ELSE "txfailed")

(* finish_connector_run_for_owner: the status for the imported and failed *)
(* counts; a payload that could not be loaded imports nothing.            *)
RunStatus(imported, failed) ==
    IF failed = 0 THEN "success" ELSE IF imported = 0 THEN "failed" ELSE "partial_success"

Outcomes(p) ==
    IF prepared[p] = "error" THEN {RunStatus(0, 1)}
    ELSE {RunStatus(imported, failed) : imported \in 0..1, failed \in 0..1}

(* Mutant: the run's status is written into the connector *)
TouchedWithRunStatus(status) == status

(* touch_run_state: whatever the status was before, absent included *)
TouchedStatus(status) == IF status = "failed" THEN "error" ELSE "active"

(* The items, finalize_if_active, the run's history, touch_run_state and *)
(* the commit; touch_run_state waits for the lock on the connector row.  *)
CommitExecution(p) ==
    /\ pc[p] = "writing"
    /\ \E lag \in Readings, status \in Outcomes(p) :
         LET r == job[p] IN
           /\ FinalizeMatches(r, p, lag)
           /\ ConnectorUnlocked(runs[r].source)
           /\ runs' = [runs EXCEPT ![r] = EndedRow(@, status)]
           /\ connectors' = [connectors EXCEPT ![runs[r].source] = TouchedStatus(status)]
    /\ pc' = [pc EXCEPT ![p] = "ending"]
    /\ UNCHANGED <<lock, job, attempt, prepared, request, renewing>>

(* finalize_if_active matched no row: everything is rolled back *)
LoseOwnership(p) ==
    /\ pc[p] = "writing"
    /\ \E lag \in Readings : ~FinalizeMatches(job[p], p, lag)
    /\ Goto(p, "txfailed")

(* Any statement of the transaction fails: everything is rolled back *)
TransactionError(p) ==
    /\ pc[p] \in {"begin", "writing"}
    /\ Goto(p, "txfailed")

(* After a rollback only a run with a cancel request is settled; without  *)
(* one the error is returned and the row stays as it is.                  *)
AfterRollback(p) ==
    /\ pc[p] = "txfailed"
    /\ Goto(p, IF runs[job[p]].cancel THEN "settling" ELSE "ending")

(* cancelled_response_or_ownership_error.  Whether it answers or returns  *)
(* an error makes no difference to what is stored.                        *)
SettleCancelled(p) ==
    /\ pc[p] = "settling"
    /\ runs' = [r \in RunIds |-> IF r = job[p] /\ CancelMatches(r, p)
                                 THEN EndedRow(runs[r], "cancelled") ELSE runs[r]]
    /\ pc' = [pc EXCEPT ![p] = "ending"]
    /\ UNCHANGED <<connectors, lock, job, attempt, prepared, request, renewing>>

(* A statement outside the transaction fails: the error is returned *)
QueryError(p) ==
    /\ pc[p] \in {"claimed", "prepared", "txfailed", "settling"}
    /\ Goto(p, "ending")

(* The renewal task is stopped and awaited; the worker goes on with its   *)
(* cycle, or reconnects and starts a new one, and the handler answers.    *)
EndExecution(p) ==
    /\ pc[p] = "ending"
    /\ \E next \in IF p \in Workers THEN {"claim", "recover"} ELSE {"idle"} :
         pc' = [pc EXCEPT ![p] = next]
    /\ job' = [job EXCEPT ![p] = NoRun]
    /\ attempt' = [attempt EXCEPT ![p] = 0]
    /\ prepared' = [prepared EXCEPT ![p] = "error"]
    /\ renewing' = [w \in Workers |-> w # p /\ renewing[w]]
    /\ UNCHANGED <<runs, connectors, lock, request>>

-----------------------------------------------------------------------------
(* Operators: POST /connectors/runs/<id>/cancel and the connector registry *)

(* Mutant: a queued run only carries the request, too *)
CancelOnlyRequested(row) == [row EXCEPT !.cancel = TRUE]

(* A queued run is over, a running one only carries the request *)
CancelRequested(row) ==
    [row EXCEPT !.cancel = TRUE,
                !.status = IF row.status = "queued" THEN "cancelled" ELSE row.status]

(* request_cancel, under the row's FOR UPDATE lock *)
RequestCancel(r) ==
    /\ runs[r].status \in Active
    /\ runs' = [runs EXCEPT ![r] = CancelRequested(@)]
    /\ UNCHANGED <<connectors, lock, pc, job, attempt, prepared, request, renewing>>

(* The statement that writes or deletes a connector waits for the lock on *)
(* the row.                                                               *)
SetConnector(s, status) ==
    /\ connectors[s] # status
    /\ ConnectorUnlocked(s)
    /\ connectors' = [connectors EXCEPT ![s] = status]
    /\ UNCHANGED <<runs, lock, pc, job, attempt, prepared, request, renewing>>

(* create_connector and update_connector *)
SaveConnector(s, status) == status # "absent" /\ SetConnector(s, status)

(* delete_connector *)
DeleteConnector(s) == "absent" \in OperatorStatuses /\ SetConnector(s, "absent")

-----------------------------------------------------------------------------
(* Failures and time *)

Release(holders) == [s \in Sources |-> IF lock[s] \in holders THEN Nobody ELSE lock[s]]

(* A statement of a handler's creation fails and is rolled back *)
CreateError(h) ==
    /\ pc[h] \in {"default", "create", "insert"}
    /\ lock' = Release({h})
    /\ pc' = [pc EXCEPT ![h] = "idle"]
    /\ request' = [request EXCEPT ![h] = NoRequest]
    /\ UNCHANGED <<runs, connectors, job, attempt, prepared, renewing>>

(* A worker process dies, its renewal task with it.  Its id never returns; *)
(* the supervisor keeps at least one worker running.                       *)
CrashWorker(w) ==
    /\ pc[w] # "down"
    /\ \E v \in Workers \ {w} : pc[v] # "down"
    /\ pc' = [pc EXCEPT ![w] = "down"]
    /\ job' = [job EXCEPT ![w] = NoRun]
    /\ attempt' = [attempt EXCEPT ![w] = 0]
    /\ prepared' = [prepared EXCEPT ![w] = "error"]
    /\ renewing' = [renewing EXCEPT ![w] = FALSE]
    /\ UNCHANGED <<runs, connectors, lock, request>>

(* The API process dies and is restarted: every handler is gone, and the  *)
(* database rolls back their transactions.                                *)
CrashServer ==
    /\ \E h \in Handlers : pc[h] # "idle"
    /\ lock' = Release(Handlers)
    /\ pc' = [p \in Procs |-> IF p \in Handlers THEN "idle" ELSE pc[p]]
    /\ job' = [p \in Procs |-> IF p \in Handlers THEN NoRun ELSE job[p]]
    /\ attempt' = [p \in Procs |-> IF p \in Handlers THEN 0 ELSE attempt[p]]
    /\ prepared' = [p \in Procs |-> IF p \in Handlers THEN "error" ELSE prepared[p]]
    /\ request' = [h \in Handlers |-> NoRequest]
    /\ UNCHANGED <<runs, connectors, renewing>>

(* A countdown stops at -Drift: every reading of the clock is past it *)
Lowered(n) == IF n > -Drift THEN n - 1 ELSE n

Elapsed(row) ==
    [row EXCEPT !.due = IF row.status = "queued" THEN Lowered(@) ELSE @,
                !.lease = IF row.leased THEN Lowered(@) ELSE @]

Tick ==
    /\ \E r \in RunIds : Elapsed(runs[r]) # runs[r]
    /\ runs' = [r \in RunIds |-> Elapsed(runs[r])]
    /\ UNCHANGED <<connectors, lock, pc, job, attempt, prepared, request, renewing>>

-----------------------------------------------------------------------------
CreateStep(h) ==
    FindOrCreateDefault(h) \/ LockAndCount(h) \/ InsertRun(h) \/ CreateError(h)

ExecutionStep(p) ==
    \/ CheckBeforeLoad(p) \/ LoadPayload(p) \/ CheckAfterLoad(p)
    \/ BeginTransaction(p) \/ CommitExecution(p) \/ LoseOwnership(p)
    \/ TransactionError(p) \/ AfterRollback(p) \/ SettleCancelled(p)
    \/ QueryError(p) \/ EndExecution(p)

CycleStep(w) == RecoverExpiredLeases(w) \/ ClaimNextQueued(w) \/ StartCycleOver(w)

Next ==
    \/ \E h \in Handlers :
         \/ \E s \in Sources, t \in Targets :
              \/ \E mode \in {"queue", "inline"} : RunConnector(h, s, t, mode)
              \/ ImportItems(h, s, t)
         \/ \E r \in RunIds : RetryConnectorRun(h, r)
         \/ CreateStep(h)
    \/ \E w \in Workers :
         \/ CycleStep(w) \/ RenewLease(w) \/ RenewalGivesUp(w)
         \/ DeleteFinishedRuns(w) \/ CrashWorker(w)
    \/ \E p \in Procs : ExecutionStep(p)
    \/ \E r \in RunIds : RequestCancel(r)
    \/ \E s \in Sources :
         \/ \E status \in OperatorStatuses : SaveConnector(s, status)
         \/ DeleteConnector(s)
    \/ CrashServer
    \/ Tick

Spec == Init /\ [][Next]_vars

(* Among the passes of a worker there are always some that no momentary    *)
(* lock of a cancel request, a renewal or another pass disturbs.  Such a   *)
(* pass waits for the connector rows it needs, and the database queues     *)
(* lock waiters.                                                           *)
PassesUndisturbed(w) ==
    []<><<RecoverExpiredLeases(w)>>_vars => []<><<RecoveryPass(w, BeingFinalized)>>_vars

(* Processes that are up keep executing, and time passes.  Claims are      *)
(* strongly fair because a cycle may fail, but not every cycle for ever.   *)
(* Nothing makes an operator act, a process crash, a renewal happen or a   *)
(* cleanup run.                                                            *)
Fairness ==
    /\ \A w \in Workers : /\ WF_vars(CycleStep(w))
                          /\ PassesUndisturbed(w)
                          /\ SF_vars(ClaimNextQueued(w))
    /\ \A h \in Handlers : WF_vars(CreateStep(h))
    /\ \A p \in Procs : WF_vars(ExecutionStep(p))
    /\ WF_vars(Tick)

FairSpec == Spec /\ Fairness

-----------------------------------------------------------------------------
(* Every variable holds a value its column or local variable can hold. *)
TypeOK ==
    /\ runs \in [RunIds -> Row]
    /\ connectors \in [Sources -> {"absent", "active", "paused", "error"}]
    /\ lock \in [Sources -> Handlers \cup {Nobody}]
    /\ pc \in [Procs -> {"down", "recover", "claim", "idle", "default", "create",
                         "insert", "claimed", "loading", "prepared", "begin",
                         "writing", "txfailed", "settling", "ending"}]
    /\ job \in [Procs -> RunIds \cup {NoRun}]
    /\ attempt \in [Procs -> Nat]
    /\ prepared \in [Procs -> {"payload", "error"}]
    /\ request \in [Handlers -> Request \cup {NoRequest}]
    /\ renewing \in [Workers -> BOOLEAN]

(* At most one run of a source and target is queued or running, however    *)
(* handlers that create, retry and import race with recovery and deletion  *)
(* of the connector: create_if_no_pending counts under the connector lock. *)
OneActiveRunPerKey ==
    \A r, x \in RunIds :
      /\ runs[r].status \in Active /\ runs[x].status \in Active
      /\ runs[r].source = runs[x].source /\ runs[r].target = runs[x].target
      => r = x

(* A queued run can be claimed once it is due: claim_next_queued would     *)
(* skip it for ever if it carried a cancel request or had no attempt left, *)
(* and requests, recovery and claims all write those columns.              *)
QueuedRunIsClaimable ==
    \A r \in RunIds : runs[r].status = "queued" =>
      /\ ~runs[r].cancel
      /\ runs[r].attempts < runs[r].limit
      /\ runs[r].worker = NoWorker /\ ~runs[r].leased

(* A run a worker claimed keeps a lease as long as it is running, so that  *)
(* recover_expired_leases finds it again whatever happens to the worker.   *)
ClaimedRunIsRecoverable ==
    \A r \in RunIds :
      runs[r].status = "running" /\ runs[r].worker # NoWorker => runs[r].leased

(* Fencing.  A process that passes execution_is_active, at any reading of  *)
(* the clock, executes the run's current attempt: after recovery requeued  *)
(* the run and another worker claimed it, the first can commit nothing.    *)
OnlyCurrentAttemptIsActive ==
    \A p \in Procs : job[p] # NoRun =>
      \A lag \in Readings :
        ExecutionIsActive(job[p], p, lag) => attempt[p] = runs[job[p]].attempts

(* A retry's parent has ended in a status that may be retried, although    *)
(* the route reads that status before it takes any lock, and the parent    *)
(* row exists as long as the retry refers to it.                           *)
RetriesFollowAFinishedRun ==
    \A r \in RunIds :
      runs[r].parent # NoRun => runs[runs[r].parent].status \in Retryable

(* An operator's cancel request is never undone or overtaken: from then on *)
(* the run is running or cancelled, until retention deletes the row.       *)
CancelRequestStands ==
    [][\A r \in RunIds : runs[r].cancel =>
         \/ runs'[r].cancel /\ runs'[r].status \in {runs[r].status, "cancelled"}
         \/ runs'[r].status = "purged"]_vars

(* A running run's lease grows only while the worker the row names is      *)
(* alive and executes that very attempt, nobody asked to cancel the run    *)
(* and some clock has not seen the lease end.  So a renewal that comes     *)
(* late, after another worker took the run over, keeps nobody's lease      *)
(* alive: not its own, and not that of a successor that died.              *)
OnlyOwnersExtendLeases ==
    [][\A r \in RunIds :
         LET w == runs[r].worker IN
           /\ runs[r].status = "running" /\ runs'[r].status = "running"
           /\ runs'[r].lease > runs[r].lease
           => /\ w \in Workers /\ renewing[w]
              /\ job[w] = r /\ attempt[w] = runs[r].attempts
              /\ ~runs[r].cancel /\ runs[r].lease > -Drift]_vars

LifeOf(row) == [status |-> row.status, attempts |-> row.attempts, limit |-> row.limit,
                cancel |-> row.cancel]

(* Every step of every process moves each run the way RunLifecycle says:   *)
(* attempts are counted by claims only and stay within the limit, a        *)
(* finished run never moves again, a cancel request ends in cancelled.     *)
Lifecycle == INSTANCE RunLifecycle WITH life <- [r \in RunIds |-> LifeOf(runs[r])]

(* The run table, written by request handlers, workers and retention,      *)
(* implements RunLifecycle.                                                *)
ImplementsLifecycle == Lifecycle!Spec

Ended(r) == runs[r].status \in Finished \cup {"purged"}

(* A queued or claimed run ends, whatever crashes, database errors, lost   *)
(* leases and paused connectors it meets: attempts are bounded, and some   *)
(* worker recovers the lease of a worker that is gone.                     *)
QueuedRunsEnd ==
    \A r \in RunIds :
      runs[r].status = "queued" \/ (runs[r].status = "running" /\ runs[r].worker # NoWorker)
        ~> Ended(r)

(* A cancel request on a claimed run is settled: by its worker, or by the  *)
(* recovery of its lease, which the request keeps from being renewed.      *)
CancelRequestsSettle ==
    \A r \in RunIds :
      runs[r].status = "running" /\ runs[r].worker # NoWorker /\ runs[r].cancel
        ~> runs[r].status \in {"cancelled", "purged"}

(* README.md says of manual runs, queued or executed inline: "Manual runs  *)
(* move through `queued` and `running` before ending as `success`,         *)
(* `partial_success`, `failed`, or `cancelled`."  So a running run ends,   *)
(* the ones the API process executes inline included.                      *)
RunningRunsEnd == \A r \in RunIds : runs[r].status = "running" ~> Ended(r)

-----------------------------------------------------------------------------
(* The inductive invariant behind the safety properties. *)

Creating == {"default", "create", "insert"}
Executing == {"claimed", "loading", "prepared", "begin", "writing",
              "txfailed", "settling", "ending"}

(* Which steps each kind of process can be at, and what it then holds *)
ProcessesConsistent ==
    /\ \A w \in Workers : pc[w] \in {"down", "recover", "claim"} \cup Executing
    /\ \A h \in Handlers : pc[h] \in {"idle"} \cup Creating \cup Executing
    /\ \A p \in Procs : job[p] # NoRun <=> pc[p] \in Executing
    /\ \A w \in Workers : renewing[w] => pc[w] \in Executing
    /\ \A h \in Handlers : pc[h] \in Creating => request[h] \in Request

(* A handler about to insert holds the connector lock, and since it        *)
(* counted under that lock nobody can have added a run of its key.         *)
CreationIsExclusive ==
    \A h \in Handlers : pc[h] = "insert" =>
      /\ lock[request[h].source] = h
      /\ ~HasPending(request[h].source, request[h].target)

AttemptsBounded ==
    \A r \in RunIds : runs[r].status \in Active \cup Finished =>
                        runs[r].attempts <= runs[r].limit

(* The copy of a run that a process executes has the row's attempt count   *)
(* while the row names that process, and an inline run stays its handler's *)
(* own until the row is deleted.                                           *)
CopiesAreCurrent ==
    /\ \A w \in Workers : /\ job[w] # NoRun
                          /\ runs[job[w]].status = "running"
                          /\ runs[job[w]].worker = w
                          => attempt[w] = runs[job[w]].attempts
    /\ \A h \in Handlers : job[h] # NoRun =>
         \/ runs[job[h]].status = "purged"
         \/ /\ runs[job[h]].status \in {"running"} \cup Finished
            /\ runs[job[h]].worker = NoWorker
            /\ ~runs[job[h]].leased
            /\ attempt[h] = runs[job[h]].attempts
    /\ \A h, g \in Handlers : job[h] # NoRun /\ job[h] = job[g] => h = g

(* What RetriesFollowAFinishedRun needs of the requests under way *)
RetryRequestsSound ==
    \A h \in Handlers : pc[h] \in Creating /\ request[h].parent # NoRun =>
      runs[request[h].parent].status \in
        Retryable \cup (IF pc[h] = "insert" THEN {} ELSE {"purged"})

(* An identifier without a row has no parent and no cancel request *)
NoRowIsBlank ==
    \A r \in RunIds : runs[r].status \in NoRow => runs[r].parent = NoRun /\ ~runs[r].cancel

(* What holds of the rows alone *)
RowsSound ==
    /\ OneActiveRunPerKey
    /\ AttemptsBounded
    /\ QueuedRunIsClaimable
    /\ ClaimedRunIsRecoverable
    /\ RetriesFollowAFinishedRun
    /\ NoRowIsBlank

(* All of it: the locks, copies and requests of the processes under way    *)
(* are what makes the safety properties of the rows inductive.             *)
IInv ==
    /\ TypeOK
    /\ ProcessesConsistent
    /\ CreationIsExclusive
    /\ RowsSound
    /\ CopiesAreCurrent
    /\ RetryRequestsSound
=============================================================================
