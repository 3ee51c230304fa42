# Verification of the internal developer portal

TLA+ modules for the concurrent core of the portal, checked with TLC on small
instances and, for safety, proved with TLAPS for every instance. Paths below
are relative to the repository root; the Rust code is in `src/`.

## The system

The portal is a Rocket API server, a connector worker and a React frontend
around one PostgreSQL database. All coordination between processes goes through
the database: transactions at READ COMMITTED, row locks (`FOR UPDATE`, `SKIP
LOCKED`), conditional updates and advisory locks.

| Part | Code | State | Module |
| --- | --- | --- | --- |
| Run queue | `src/repositories.rs` 414-991 | `connector_runs` | `ConnectorRuns`, `RunLifecycle`, `RetryBackoff` |
| Run execution | `connectors/runtime.rs` | process locals, `connectors`, items | `ConnectorRuns` (without items) |
| Worker loop and lease renewal | `connectors/worker.rs` | process locals | `ConnectorRuns` |
| Run, import, retry, cancel routes | `connectors/routes.rs` | - | `ConnectorRuns` |
| Scheduler | `worker.rs` 1085-1152, `repositories.rs` 306-402 | `connector_configs` | planned |
| Retention | `worker.rs` 182-240, 826-1083 | history tables, advisory lock | planned (run deletion is in `ConnectorRuns`) |
| Import of items, reconciliation, scopes | `runtime.rs` 455-925, `repositories.rs` 156-215, 1455-2090 | work cards, notifications, events, services | planned |
| Notification receipts and inbox | `repositories.rs` 2091-2598 | receipts | planned |
| Sessions, login throttling | `repositories.rs` 3025-3262, `auth.rs` | sessions, buckets | planned |
| Entra sign-in | `entra_auth.rs`, `repositories.rs` 2696-2917 | OIDC transactions, identities | planned |
| Connector OAuth, config secrets | `connectors/oauth.rs`, `crypto.rs` | configs | planned in part; cryptography is out |
| Adapters | `connector_adapters/` | none | not modelled: HTTP and JSON mapping |
| Demo seed | `commands.rs` | rows of its own source | not modelled, see below |
| Catalog, dashboard, audit, health | `rocket_routes/` | single-row edits and queries | not modelled |
| Frontend | `frontend/src` | views, session events | not modelled yet |

`PROJECT.json` lists every part with its status, and the hazards of the code
with the property that covers each or the reason why none does yet.

## ConnectorRuns

A run is a row of `connector_runs`. Handlers of the API insert it, either
queued or, for inline executions and imports, already running. Workers claim
queued runs, each claim counting an attempt and taking a lease that a separate
task renews. A worker that stops renewing is assumed dead: any worker's
recovery pass requeues the run with a backoff, or ends it when its attempts are
used up or its cancellation was requested.

### State

| Variable | Code |
| --- | --- |
| `runs` | the table: status, source, target, `worker_id` (`worker`), `attempt_count` (`attempts`), `max_attempts` (`limit`), `next_attempt_at` (`due`), `lease_expires_at` (`leased`, `lease`), `cancel_requested_at` (`cancel`), `parent_run_id` (`parent`) |
| `connectors` | `connectors.status`, `"absent"` without a row |
| `lock` | holder of the `FOR UPDATE` lock on a connector row |
| `pc`, `job`, `attempt`, `prepared` | where a worker or handler is in its loop or in `execute_connector_run`, the run it holds, its copy of the attempt count, and whether a payload was loaded |
| `request` | the run a handler was asked to create |
| `renewing` | whether the worker's `RunLeaseRenewal` task is alive |

Statuses `unused` and `purged` stand for an identifier before its insert and
after its deletion. Payloads, item data, counts, messages and audit rows are
left out: no property tells them apart.

**Time.** A timestamp column holds the time left until it, and `Tick` lowers all
of them. A process compares with its own `Utc::now()`; each statement's reading
is up to `Drift` behind the fastest clock, which covers skew between hosts and
the delay between reading the clock and executing the statement. Countdowns
stop at `-Drift`, where every reading is past them.

### Actions

| Action | Code |
| --- | --- |
| `RunConnector`, `ImportItems`, `RetryConnectorRun` | the routes, up to their first write; status checks happen here, outside any lock |
| `FindOrCreateDefault` | first statement of `create_running_run` |
| `LockAndCount`, `InsertRun` | `create_if_no_pending` and `create_retry`, split where other processes wait for the connector lock |
| `RecoverExpiredLeases` | one pass of `recover_expired_leases`, one transaction: oldest leases first, at most `RecoveryLimit`, skipping any rows that others have locked (a finalizing transaction, a cancel request, a renewal, another pass) |
| `ClaimNextQueued`, `StartCycleOver` | `claim_next_queued`, which also skips locked rows; nothing claimed, or a failed statement, which restarts the cycle |
| `RenewLease`, `RenewalGivesUp` | the renewal task |
| `DeleteFinishedRuns` | the deletion of runs by a retention pass |
| `CheckBeforeLoad` ... `CommitExecution`, `LoseOwnership`, `SettleCancelled` | `execute_connector_run` |
| `TransactionError`, `QueryError`, `CreateError` | any statement may fail, and its transaction is rolled back |
| `RequestCancel` | `request_cancel`, under the row's lock |
| `SaveConnector`, `DeleteConnector` | `create_connector`, `update_connector` and `delete_connector`, as far as the status goes; both wait for the lock on the row (`SetConnector`) |
| `CrashWorker`, `CrashServer` | a process dies between any two steps |

A worker id is a fresh UUID per process, so a crashed worker's id never
returns; the supervisor keeps at least one worker up. The four import routes
differ only in their target and are one action.

The actions are the writers of a deployed portal: handlers, workers and
retention. The demo seed, a development command, also writes runs, those of its
own source in one transaction: it resets the ones it finds (`commands.rs`
663-690) or inserts them with `ConnectorRunRepository::create`, and finishes
them with `update_state` (`commands.rs` 1018). It is not modelled, and nothing
below is about it. Neither is `update_connector_scope`, which changes no status.

A pass of recovery waits for the connectors of the runs it gives up on. Two
passes over different batches may wait for each other's connectors; PostgreSQL
then aborts one, which is a failed statement: the pass changes nothing and the
cycle starts over.

The transaction of `execute_connector_run` is one action from the item writes to
the commit: `finalize_if_active` locks the run's row, and a cancel request or a
recovery that meets the lock behaves as if it came before or after.

## RunLifecycle and RetryBackoff

`RunLifecycle` is what the queue promises about one run, whether a handler, a
worker or retention writes it: created queued or running, attempts counted by claims only and within the
limit, requeued only without a cancel request, a cancel request ending in
`cancelled`, a finished run never moving again until it is deleted.
`ConnectorRuns` implements it (`ImplementsLifecycle`) with `LifeOf` as mapping.

`RetryBackoff` is `bounded_retry_backoff_seconds`, with its saturating
arithmetic.

## Runs

| Run | Instance | Shows |
| --- | --- | --- |
| `leases` | 1 run with 2 attempts, 2 workers, 1 handler, lease 2, drift 1; pausing and deleting operator | type, `QueuedRunIsClaimable`, `ClaimedRunIsRecoverable`, fencing (`OnlyCurrentAttemptIsActive`), late renewals (`OnlyOwnersExtendLeases`), `CancelRequestStands`, `ImplementsLifecycle` |
| `creation` | 2 runs of 1 key, 1 worker, 2 handlers, all kinds of request | `OneActiveRunPerKey`, `RetriesFollowAFinishedRun` |
| `liveness` | 1 run with 2 attempts, 2 workers, 1 handler, lease 1, drift 1, fair | `QueuedRunsEnd`, `CancelRequestsSettle` |
| `recovery_backlog` | 2 runs with 1 attempt, 3 targets, 1 worker, 1 handler, recovery limit 1, fair | `QueuedRunsEnd` when leases outnumber a recovery pass |
| `inline_runs` | 1 run, 2 workers, 1 handler with inline requests only, fair | **violated**: `RunningRunsEnd` |

Why the bounds are enough to meet the interesting cases: two workers and two
attempts give a stale executor beside the owner of the next attempt; a lease
longer than the drift gives a valid, a doubtful and an expired lease; two
handlers and two identifiers of one key give the race of creations and a retry
of a run that is being deleted. Handlers go on taking requests when all
identifiers are used; such a creation can only fail. So in `recovery_backlog`
the two runs can be leased and expired while the handler keeps locking their
connector on behalf of the third target, and the recovery of either run, which
gives up on it, has to wait for that lock. Workers and handlers are interchangeable, and
symmetry is used only in runs without liveness properties.

### Finding: inline runs are never recovered

`create_running_run` (`connectors/runtime.rs` 261-306) inserts the run with
`lease_expires_at` NULL, and recovery selects `lease_expires_at <= now`, which
NULL never satisfies. The run `inline_runs` shows the consequence: the API
process inserts the run and dies (or its transaction fails and rolls back), and
the row stays `running` for ever. It then blocks every further run of its
source and target, and a cancel request on it is recorded but never settled.
`README.md` 559-560 says that manual runs end, and 833-835 that a crashed run
is requeued or failed.

### Fairness

Weak fairness for the worker cycle, creations, executions and time: processes
that are up keep going, and payload loading ends because the HTTP client has a
timeout. A recovery pass may find any row locked and skip it, but such locks are
momentary: `PassesUndisturbed` says that a worker that makes passes for ever
makes some, again and again, that skip no row except those a finalizing
transaction holds. Those passes take the connector rows they wait for although
handlers lock them again and again, since the database queues lock waiters.
Strong fairness for `ClaimNextQueued`, because a cycle may fail before its
claims, but not every cycle for ever. Nothing makes an operator act, a process
crash, a lease be renewed or a cleanup run; in particular a renewal may never
happen.

## Proofs

`ConnectorRunsProofs` proves, for any sets of runs, workers, handlers, sources
and targets, any lease and retry policy and any drift, that `IInv` is an
invariant, and from it `TypeCorrect`, `ActiveRunsExclusive`,
`QueuedRunsClaimable`, `ClaimedRunsRecoverable`, `RetriesSound` and `Fencing`.
Its second part proves `Refinement` (every step is a step of `RunLifecycle` or
leaves all lives alone) and `CancelRequestsStand`, its third
`LeasesExtendedByOwners`: no step but a renewal makes the lease of a running run
grow (`NextLeases`), and a renewal that does is the one of the worker the row
names, whose copy is then current (`RenewalByOwner`).
The assumptions are the named ones of `ConnectorRuns` and `RetryBackoff`:
process sets are disjoint, NULL is not a value, and the policy is positive, as
`ConnectorRunLeasePolicy::from_env` enforces.

The properties of the rows are not inductive by themselves. `IInv` adds

- `ProcessesConsistent`: which steps a process can be at and what it then holds;
- `CreationIsExclusive`: a handler about to insert holds the connector lock and
  no run of its key is active, which needs that nobody else makes a finished
  run active again;
- `CopiesAreCurrent`: as long as a row names a worker, that worker's copy has
  the row's attempt count, and an inline run belongs to one handler. Fencing
  follows from it: a worker whose run was recovered no longer matches
  `worker_id`, or it is the one that claimed it again;
- `RetryRequestsSound`: the parent of a retry under way is retryable, or was
  deleted before it was locked;
- `AttemptsBounded`, `NoRowIsBlank`.

Most actions change rows in one of a few ways, so the proofs share lemmas about
a row's moves (`SteadyMove`: the new row is no more active than the old one) and
each action is reduced to them.

Only model-checked: `QueuedRunsEnd` and `CancelRequestsSettle`, since liveness
under fairness is out of the prover's reach.

## Plan

1. `Scheduler`: due configs, batch limit, `mark_scheduled`, the race with
   handlers between `has_pending` and the creation, composed with creation.
2. `Retention`: advisory lock, shared interval and failure backoff over several
   workers.
3. `Import`: upserts, reconciliation of complete snapshots, and connector scope
   changes racing with imports (`README.md` 827-829 promises that a connector
   and its records never have different audiences).
4. `Sessions`, `LoginThrottle`, `OidcLogin` with first sign-in.
5. `Receipts`: notification receipts against updates and archival.
6. Data scopes as a pure predicate against a reference definition; backoff at
   the limits of its integer types.
7. Connector OAuth and token refresh against concurrent config edits; frontend
   session events.
8. Proofs for the invariants of the new modules.
