# A TLA+ model of the DatabasesEverywhere daemon

`dbev` runs database engines for tenants on one host: it creates containers
(PostgreSQL, MariaDB, MySQL, MongoDB, ClickHouse, Redis-protocol stores, Qdrant),
packs tenants into shared pools, routes client connections through one gateway,
imports, exports, backs up, limits and moves databases, and must come back from
a crash at any of those points. Its state is spread over an SQLite database, the
engines themselves, files on disk and several in-memory tables, each behind its
own lock. This project models the parts whose correctness depends on the order
of steps, checks them with TLC on small instances and proves the gateway's core
with TLAPS for instances of any size.

Paths below are relative to `src/app/` of the repository unless they say
otherwise.

## 1. Inventory

| Part | State | Operations | What makes it hard |
|---|---|---|---|
| Route table (`server/state.rs`, `server/manager.rs`) | metadata, routes by user/database and by password, fences, pins, revisions | publish, fence, pin, open, remove, look up | a stale publication after a fence; a pin against later refreshes |
| Tenant sessions (`gateway/sessions.rs`) | per tenant: permits, cancellation, Notify | open, authenticate, drop, cancel, cancel_and_wait | entry removed while a waiter is parked; quota |
| Resolver and listeners (`gateway/resolver.rs`, `gateway/listeners`) | one task per connection | resolve, register, check twice, tunnel | every step interleaves with a fence |
| Lifecycle fences (`server/sessions.rs`, `subsystems/instances/route_fence.rs`) | none | fence, fence_and_wait, pin | a fence is only worth what it keeps out |
| Import/export scheduler (`server/jobs/import_export/scheduler`) | queue, active totals, budgets | acquire, dispatch, release, refresh, close | bypass, starvation, budgets that shrink, lost wake-ups |
| Job admission (`server/jobs/import_export/mod.rs`) | counts per instance, accepting flag | admit, release, close, drain | exclusive against counted jobs; drain at shutdown |
| Import jobs (`subsystems/import_export/jobs`, `logical`) | job row, upload row, rollback dump, manifest, route, quarantine | queue, claim, fence, snapshot, apply, commit, roll back, quarantine | crash between any two writes; writes applied but not acknowledged |
| Temporary uploads (`storage/import_uploads`, `subsystems/import_export/uploads`) | upload row, files | receive, finalise, claim, release, consume, delete, expire | sweeper, job and client race for one row |
| Placement (`server/placement/repository`, `lifecycle`) | engine runtimes, reservations, capacity | reserve, provision, release, resize, save | stale snapshot written over a concurrent reservation |
| Shared pools (`subsystems/pools`) | pool row, container, tenants | provision, power, limits, image, delete | lock order; a tenant being created in a pool being stopped |
| Deployment migration (`server/placement/migration`, `subsystems/instances/deployment`) | migration row, both engines, reservation, route | start, copy, cut over, retire, roll back, recover | two copies of the data, one of which is the truth |
| Instance lifecycle (`subsystems/instances`) | metadata, container | create, start, stop, delete, limits, image, password | partial creation; desired state against events |
| Backups (`subsystems/backups`, `server/backup`) | job journal, catalogue, remote objects | start, stage, publish, restore, prune | crash between publication and catalogue |
| Disk limits (`server/disk`, `daemon/soft_disk_limiter`) | quotas, blocked flags | measure, block, unblock, enforce | hysteresis, stale measurements |
| Boot and shutdown (`daemon`) | everything above | recover, reconcile, publish, drain | order of the recovery passes |
| Monitoring, HTTP, console, benchmarks, configuration | caches and streams | read | no state the rest depends on |

Correctness, in one sentence each: a client reaches only the engine that the
durable metadata names, and nobody while that engine is being changed; no
acknowledged write is lost by an import, a migration or a crash; a status the
daemon reports is true; every reservation, permit and lock taken is given back;
and every job, migration and boot ends.

## 2. Plan

Order of work, from the part everything else relies on outwards:

1. Gateway: `RouteStore`, `TenantSessions`, composed in `GatewayRoutes`; proofs
   in `RouteStoreProofs` and `GatewayRoutesProofs`. Done.
2. Work on data: `Scheduler`, `ImportJobs`, `DeploymentMigration`. Done. Proofs of
   the scheduler's accounting and of the migration's copy invariant are next.
3. Placement: `PoolRuntime`, `PoolTenants`, `PoolBoot`, composed in `SharedPool`.
   Done for one pool with hard quotas. Left: provisioning, limits and image of a
   pool, soft quotas, and an abstract specification of "a tenant occupies exactly
   one slot" that the repository and the lifecycle implement.
4. Admission and uploads: `JobAdmission`, the upload row's state machine with
   sweeper, client and job; refinement of the upload as `ImportJobs` uses it.
5. Instance lifecycle and boot: create/delete with compensation, power and
   container events against desired state, password rotation, boot order.
6. Backups: journal, publication, catalogue, restore.
7. Disk: soft limiter hysteresis, project-quota identities.
8. Gateway periphery: supervisor readiness, connection limiter, tunnel shutdown,
   PostgreSQL cancel keys.

Section 7 lists what is left of this plan.

## 3. Modules, state and actions

### Gateway: RouteStore, TenantSessions, GatewayRoutes

`RouteStore` is the in-memory table of `server/state.rs`. `instances`, `routes`,
`passwordRoutes`, `revisions`, `fenced` and `pinned` are its maps; each public
method that takes the write lock is one action (`Upsert`, `UpsertFenced`,
`UpsertPreservingFence`, `OpenRoutes`, `FenceRoutes`, `PinRoutesFenced`,
`Remove`). A published route carries a revision that every change bumps, so a
connection can tell whether what it resolved is still current.

`TenantSessions` is `gateway/sessions.rs`: an entry per tenant exists while a
session or a pending session does; `cancel_and_wait` reads the entry, parks on
its Notify and re-reads, one step per lock or await.

`GatewayRoutes` composes them with the connections of the three listener kinds
(plain; PostgreSQL, which holds a pending session during startup; MongoDB, which
activates after SCRAM) and with lifecycle callers that fence and cancel. No lock
is held across steps on either side, so all steps interleave. A cancelled session
is noticed where the tunnel reads from or writes to the backend
(`MeteredBackend`), so a client that sends nothing and takes nothing keeps its
tunnel `stalled`, cancelled or not, until it moves again or leaves
(`ClientStalls`, `ClientResumes`).

Properties: `FenceIsABarrier` (after a fence's cancel() no connection resolved
earlier runs un-cancelled), `DrainedIsQuiet` (when fence_and_wait answers true,
none is past its check), `EstablishedIsCurrent`, `QuotaIsHeld`,
`EntriesMatchSessions` (the registry has an entry exactly for the tenants with a
registered connection), `RoutesAreSound`, `PinnedStaysFenced`,
`EveryChangeBumps`, and for liveness `StaleConnectionsClose`: a connection that a
fence found past its check is closed in the end, or its client stalls it for
good. `RevisionsAreFresh` is part of the proved invariant (section 5).

### Scheduler

`Scheduler` is the queue of `server/jobs/import_export/scheduler`. The dispatch
loop holds the mutex; its iterations are single steps under `locked`. Time is the
action `Expire(j)`, the cost formula and the host's samples are constants.
`AccountingIsExact` (active totals equal the sum over permits), `LimitsHold`,
`WorkConserving` (after a dispatch nothing that fits and may overtake is left
waiting), `BypassBounded`, and `NobodyStarves`.

### ImportJobs

`ImportJobs` follows logical imports on one instance: request, uncertain insert
of the job row, claim of a temporary upload, the supervisor, the worker (fence,
rollback dump, manifest, apply, commit or roll back, reopen or quarantine), the
terminal status with its retries, shutdown, crash, each pass of the boot and the
upload sweeper. A storage write is acknowledged, applied with the acknowledgement
lost, or not applied. `data` is the original, a job's dump or "partial".
`NoPartialServed`, `RollbackKept`, `SucceededMeansApplied`;
`FailedMeansUntouched` (a job that reports a failure over a target that is not
quarantined applied nothing and left nothing half imported, except in the windows
that `interrupted_import` and `duplicate_import` show); `UploadAppliedOnce`
(crashes alone, or panics alone, never apply an upload twice);
`WorkerFailureQuarantined`; live: `ImportsEnd`, `UploadSettles`.

### DeploymentMigration

`DeploymentMigration` moves an instance between a dedicated engine and a tenant
of a shared pool, in both directions and repeatedly. `migration` is the row with
its stage and flags; `placement` the metadata row; `engines`, `data` the engine
objects and the number of acknowledged writes in each; `resv` who holds the
pool's reservation (nobody, the migration's own id, the instance); `row` the
dedicated engine's row; `route`, `pinned`, `session` the gateway. The worker is a
program counter whose steps fail, succeed, or succeed without acknowledgement;
`Fails` is the hand-over to `recover_failure`, or giving up in a recovery. Import
may lose rows without saying so, because validation is what the code relies on.

`AuthoritativeCopyComplete` is the heart: the engine that the durable metadata
names exists and holds every acknowledged write, whatever fails.
`RoutesFollowMetadata`, `TerminalLeavesNothing`, `BootSettles`,
`UnfinishedStaysFenced` and `TenantStaysReserved` (a tenant in the pool, whether
provisional, the instance's own or about to be dropped, always has a reservation)
complete it; live: `WorkerEnds`.

### Shared pools: PoolRuntime, PoolTenants, PoolBoot, SharedPool

A pool is one engine container shared by tenants. Every operation on it holds the
pool's lock from its first to its last step, so the model has one holder `op`: a
program counter, the stack of callers it returns to (`ret`), and the operation's
local values. What still interleaves with its steps is the gateway, the
container, the event stream and a crash.

| Variables | In the code |
|---|---|
| `pool`, `row`, `res` | the rows of engine_runtimes, instance_metadata and engine_runtime_reservations |
| `mem`, `fenced` | the manager's metadata and the route fences; a restart empties them |
| `acc`, `quota` | the tenant's account (none, shut, open) and disk boundary in the engine |
| `box`, `events`, `deaf` | the container, the events of it that are queued, whether the stream is open |
| `boot` | the stage of `daemon/lifecycle.rs` and `daemon/boot_recovery.rs` |
| `halted`, `clean`, `ops`, `faults`, `crashes` | history and budgets: a stop was acknowledged; no call failed since the boot began |

`PoolRuntime` has what the others call: `save_runtime` (the pool's row, then every
tenant's row, any of them failing), `contain_locked` (fence all, persist the
quarantine, stop), `keep_down`, `honor_stop`, activation, and the reconciliation
that secures every tenant (fence, shut account, restore quota), quarantines the
ones it cannot secure and publishes the rest. `PoolTenants` has create, delete,
start/stop and resize of a tenant with each rollback. `PoolBoot` has pool power,
events and snapshots, and the boot: load, limits, orphan claims, resumed
deletions, reconciliation, recovery of dead pools, autostart, gateways.

A write has one of five outcomes (`Outcomes`): acknowledged; committed or not
without an acknowledgement, and in either case readable afterwards or not. Where
the code reads back (`release`, `mark_provisioned`) a commit that is readable
counts as success, and where it does not (`quarantine`, most upserts) as failure.
An engine command
fails when the container is down and may fail half-way otherwise.

`CapacityIsBacked` (no booking is given back under a tenant that exists),
`OpenRoutesAreSecured` (an open route leads to an open account with the booked
quota), `QuarantineClosesRoutes`, `NoOrphanAfterBoot`, `StopIsHonored` (nothing
brings back a pool whose stop was acknowledged), `SettledStateAgrees` (with no
error and no event left, recorded status and container agree); live: `Settles`
(the lock is always given back) and `BootCompletes`.

## 4. Runs, bounds and fairness

| Run | Instance | Shows |
|---|---|---|
| route_store | 2 instances, shared names and password, 5 revisions | every sequence of table changes keeps the table sound |
| gateway_routes | 2 connections of any kind, 1 fencing caller, 3 revisions | fence, drain, quota and registry under all interleavings; stale connections close, unless the client stalls for good |
| drain_wait (violated) | as gateway_routes, with 4 revisions | a parked waiter may have nothing left to wake it |
| scheduler | 3 jobs of 3 sizes that come back for ever, 3 settings, varying samples | accounting, limits, bypass, work conservation; nobody starves |
| import_jobs | 2 imports of one upload, shared target, 3 crashes, 1 panic | data and status agree after every failure |
| import_live | an import of an upload and one of an artifact, 1 crash, 1 panic, failing writes | a dead worker's target is quarantined; imports end, uploads settle |
| interrupted_import (violated) | 2 crashes | the order of status and quarantine at boot |
| duplicate_import (violated) | 2 imports of one upload, 1 panic, 1 crash | the order of status, upload and quarantine after a dead worker |
| deployment_migration | 3 migrations, 2 writes, 3 crashes | placement, route and leftovers; the worker ends |
| migration_other_tenant (violated) | 1 migration, 2 crashes | what a retried cleanup may drop |
| shared_pool | 1 tenant and 1 to be created, capacity 3; up to 2 operations, 2 failures, 1 crash, 4 of these in all | bookings, quotas, routes, containment, stop intent, status; operations and boots end |
| deletion_retry (violated) | 1 operation, 1 crash, no failure | a deletion that no boot can finish |

Bounds. Two connections are enough for the gateway: a fence and a quota relate
one connection to another, and the theorems drop the bound. Three to five
revisions allow publish, fence and republish, and with the larger bounds another
fence. The scheduler's three sizes are the smallest set with a head that does not fit, a job that may overtake
it and one that fits only when nothing runs. Two crashes are what a boot that is
itself interrupted needs; the third lets a boot fail, the
daemon run, and another boot retry. Two writes distinguish "no copy", "an old
copy" and "the copy". In the pool two sizes and a capacity of 3 make a second
tenant or a resize fit or not; two operations follow one another on what the
first left behind; two failures are a failed step and a failed step of its
rollback. `MaxAll` bounds operations, failures and crashes together: four of them
are, say, a failed operation and a second one that meets what it left and fails,
or an operation, a crash and two failures of the boot; all five together are left
out for the size of the state graph. `MaxRevision`, `MaxCrashes`, `MaxPanics`,
`MaxStarts`, `MaxWrites`, `MaxOps`, `MaxFaults` and `MaxAll` appear only in
guards. Deadlock is not checked where the system may stop by itself: a bound is used up, or all work is done.

Fairness. Tasks of the tokio runtime are run as long as they are ready, so
workers, connection tasks, the boot and the sweeper have weak fairness. Acquiring
a mutex or permit has strong fairness: tokio's are queues. Storage retries that
the code repeats for ever succeed in the end, those it gives up may fail for
good. The holder of a pool's lock, the boot (a daemon that ends is started again
by its supervisor) and the event tasks have weak fairness. A connection task is
ready only when its sockets are: it notices a cancellation when the tunnel turns
to the backend, and a stalled client has no fairness. Nothing
is assumed of clients, operators, engines or crashes.

## 5. Proofs

`RouteStoreProofs` proves that the table's invariant (type, soundness, pins,
fresh revisions) is inductive, for any sets of instances, names and metadata.
`GatewayRoutesProofs` proves for any number of connections and fencing callers:
`EntriesExact`, `FenceSafety`, `DrainSafety`, `EstablishedOnCurrentRoute`.

The argument. `FenceIsABarrier` alone is not inductive: a connection can be
about to pass its check. The invariant `Inv` adds, besides types and the table's
invariant,
`EntriesMatchSessions` (the registry's entry of a tenant is exactly its live
sessions), `FencesAreOld` (a recorded fence has a revision the table reached),
`TargetsAreSnapshots` (a connection's target is a revision that was published),
`HoldersAreRegistered` (past registration, the session is in the registry until
cancelled) and `Barrier` (a connection past its check whose target is older than
a finished fence is cancelled, and one resolved before a running fence is either
registered, and will be seen by cancel(), or will fail its check). Assumptions:
the constants are disjoint from their null values, and the two modules agree on
tenants. `Inv` was model-checked before it was proved.

Only model-checked: every liveness property (fairness and ENABLED are out of the
prover's reach), the scheduler (sums over sets need induction), import jobs,
migration and shared pools.

## 6. What the violated runs show

* `drain_wait`: `cancel_and_wait` can stay parked on the Notify of an entry that
  was removed and recreated; it answers false at its timeout although no session
  of the tenant is left.
* `interrupted_import`: boot marks interrupted jobs failed before it quarantines
  their targets; a crash between the two forgets which targets to quarantine.
* `duplicate_import`: the supervisor of a dead import worker saves the failure
  before it blocks the upload and quarantines the target. A crash in between,
  after the import was committed, makes the boot offer the upload again, and a
  second import applies it once more.
* `migration_other_tenant`: a cleanup that failed after releasing the tenant's
  name drops that name again when it is retried, and with it a tenant that
  another instance created there meanwhile.
* `deletion_retry`: a host crash after a tenant was dropped and before its row is
  forgotten. The boot starts the pool before it resumes the deletion; securing the
  dropped tenant fails, the whole pool is quarantined, and a quarantined pool with
  a tenant in Deleting is refused by the recovery and by a start request.

Observed on the way, without a run of their own: "source retained for manual recovery" is also reported when
an earlier pass has already retired the source; a failing exit that is handled
after a restart keeps the restarted pool down; an exit between a snapshot and the
reopened stream is reported to nobody.

## 7. Not modelled, and what is left

PROJECT.json lists every part with its reason. Not modelled because TLC adds
nothing: wire protocols and SQL text (byte-level translation), HTTP handlers that
only read, metrics and websockets (caches that may be stale by design), logging,
console and benchmark commands, configuration parsing. Left out of the pool
modules: the provisioning, limits, image and deletion of a pool itself, tenants with a soft quota,
password rotation, refreshed logging, a second pool (locks
are per pool), and requests between two deletions that a boot resumes. A read
that fails and ends the boot is a crash there. Left for later, in the order of
section 2: the rest of placement, admission and uploads, instance lifecycle and
boot order, backups, disk limits, gateway periphery; and proofs for the
scheduler's accounting, the migration and the pool's bookings.
