----------------------------- MODULE SharedPool -----------------------------
(***************************************************************************)
(* One shared engine pool and the tenants in it, under API requests, container*)
(* events, failures of every external call, and crashes of the daemon or of*)
(* its host.  The operations serialise on the pool's lock; what interleaves*)
(* with their steps is the gateway, which reads the routes, the container, *)
(* which may exit, the event stream, which may be lost, and a crash.       *)
(***************************************************************************)
EXTENDS PoolBoot

-----------------------------------------------------------------------------
\* A pool whose tenants were created and are served.
Init ==
  \E live \in SUBSET Tenants, d \in [Tenants -> Sizes] :
    LET m == [t \in Tenants |-> IF t \in live
                THEN [st |-> "Running", want |-> "Running", disk |-> d[t]] ELSE NoRow]
    IN /\ pool = [st |-> "Running", want |-> "Running"]
       /\ row = m /\ mem = m /\ fenced = {}
       /\ res = [t \in Tenants |-> IF t \in live
                   THEN [st |-> "provisioned", disk |-> d[t]] ELSE NoRes]
       /\ Booked <= Capacity /\ Cardinality(live) <= MaxTenants
       /\ acc = [t \in Tenants |-> IF t \in live THEN "open" ELSE "none"]
       /\ quota = [t \in Tenants |-> m[t].disk]
       /\ box = "up" /\ events = <<>> /\ deaf = "open" /\ op = Idle /\ boot = "listen"
       /\ clean = TRUE /\ halted = FALSE /\ ops = 0 /\ faults = 0 /\ crashes = 0

\* The steps of whoever holds the pool's lock.
Work ==
  \/ SaveRuntime \/ SaveTenant \/ ContainLocked \/ PersistTenantQuarantine \/ StopPool
  \/ KeepDown \/ PersistFailed \/ HonorStop
  \/ ActivateLocked \/ StartPool \/ AttestPool \/ FinishActivation
  \/ ReconcileTenants \/ SecureTenant \/ QuarantineTenant \/ LimitRoot
  \/ PublishReadyTenants \/ PoolContained
  \/ ProvisionTenant \/ MarkProvisioned \/ AttachTenant \/ VerifyTenant
  \/ AbandonTenant \/ ReleaseClaim
  \/ DrainTenant \/ DropTenant \/ ForgetTenant \/ MaintainPool
  \/ ChangeAccess \/ RecordState \/ QuarantineAmbiguous \/ RestoreAccess
  \/ AccessUnrestored \/ RestoreContained
  \/ FenceForResize \/ SetLimit \/ BookResize \/ ApplyResize \/ RecordResize \/ EndResize
  \/ RollbackLimit \/ RollbackBooking \/ RollbackPool \/ RollbackRecord
  \/ StopLocked \/ EndStop \/ InspectEvent \/ EventSaved
  \/ CleanupOrphan \/ ReleaseOrphan \/ OrphanKept \/ ResumeDeletion
  \/ StartQuarantined \/ AttestQuarantined \/ CheckRecovered \/ PublishRecovery \/ EndRetry
  \/ EndStage

Boot ==
  \/ Load \/ RestoreLimits \/ RecoverOrphans \/ RecoverDeleting \/ ReconcileRuntime
  \/ RecoverPool \/ StartRuntimes \/ OpenGateways

Event == HandleEvent \/ Snapshot \/ Resubscribe

Request ==
  \/ \E t \in Tenants, d \in Sizes : ClaimRuntime(t, d) \/ Resize(t, d)
  \/ \E t \in Tenants, starting \in BOOLEAN : ChangeState(t, starting)
  \/ \E t \in Tenants : DeleteTenant(t)
  \/ \E restart \in BOOLEAN : StartPoolRequest(restart)
  \/ \E kill \in BOOLEAN : StopPoolRequest(kill)

Next == Work \/ Boot \/ Event \/ Request \/ ContainerExits \/ LoseStream \/ Crash

Spec == Init /\ [][Next]_vars

\* The holder of the lock goes on, the boot goes on and the daemon is started
\* again when it has ended, and the event tasks run.  Nobody has to send a
\* request, and nothing has to fail.
Fairness == WF_vars(Work) /\ WF_vars(Boot) /\ WF_vars(Event)

-----------------------------------------------------------------------------
(* Properties.                                                               *)

TypeOK ==
  /\ pool \in [st : {"Booting", "Running", "Stopped", "Failed", "Quarantined"},
               want : {"Running", "Stopped"}]
  /\ \A t \in Tenants :
       /\ row[t].st \in {"None", "Booting", "Running", "Stopped", "Failed", "Quarantined", "Deleting"}
       /\ mem[t].st \in {"None", "Booting", "Running", "Stopped", "Failed", "Quarantined", "Deleting"}
       /\ (row[t].st = "None") = (row[t] = NoRow)
       /\ res[t].st \in {"none", "reserved", "provisioned"}
       /\ acc[t] \in {"none", "shut", "open"} /\ quota[t] \in {0} \cup Sizes
  /\ fenced \subseteq Tenants /\ Len(events) <= 2
  /\ box \in {"up", "exited", "failed"}

\* A tenant that exists in the engine has a reservation, an attached row has
\* one that agrees with it, and the reservations never exceed the pool: no
\* order of failures in create, delete, resize and boot cleanup gives capacity
\* back under a database that still exists (create/shared.rs abandon_tenant,
\* orphan_reservations.rs, repository/capacity.rs).
CapacityIsBacked ==
  /\ Booked <= Capacity /\ Cardinality(Reserved) <= MaxTenants
  /\ \A t \in Tenants : acc[t] # "none" => res[t] # NoRes
  /\ \A t \in Tenants : row[t] # NoRow => Attachable(t, row[t])

\* While the gateways listen, an open route leads to an account that is open and
\* whose disk boundary is the one that was booked: whatever failed before, no
\* route was published over a fenced account or a stale quota
\* (tenant/recovery.rs, shared/runtime.rs restore_access, shared/resize.rs).
OpenRoutesAreSecured ==
  Listening => \A t \in Tenants :
    RouteOpen(t) => acc[t] = "open" /\ quota[t] = mem[t].disk /\ quota[t] = res[t].disk

\* Once an operation has left the pool quarantined no tenant's route is open,
\* and none opens until the pool is recovered at a boot (containment.rs).
QuarantineClosesRoutes ==
  (Served /\ op = Idle /\ pool.st = "Quarantined") => \A t \in Tenants : ~RouteOpen(t)

\* A boot without errors leaves no reservation without an instance, unless it
\* had to quarantine the pool (orphan_reservations.rs).
NoOrphanAfterBoot ==
  (Listening /\ op = Idle /\ clean) => Orphans = {} \/ pool.st = "Quarantined"

\* A pool whose stop was acknowledged stays down: no late event, snapshot,
\* crash, boot recovery or autostart brings it back (reconcile.rs honor_stop).
StopIsHonored == halted => box # "up"

\* In a served daemon that met no error, once every event is handled, the pool
\* is recorded as running exactly when its container runs, and a tenant that is
\* recorded as running is reachable: an exit that races a restart, a stop or a
\* tenant's operation leaves neither a phantom pool nor a forgotten fence
\* (lifecycle/events.rs, container_events.rs).
SettledStateAgrees ==
  (Listening /\ op = Idle /\ events = <<>> /\ clean) =>
    /\ (pool.st = "Running") = (box = "up")
    /\ \A t \in Tenants : pool.st = "Running" /\ RouteEligible(row[t]) => RouteOpen(t)

\* A deletion that is still under way after a boot without errors can be retried
\* at the next boot: its pool is not quarantined, since a quarantined pool with a
\* tenant in Deleting is never started again, by a request (power.rs) or by the
\* boot (pool_recovery.rs preflight).  shared/delete.rs says "retained a fenced
\* deleting tenant so cleanup can be retried on the next boot".
DeletionStaysRetryable ==
  (Listening /\ op = Idle /\ clean) =>
    \A t \in Tenants : row[t].st = "Deleting" => pool.st # "Quarantined"

\* Every operation gives the pool's lock back and every event is handled in the
\* end, however the pool, the engine and the store fail on the way.
Settles == []<>(op = Idle /\ events = <<>>)

\* A daemon that has been started ends its boot, with its gateways listening or
\* closed for good: containment never makes it give up for ever.
BootCompletes == <>[](boot \in {"listen", "closed"})
=============================================================================
