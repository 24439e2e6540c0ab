------------------------- MODULE DeploymentMigration -------------------------
(***************************************************************************)
(* Moving one instance between a dedicated engine and a tenant of a shared *)
(* pool: the durable stage machine (server/placement/migration), the       *)
(* worker that drives it, the recovery of a worker that failed, and the    *)
(* recovery of an interrupted record at boot (subsystems/instances/        *)
(* deployment).                                                            *)
(*                                                                         *)
(* A database is the number of acknowledged client writes it holds, so a   *)
(* copy that misses one can be told from a complete one.  A client works   *)
(* through a gateway session on the engine the in-memory route names.  One *)
(* other instance may create a tenant under the same database name in the  *)
(* pool whenever the repository lets it.                                   *)
(***************************************************************************)
EXTENDS Naturals, FiniteSets, TLC

CONSTANTS MaxWrites,   \* acknowledged client writes
          MaxStarts,   \* migrations requested
          MaxCrashes   \* crashes of the daemon

VARIABLES
  \* durable
  migration,   \* the newest deployment_migrations row
  placement,   \* deployment_mode of the instance_metadata row
  engines,     \* the modes in which an engine object for the instance exists
  data,        \* what each engine object holds
  resv,        \* who holds the pool reservation for the tenant's name
  row,         \* whether the dedicated engine_runtimes row exists
  other,       \* another instance's tenant under the same name in the pool
  \* in memory
  daemon, route, pinned, session, pc, healing, boot,
  manifest, artifact,
  \* bounds and history
  acked, starts, crashes

durable  == <<migration, placement, engines, data, resv, row, other>>
copying  == <<manifest, artifact>>
counters == <<acked, starts, crashes>>
vars == <<migration, placement, engines, data, resv, row, other, daemon, route,
          pinned, session, pc, healing, boot, manifest, artifact, acked,
          starts, crashes>>

Modes == {"dedicated", "shared"}
OtherMode(m) == IF m = "shared" THEN "dedicated" ELSE "shared"
source == migration.source
target == OtherMode(migration.source)

Terminal == {"None", "Completed", "Failed"}

BeforeFence == {"TargetPreparing", "TargetPrepared", "SourceFencing"}
UnderFence  == {"SourceFenced", "Exporting", "Exported", "Importing",
                "Imported", "Validating", "CutoverPending"}
AfterCutover == {"CutoverCommitted", "VerifyingCutover", "CleaningSource"}

MigrationStage ==
  Terminal \cup {"Requested", "Preflight"} \cup BeforeFence \cup UnderFence
  \cup AfterCutover \cup {"RollingBack", "CleanupPending", "ManualIntervention"}

Active == migration.stage \notin Terminal

Successor ==
  [Requested |-> "Preflight", Preflight |-> "TargetPreparing",
   TargetPreparing |-> "TargetPrepared", TargetPrepared |-> "SourceFencing",
   SourceFencing |-> "SourceFenced", SourceFenced |-> "Exporting",
   Exporting |-> "Exported", Exported |-> "Importing",
   Importing |-> "Imported", Imported |-> "Validating",
   Validating |-> "CutoverPending", CutoverPending |-> "CutoverCommitted",
   CutoverCommitted |-> "VerifyingCutover",
   VerifyingCutover |-> "CleaningSource", CleaningSource |-> "Completed"]

CrossedCutover(s) == s \in AfterCutover \cup {"CleanupPending", "Completed"}

Allows(s, next) ==
  \/ s \in DOMAIN Successor /\ next = Successor[s]
  \/ s \in {"Requested", "Preflight"} /\ next = "Failed"
  \/ s \in BeforeFence \cup UnderFence /\ next = "RollingBack"
  \/ s \in AfterCutover /\ next = "CleanupPending"
  \/ s = "RollingBack" /\ next \in {"Failed", "ManualIntervention"}
  \/ s = "CleanupPending" /\ next \in {"CleaningSource", "ManualIntervention"}
  \/ s = "ManualIntervention" /\ next \in {"RollingBack", "CleanupPending"}

\* The mapping that stops at VerifyingCutover: a record interrupted while its
\* source was being retired stays in that stage.
MutRecoveryStageNoCleaning(s) ==
  CASE s \in {"Requested", "Preflight"} -> "Failed"
    [] s \in BeforeFence \cup UnderFence -> "RollingBack"
    [] s \in AfterCutover \ {"CleaningSource"} -> "CleanupPending"
    [] OTHER -> s

RecoveryStage(s) ==
  CASE s \in {"Requested", "Preflight"} -> "Failed"
    [] s \in BeforeFence \cup UnderFence -> "RollingBack"
    [] s \in AfterCutover -> "CleanupPending"
    [] OTHER -> s

\* Where the worker, or the recovery that took over from it, is.
RunSteps ==
  {"preflight", "preparing", "claim", "create", "prepared", "fencing", "drain",
   "draining", "fenced", "measure", "exporting", "export", "exported",
   "importing", "import", "imported", "validating", "validate", "pending",
   "commit", "verify", "open", "verifying", "cleaning", "retire", "release",
   "limits", "forget", "complete"}
RecoverySteps ==
  {"recover", "rollback", "rollbackRelease", "rollbackLimits", "rollbackForget",
   "rollbackSource", "fail", "reopenSource", "verifyTarget", "manual",
   "forward", "reopenTarget"}

NoMigration == [stage |-> "None", source |-> "dedicated", target_runtime |-> FALSE,
                source_fenced |-> FALSE, cutover_committed |-> FALSE]

Init ==
  /\ migration = NoMigration
  /\ placement \in Modes
  /\ engines = {placement}
  /\ data = [m \in Modes |-> 0]
  /\ resv = IF placement = "shared" THEN "instance" ELSE "none"
  /\ row = (placement = "dedicated")
  /\ other = "none"
  /\ daemon = "up" /\ route = placement /\ pinned = FALSE /\ session = "none"
  /\ pc = "idle" /\ healing = FALSE /\ boot = "clean"
  /\ manifest = 0 /\ artifact = 0
  /\ acked = 0 /\ starts = 0 /\ crashes = 0

----------------------------------------------------------------------------
(* Control of the worker and of its recovery                              *)

\* The step succeeded: go on at q.
Goes(q) == pc' = q /\ UNCHANGED <<daemon, route, healing, boot>>

\* The step returned an error or panicked.  A running worker hands over to
\* recover_failure; a recovery gives up, at boot with the route fenced again.
Fails ==
  /\ pc' = IF healing THEN "idle" ELSE "recover"
  /\ healing' = ~healing
  /\ IF daemon = "recovering"
     THEN daemon' = "reconciling" /\ route' = "fenced" /\ boot' = "failed"
     ELSE UNCHANGED <<daemon, route, boot>>

\* The worker, or the recovery, is done and open_routes has published m.
Ends ==
  /\ pc' = "idle" /\ healing' = FALSE
  /\ daemon' = IF daemon = "recovering" THEN "reconciling" ELSE daemon
  /\ UNCHANGED boot

\* A write of the durable record: refused by the stage machine, committed, not
\* committed, or committed while its caller sees an error.
Transition(stage, patch) ==
  \/ /\ Allows(migration.stage, stage)
     /\ migration' = [k \in DOMAIN migration |->
                        IF k = "stage" THEN stage
                        ELSE IF k = patch THEN TRUE ELSE migration[k]]
  \/ UNCHANGED migration

Advance(stage, patch, q) ==
  /\ Transition(stage, patch)
  /\ \/ migration'.stage = stage /\ migration.stage # stage /\ Goes(q)
     \/ Fails

\* The pure stage moves of the two run_ functions and copy_logical_data.
Plan ==
  [preflight  |-> <<"Preflight", "preparing">>,
   preparing  |-> <<"TargetPreparing", "claim">>,
   fencing    |-> <<"SourceFencing", "drain">>,
   exporting  |-> <<"Exporting", "export">>,
   exported   |-> <<"Exported", "importing">>,
   importing  |-> <<"Importing", "import">>,
   imported   |-> <<"Imported", "validating">>,
   validating |-> <<"Validating", "validate">>,
   pending    |-> <<"CutoverPending", "commit">>,
   verifying  |-> <<"VerifyingCutover", "cleaning">>,
   cleaning   |-> <<"CleaningSource", "retire">>]

AdvanceTo ==
  /\ pc \in DOMAIN Plan
  /\ Advance(Plan[pc][1], "", Plan[pc][2])
  /\ UNCHANGED <<placement, engines, data, resv, row, other, pinned, session,
                 copying, counters>>

----------------------------------------------------------------------------
(* Requesting a migration                                                 *)

\* start: the checks of validate_source, then the durable record, then the
\* worker.  An insert whose acknowledgement is lost leaves a record without one.
Start ==
  /\ daemon = "up" /\ pc = "idle" /\ ~Active /\ route = placement
  /\ starts < MaxStarts
  /\ \E spawned \in BOOLEAN : pc' = IF spawned THEN "preflight" ELSE "idle"
  /\ migration' = [NoMigration EXCEPT !.stage = "Requested", !.source = placement]
  /\ starts' = starts + 1 /\ boot' = "over" /\ healing' = FALSE
  /\ UNCHANGED <<placement, engines, data, resv, row, other, daemon, route,
                 pinned, session, copying, acked, crashes>>

----------------------------------------------------------------------------
(* The worker                                                             *)

\* The target is charged before it exists: a reservation under the migration's
\* own id, made only when the tenant's name is free in the pool ...
ClaimShared ==
  /\ pc = "claim" /\ target = "shared"
  /\ \/ other = "none" /\ resv' = "temp" /\ (Goes("create") \/ Fails)
     \/ Fails /\ UNCHANGED resv
  /\ UNCHANGED <<migration, placement, engines, data, row, other, pinned,
                 session, copying, counters>>

\* ... or the provisional row of the dedicated engine.
ClaimDedicated ==
  /\ pc = "claim" /\ target = "dedicated"
  /\ \/ row' = TRUE /\ (Goes("create") \/ Fails)
     \/ Fails /\ UNCHANGED row
  /\ UNCHANGED <<migration, placement, engines, data, resv, other, pinned,
                 session, copying, counters>>

\* apply_limits, disk preparation and tenant creation; or launch and attest.
\* The limits error path gives the reservation back before it returns.
CreateTarget ==
  /\ pc = "create"
  /\ \/ /\ engines' = engines \cup {target}
        /\ data' = [data EXCEPT ![target] = 0]
        /\ Goes("prepared") \/ Fails
        /\ UNCHANGED resv
     \/ /\ Fails
        /\ target = "shared" /\ resv' = "none"
        /\ UNCHANGED <<engines, data>>
     \/ Fails /\ UNCHANGED <<engines, data, resv>>
  /\ UNCHANGED <<migration, placement, row, other, pinned, session, copying,
                 counters>>

TargetPrepared ==
  /\ pc = "prepared"
  /\ Advance("TargetPrepared", "target_runtime", "fencing")
  /\ UNCHANGED <<placement, engines, data, resv, row, other, pinned, session,
                 copying, counters>>

\* fence_and_wait: the fence first, then the wait for the sessions to end.
FenceSource ==
  /\ pc = "drain"
  /\ pc' = "draining" /\ route' = "fenced"
  /\ UNCHANGED <<durable, daemon, pinned, session, healing, boot, copying,
                 counters>>

\* The wait without its deadline.
MutDrainForever ==
  /\ pc = "draining"
  /\ session = "none"
  /\ Goes("fenced") \/ Fails
  /\ UNCHANGED <<durable, pinned, session, copying, counters>>

DrainSource ==
  /\ pc = "draining"
  /\ (session = "none" /\ Goes("fenced")) \/ Fails
  /\ UNCHANGED <<durable, pinned, session, copying, counters>>

SourceFenced ==
  /\ pc = "fenced"
  /\ Advance("SourceFenced", "source_fenced", "measure")
  /\ UNCHANGED <<placement, engines, data, resv, row, other, pinned, session,
                 copying, counters>>

\* A manifest timeout moves the record to RollingBack before the error returns.
TimesOut ==
  Transition("RollingBack", "") /\ Fails

MeasureSource ==
  /\ pc = "measure"
  /\ \/ manifest' = data[source] /\ Goes("exporting") /\ UNCHANGED migration
     \/ UNCHANGED manifest /\ TimesOut
  /\ UNCHANGED <<placement, engines, data, resv, row, other, pinned, session,
                 artifact, counters>>

\* The export, and the second manifest that must equal the first.
Export ==
  /\ pc = "export"
  /\ artifact' = data[source]
  /\ (data[source] = manifest /\ Goes("exported")) \/ Fails
  /\ UNCHANGED <<durable, pinned, session, manifest, counters>>

\* A logical import may lose rows, whether or not it reports an error.
Import ==
  /\ pc = "import"
  /\ \E n \in 0..artifact : data' = [data EXCEPT ![target] = n]
  /\ Goes("imported") \/ Fails
  /\ UNCHANGED <<migration, placement, engines, resv, row, other, pinned,
                 session, copying, counters>>

MutValidateTarget ==
  /\ pc = "validate"
  /\ \/ Goes("pending") /\ UNCHANGED migration
     \/ TimesOut
  /\ UNCHANGED <<placement, engines, data, resv, row, other, pinned, session,
                 copying, counters>>

\* validate_target and compare_manifests, then the adopted password's check.
ValidateTarget ==
  /\ pc = "validate"
  /\ \/ data[target] = manifest /\ Goes("pending") /\ UNCHANGED migration
     \/ TimesOut
  /\ UNCHANGED <<placement, engines, data, resv, row, other, pinned, session,
                 copying, counters>>

\* One transaction: the metadata row, the reservation's owner and the record,
\* from a record that is ready.  Its acknowledgement may be lost.
Commits(from, to) ==
  \/ /\ migration.stage = "CutoverPending"
     /\ migration.target_runtime /\ migration.source_fenced
     /\ placement = source /\ resv = from
     /\ migration' = [migration EXCEPT !.stage = "CutoverCommitted",
                                       !.cutover_committed = TRUE]
     /\ placement' = target
     /\ resv' = to
     /\ Goes("verify") \/ Fails
  \/ Fails /\ UNCHANGED <<migration, placement, resv>>

\* The provisional reservation becomes the instance's.
CommitDedicatedToShared ==
  /\ pc = "commit" /\ target = "shared"
  /\ Commits("temp", "instance")
  /\ UNCHANGED <<engines, data, row, other, pinned, session, copying, counters>>

\* The cutover that gives the instance's reservation up at once.
MutCommitReleasesSource ==
  /\ pc = "commit" /\ target = "dedicated"
  /\ Commits("instance", "none")
  /\ UNCHANGED <<engines, data, row, other, pinned, session, copying, counters>>

\* The instance's reservation is kept under the migration's id.
CommitSharedToDedicated ==
  /\ pc = "commit" /\ target = "dedicated"
  /\ Commits("instance", "temp")
  /\ UNCHANGED <<engines, data, row, other, pinned, session, copying, counters>>

VerifyCutover ==
  /\ pc = "verify"
  /\ Goes("open") \/ Fails
  /\ UNCHANGED <<durable, pinned, session, copying, counters>>

\* instances.upsert(final_metadata): clears a plain fence, never a pinned one.
OpenTarget ==
  /\ pc = "open"
  /\ pc' = "verifying"
  /\ route' = IF pinned THEN "fenced" ELSE target
  /\ UNCHANGED <<durable, daemon, pinned, session, healing, boot, copying,
                 counters>>

----------------------------------------------------------------------------
(* Retiring the source, by the worker or by forward recovery              *)

\* DROP of the tenant's name in the pool takes whatever tenant carries it.
Dropped(mode) ==
  /\ engines' = engines \ {mode}
  /\ data' = [data EXCEPT ![mode] = 0]
  /\ other' = IF mode = "shared" /\ other = "attached" THEN "lost" ELSE other

RetireDedicatedSource ==
  /\ pc = "retire" /\ source = "dedicated"
  /\ \/ Dropped(source) /\ (Goes("forget") \/ Fails)
     \/ Fails /\ UNCHANGED <<engines, data, other>>
  /\ UNCHANGED <<migration, placement, resv, row, pinned, session, copying,
                 counters>>

RetireSharedSource ==
  /\ pc = "retire" /\ source = "shared"
  /\ \/ Dropped(source) /\ (Goes("release") \/ Fails)
     \/ Fails /\ UNCHANGED <<engines, data, other>>
  /\ UNCHANGED <<migration, placement, resv, row, pinned, session, copying,
                 counters>>

\* release of the migration-owned id only: an instance's claim is not touched.
ReleaseTemp(r) == IF r = "temp" THEN "none" ELSE r

MutReleaseSource ==
  /\ pc = "release"
  /\ resv' = resv /\ Goes("limits")
  /\ UNCHANGED <<migration, placement, engines, data, row, other, pinned,
                 session, copying, counters>>

ReleaseSource ==
  /\ pc = "release"
  /\ \/ resv' = ReleaseTemp(resv) /\ (Goes("limits") \/ Fails)
     \/ Fails /\ UNCHANGED resv
  /\ UNCHANGED <<migration, placement, engines, data, row, other, pinned,
                 session, copying, counters>>

ReapplySourceLimits ==
  /\ pc = "limits"
  /\ Goes("complete") \/ Fails
  /\ UNCHANGED <<durable, pinned, session, copying, counters>>

\* delete_compatibility, then the row that forward recovery looks for.
ForgetSource ==
  /\ pc = "forget"
  /\ \/ row' = FALSE /\ (Goes("complete") \/ Fails)
     \/ Fails /\ UNCHANGED row
  /\ UNCHANGED <<migration, placement, engines, data, resv, other, pinned,
                 session, copying, counters>>

Complete ==
  /\ pc = "complete"
  /\ Transition("Completed", "")
  /\ \/ /\ migration'.stage = "Completed"
        /\ IF healing THEN Goes("reopenTarget") ELSE Ends /\ UNCHANGED route
     \/ Fails
  /\ UNCHANGED <<placement, engines, data, resv, row, other, pinned, session,
                 copying, counters>>

----------------------------------------------------------------------------
(* recover_failure and the two recoveries                                 *)

\* It reads the record again, so an acknowledgement the worker lost decides.
RecoverFailure ==
  LET crossed == migration.cutover_committed \/ CrossedCutover(migration.stage)
      early   == migration.stage \in {"Requested", "Preflight"}
      to      == IF crossed THEN "CleanupPending" ELSE "RollingBack"
      at      == IF crossed THEN "verifyTarget" ELSE "rollback"
  IN
  /\ pc = "recover"
  /\ \/ /\ ~early /\ migration.stage = to /\ Goes(at) /\ UNCHANGED migration
     \/ /\ ~early /\ migration.stage # to
        /\ Transition(to, "")
        /\ (migration'.stage = to /\ Goes(at)) \/ Fails
     \/ /\ early
        /\ Transition("Failed", "")
        /\ pc' = "idle" /\ healing' = FALSE /\ UNCHANGED <<daemon, route, boot>>
     \/ Fails /\ UNCHANGED migration
  /\ UNCHANGED <<placement, engines, data, resv, row, other, pinned, session,
                 copying, counters>>

\* The tenant is dropped when a reservation under the migration's id names its
\* pool, or the record does.
RollbackSharedTarget ==
  /\ pc = "rollback" /\ target = "shared"
  /\ \/ /\ resv # "temp" /\ ~migration.target_runtime
        /\ Goes("rollbackSource") /\ UNCHANGED <<engines, data, other>>
     \/ /\ resv = "temp" \/ migration.target_runtime
        /\ Dropped(target) /\ (Goes("rollbackRelease") \/ Fails)
     \/ Fails /\ UNCHANGED <<engines, data, other>>
  /\ UNCHANGED <<migration, placement, resv, row, pinned, session, copying,
                 counters>>

\* A dedicated container is deleted outright.
RollbackDedicatedTarget ==
  /\ pc = "rollback" /\ target = "dedicated"
  /\ \/ Dropped(target) /\ (Goes("rollbackForget") \/ Fails)
     \/ Fails /\ UNCHANGED <<engines, data, other>>
  /\ UNCHANGED <<migration, placement, resv, row, pinned, session, copying,
                 counters>>

RollbackRelease ==
  /\ pc = "rollbackRelease"
  /\ \/ resv' = ReleaseTemp(resv) /\ (Goes("rollbackLimits") \/ Fails)
     \/ Fails /\ UNCHANGED resv
  /\ UNCHANGED <<migration, placement, engines, data, row, other, pinned,
                 session, copying, counters>>

RollbackLimits ==
  /\ pc = "rollbackLimits"
  /\ Goes("rollbackSource") \/ Fails
  /\ UNCHANGED <<durable, pinned, session, copying, counters>>

RollbackForget ==
  /\ pc = "rollbackForget"
  /\ \/ row' = FALSE /\ (Goes("rollbackSource") \/ Fails)
     \/ Fails /\ UNCHANGED row
  /\ UNCHANGED <<migration, placement, engines, data, resv, other, pinned,
                 session, copying, counters>>

\* The source is reloaded, made ready, unfenced and checked with its password.
RollbackSource ==
  /\ pc = "rollbackSource"
  /\ Goes("fail") \/ Fails
  /\ UNCHANGED <<durable, pinned, session, copying, counters>>

FailMigration ==
  /\ pc = "fail"
  /\ Advance("Failed", "", "reopenSource")
  /\ UNCHANGED <<placement, engines, data, resv, row, other, pinned, session,
                 copying, counters>>

\* open_routes: lifts a fence and a pin.
ReopenSource ==
  /\ pc = "reopenSource"
  /\ Ends /\ route' = placement /\ pinned' = FALSE
  /\ UNCHANGED <<durable, session, copying, counters>>

\* The committed target must answer with the tenant's password before the
\* source is touched; one that does not is left to the operator.
VerifyTarget ==
  /\ pc = "verifyTarget"
  /\ Goes("forward") \/ Goes("manual") \/ Fails
  /\ UNCHANGED <<durable, pinned, session, copying, counters>>

LeaveToOperator ==
  /\ pc = "manual"
  /\ Transition("ManualIntervention", "") /\ Fails
  /\ UNCHANGED <<placement, engines, data, resv, row, other, pinned, session,
                 copying, counters>>

\* A dedicated source whose row is gone has been retired already.
ForwardCleanup ==
  /\ pc = "forward"
  /\ Advance("CleaningSource", "",
             IF source = "dedicated" /\ ~row THEN "complete" ELSE "retire")
  /\ UNCHANGED <<placement, engines, data, resv, row, other, pinned, session,
                 copying, counters>>

MutReopenTarget ==
  /\ pc = "reopenTarget"
  /\ Ends /\ route' = source /\ pinned' = FALSE
  /\ UNCHANGED <<durable, session, copying, counters>>

ReopenTarget ==
  /\ pc = "reopenTarget"
  /\ Ends /\ route' = placement /\ pinned' = FALSE
  /\ UNCHANGED <<durable, session, copying, counters>>

----------------------------------------------------------------------------
(* Crash and boot                                                         *)

Crash ==
  /\ daemon # "down" /\ crashes < MaxCrashes
  /\ crashes' = crashes + 1
  /\ daemon' = "down" /\ route' = "fenced" /\ pinned' = FALSE /\ session' = "none"
  /\ pc' = "idle" /\ healing' = FALSE /\ boot' = "clean"
  /\ UNCHANGED <<durable, copying, acked, starts>>

\* recover_unfinished classifies the record before the metadata is loaded.
RecoverUnfinished ==
  /\ daemon = "down"
  /\ migration' = [migration EXCEPT !.stage = RecoveryStage(migration.stage)]
  /\ daemon' = "loaded" /\ route' = placement
  /\ UNCHANGED <<placement, engines, data, resv, row, other, pinned, session, pc,
                 healing, boot, copying, counters>>

RecoverOnBoot ==
  /\ daemon = "loaded"
  /\ route' = IF Active THEN "fenced" ELSE route
  /\ \/ /\ migration.stage \in {"RollingBack", "CleanupPending"}
        /\ daemon' = "recovering" /\ healing' = TRUE
        /\ pc' = IF migration.stage = "RollingBack" THEN "rollback"
                                                    ELSE "verifyTarget"
     \/ /\ migration.stage \notin {"RollingBack", "CleanupPending"}
        /\ daemon' = "reconciling" /\ UNCHANGED <<pc, healing>>
  /\ UNCHANGED <<durable, pinned, session, boot, copying, counters>>

\* Later boot passes refresh metadata, which may clear a plain fence.
Reconcile ==
  /\ daemon = "reconciling"
  /\ route' \in {route, placement}
  /\ daemon' = "publishing"
  /\ UNCHANGED <<durable, pinned, session, pc, healing, boot, copying, counters>>

MutPublish ==
  /\ daemon = "publishing"
  /\ daemon' = "up"
  /\ UNCHANGED <<durable, route, pinned, session, pc, healing, boot, copying,
                 counters>>

\* The routes of active records are pinned before the gateways listen.
Publish ==
  /\ daemon = "publishing"
  /\ pinned' = Active
  /\ route' = IF Active THEN "fenced" ELSE route
  /\ daemon' = "up"
  /\ UNCHANGED <<durable, session, pc, healing, boot, copying, counters>>

----------------------------------------------------------------------------
(* Clients, and the other instance                                        *)

Connect ==
  /\ daemon = "up" /\ route # "fenced" /\ session = "none"
  /\ session' = route
  /\ UNCHANGED <<durable, daemon, route, pinned, pc, healing, boot, copying,
                 counters>>

ClientWrite ==
  /\ session \in engines /\ acked < MaxWrites
  /\ data' = [data EXCEPT ![session] = @ + 1]
  /\ acked' = acked + 1
  /\ UNCHANGED <<migration, placement, engines, resv, row, other, daemon, route,
                 pinned, session, pc, healing, boot, copying, starts, crashes>>

Disconnect ==
  /\ session # "none"
  /\ session' = "none"
  /\ UNCHANGED <<durable, daemon, route, pinned, pc, healing, boot, copying,
                 counters>>

\* check_tenant_identity looks at metadata and reservations, under the pool's
\* lock, which a worker holds once it has claimed and a recovery takes again.
CreateOther ==
  /\ daemon = "up" /\ other = "none"
  /\ pc \in {"idle", "preflight", "preparing", "claim", "recover"}
  /\ resv = "none" /\ placement # "shared"
  /\ other' = "attached"
  /\ UNCHANGED <<migration, placement, engines, data, resv, row, daemon, route,
                 pinned, session, pc, healing, boot, copying, counters>>

Worker ==
  \/ AdvanceTo \/ ClaimShared \/ ClaimDedicated \/ CreateTarget \/ TargetPrepared \/ FenceSource
  \/ DrainSource \/ SourceFenced \/ MeasureSource \/ Export \/ Import
  \/ ValidateTarget \/ CommitDedicatedToShared
  \/ CommitSharedToDedicated \/ VerifyCutover \/ OpenTarget
  \/ RetireDedicatedSource \/ RetireSharedSource \/ ReleaseSource \/ ReapplySourceLimits \/ ForgetSource
  \/ Complete \/ RecoverFailure \/ RollbackSharedTarget
  \/ RollbackDedicatedTarget \/ RollbackRelease
  \/ RollbackLimits \/ RollbackForget \/ RollbackSource \/ FailMigration
  \/ ReopenSource \/ VerifyTarget \/ LeaveToOperator \/ ForwardCleanup
  \/ ReopenTarget

Boot == RecoverUnfinished \/ RecoverOnBoot \/ Reconcile \/ Publish

Next ==
  \/ Start \/ Worker \/ Crash \/ Boot
  \/ Connect \/ ClientWrite \/ Disconnect \/ CreateOther

Spec == Init /\ [][Next]_vars

\* The worker and the boot are tasks of the daemon's own runtime whose engine
\* calls all carry deadlines; nothing is assumed of clients or of operators.
FairSpec == Spec /\ WF_vars(Worker) /\ WF_vars(Boot)

----------------------------------------------------------------------------
(* Properties                                                             *)

\* The values each variable takes.
TypeOK ==
  /\ migration \in [stage : MigrationStage, source : Modes,
                    target_runtime : BOOLEAN, source_fenced : BOOLEAN,
                    cutover_committed : BOOLEAN]
  /\ placement \in Modes /\ engines \subseteq Modes
  /\ data \in [Modes -> 0..MaxWrites]
  /\ resv \in {"none", "temp", "instance"} /\ row \in BOOLEAN
  /\ other \in {"none", "attached", "lost"}
  /\ daemon \in {"down", "loaded", "recovering", "reconciling", "publishing", "up"}
  /\ route \in Modes \cup {"fenced"} /\ session \in Modes \cup {"none"}
  /\ pinned \in BOOLEAN /\ healing \in BOOLEAN
  /\ boot \in {"clean", "failed", "over"}
  /\ pc \in {"idle"} \cup RunSteps \cup RecoverySteps
  /\ manifest \in 0..MaxWrites /\ artifact \in 0..MaxWrites
  /\ acked \in 0..MaxWrites /\ starts \in 0..MaxStarts
  /\ crashes \in 0..MaxCrashes

\* Whatever fails or crashes, the engine the durable metadata names exists and
\* holds every write a client was acknowledged: the copy is validated under the
\* fence, the cutover is one transaction, and the source is retired only after
\* it (run_dedicated_to_shared, run_shared_to_dedicated, recover_failure).
AuthoritativeCopyComplete ==
  placement \in engines /\ data[placement] = acked

\* The in-memory route is fenced or names the engine the durable metadata
\* names, and so does every client session: no client reads a provisional
\* target or a superseded source.
RoutesFollowMetadata ==
  /\ route # "fenced" => route = placement
  /\ session # "none" => session = placement

\* When a record is terminal nothing of the losing side is left: no engine
\* object, no reservation under the migration's id, no engine row, and the
\* capacity of the winning side is charged to the instance.
TerminalLeavesNothing ==
  ~Active =>
    /\ engines = {placement}
    /\ resv = IF placement = "shared" THEN "instance" ELSE "none"
    /\ row = (placement = "dedicated")

\* A boot whose recovery met no failure leaves no migration half done: each is
\* terminal or waits for the operator.
BootSettles ==
  daemon = "up" /\ boot = "clean" /\ Active =>
    migration.stage = "ManualIntervention"

\* A record a boot could not finish keeps its route closed until another boot:
\* later refreshes of the metadata do not reopen it (fence_active_routes_on_boot).
UnfinishedStaysFenced ==
  daemon = "up" /\ boot # "over" /\ Active => route = "fenced" /\ session = "none"

\* As long as the instance's tenant exists in the pool, as a provisional target,
\* as the instance's own or as a source still to be dropped, somebody holds the
\* reservation that charges its capacity and keeps its name from a second tenant,
\* whichever step fails and wherever the daemon dies (prepare_shared_target,
\* retire_shared_source, rollback_prepared_target; commit.rs keeps "the source
\* capacity reserved until its tenant is dropped").
TenantStaysReserved == "shared" \in engines => resv # "none"

\* A tenant another instance reserved and created is never dropped by a
\* migration: the name is reserved until its tenant is dropped.
OtherTenantKept == other # "lost"

\* The worker and its recovery end, so the locks, the exclusive admission and
\* the mutation permit they hold are given back.
WorkerEnds == pc # "idle" ~> pc = "idle"

=============================================================================
