----------------------------- MODULE ImportJobs -----------------------------
(***************************************************************************)
(* Import jobs on one instance, from the request to the terminal status,   *)
(* with the upload they consume, the rollback that protects the target,    *)
(* daemon crashes and the recovery done at boot and by the upload sweeper. *)
(*                                                                         *)
(* Sources: subsystems/import_export/jobs/ (queue, claim, supervise, save),*)
(* subsystems/import_export/logical/ (fence, snapshot, manifest, apply,    *)
(* roll back), subsystems/import_export/upload_recovery.rs and the boot    *)
(* sequence of daemon/lifecycle.rs.                                        *)
(*                                                                         *)
(* A storage write that may fail has three outcomes: acknowledged, applied *)
(* with the acknowledgement lost, and not applied.  Faulty names the       *)
(* writes that may fail.                                                   *)
(***************************************************************************)
EXTENDS Naturals, FiniteSets

CONSTANTS Jobs, UploadJobs,   \* UploadJobs import the one temporary upload
          Shared,             \* the target is a tenant of a shared pool
          Faulty,             \* the storage writes that may fail
          MaxCrashes, MaxPanics,
          None

ASSUME ImportJobsAssumption ==
  /\ UploadJobs \subseteq Jobs /\ None \notin Jobs
  /\ Shared \in BOOLEAN
  /\ Faulty \subseteq {"insert", "claim", "close", "begin", "save", "finish", "quarantine",
                       "manifest", "recover"}
  /\ MaxCrashes \in Nat /\ MaxPanics \in Nat

VARIABLES
  \* durable
  job,          \* status of the row; "interrupted" is Failed with INTERRUPTED_JOB_ERROR,
                \* "workerFailed" Failed with worker_failure_uncertain_import
  upload,       \* the upload row: state and claimed_job_id
  data,         \* what the database holds: "orig", a job's dump, or "partial"
  rollback,     \* per job, the rollback dump on disk
  manifest,     \* per job, whether its recovery manifest is on disk
  quarDurable,  \* the instance row says Quarantined
  \* volatile
  quarMem,      \* the in-memory metadata says Quarantined
  fenced,       \* the gateway route is fenced
  lock,         \* holder of the instance lock
  pc, outcome,  \* what each job's supervisor does, and the outcome it has to record
  accepting,    \* ImportExportJobs::accepting
  daemon,       \* boot stage, or "up"
  interrupted,  \* interrupted_running_import_instances, read at boot
  sweep,        \* the upload sweeper
  crashes, panics,
  \* history
  mutated,      \* jobs whose dump was applied and not rolled back
  cut           \* jobs that were running when a crash hit

durable == <<job, upload, data, rollback, manifest, quarDurable>>
boot == <<accepting, daemon, interrupted>>
counts == <<crashes, panics>>
vars == <<durable, quarMem, fenced, lock, pc, outcome, boot, sweep, counts, mutated, cut>>

Statuses == {"absent", "queued", "running", "succeeded", "failed", "workerFailed", "interrupted"}

Unfinished == {"queued", "running"}

\* Steps of the worker task: a panic in one of them ends in recover_import_worker.
WorkerSteps == {"target", "fence", "snapshot", "manifest", "setupFailed", "apply", "applying",
                "commit", "restore", "fenceAgain", "rollback", "rollbackCommit",
                "rollbackRestore", "quarantine"}

Steps == WorkerSteps \cup
         {"idle", "insert", "readback", "claim", "close", "closeUncertain", "releaseUncertain",
          "lock", "setup", "begin", "save", "release", "consume", "block", "quarantineLast",
          "over"}

BootStages == {"down", "identified", "failedJobs", "quarantined", "manifests", "cleaned", "up"}

TypeOK ==
  /\ job \in [Jobs -> Statuses]
  /\ upload \in [state : {"ready", "importing", "consumed", "failed", "deleting"},
                 claim : Jobs \cup {None}]
  /\ (upload.claim # None) <=> (upload.state \in {"importing", "consumed"})
  /\ data \in Jobs \cup {"orig", "partial"}
  /\ rollback \in [Jobs -> Jobs \cup {"orig", "partial", None}]
  /\ manifest \in [Jobs -> BOOLEAN]
  /\ quarDurable \in BOOLEAN /\ quarMem \in BOOLEAN /\ fenced \in BOOLEAN
  /\ lock \in Jobs \cup {None, "sweeper"}
  /\ pc \in [Jobs -> Steps]
  /\ outcome \in [Jobs -> {"none", "ok", "err", "unstarted", "panic"}]
  /\ accepting \in BOOLEAN /\ daemon \in BootStages /\ interrupted \in BOOLEAN
  /\ sweep \in [step : {"idle", "lock", "read", "write"}, claim : Jobs \cup {None},
                to : {"none", "ready", "failed", "consumed"}]
  /\ crashes \in 0..MaxCrashes /\ panics \in 0..MaxPanics
  /\ mutated \subseteq Jobs /\ cut \subseteq Jobs

NoSweep == [step |-> "idle", claim |-> None, to |-> "none"]

Init ==
  /\ job = [j \in Jobs |-> "absent"]
  /\ upload = [state |-> "ready", claim |-> None]
  /\ data = "orig"
  /\ rollback = [j \in Jobs |-> None] /\ manifest = [j \in Jobs |-> FALSE]
  /\ quarDurable = FALSE /\ quarMem = FALSE /\ fenced = FALSE
  /\ lock = None
  /\ pc = [j \in Jobs |-> "idle"] /\ outcome = [j \in Jobs |-> "none"]
  /\ accepting = TRUE /\ daemon = "up" /\ interrupted = FALSE
  /\ sweep = NoSweep
  /\ crashes = 0 /\ panics = 0 /\ mutated = {} /\ cut = {}

-----------------------------------------------------------------------------
Outcomes(write) == IF write \in Faulty THEN {"ok", "lost", "failed"} ELSE {"ok"}

Written(o) == o # "failed"

MutGotoKeepsLock(j, step) ==
  /\ pc' = [pc EXCEPT ![j] = step]
  /\ lock' = IF step = "over" /\ lock = j /\ outcome[j] # "err" THEN None ELSE lock

\* The next step of j's supervisor; its guard of the instance lock is dropped
\* with the supervisor.
Goto(j, step) ==
  /\ pc' = [pc EXCEPT ![j] = step]
  /\ lock' = IF step = "over" /\ lock = j THEN None ELSE lock

SetJob(j, o, status) == job' = IF Written(o) THEN [job EXCEPT ![j] = status] ELSE job

\* release_failed_claim, mark_consumed and reconcile_interrupted all update the
\* row only while it is importing under this claim.
Settled(j, to) ==
  IF upload.state = "importing" /\ upload.claim = j
  THEN [state |-> to, claim |-> IF to = "consumed" THEN j ELSE None]
  ELSE upload

MutSettleKeepsClaim(j, o, to) ==
  upload' = IF Written(o) /\ upload.claim = j THEN [upload EXCEPT !.state = to] ELSE upload

SettleUpload(j, o, to) == upload' = IF Written(o) THEN Settled(j, to) ELSE upload

\* Everything but the job row, the upload row and the supervisor's own step.
KeepTarget == UNCHANGED <<data, rollback, manifest, quarDurable, quarMem, fenced, mutated>>
KeepRest == UNCHANGED <<boot, sweep, counts, cut>>

-----------------------------------------------------------------------------
(* Queueing, jobs/mod.rs: the upload is checked before the row is written,  *)
(* and claimed only afterwards, without the instance lock.                  *)

QueueImport(j) ==
  /\ daemon = "up" /\ pc[j] = "idle"
  /\ j \in UploadJobs => upload.state = "ready"
  /\ Goto(j, "insert")
  /\ UNCHANGED <<job, upload, outcome>> /\ KeepTarget /\ KeepRest

AfterInsert(j) == IF j \in UploadJobs THEN "claim" ELSE "lock"

EnqueueJob(j) ==
  /\ pc[j] = "insert"
  /\ IF accepting
     THEN \E o \in Outcomes("insert") :
            /\ SetJob(j, o, "queued")
            /\ Goto(j, IF o = "ok" THEN AfterInsert(j) ELSE "readback")
     ELSE Goto(j, "over") /\ UNCHANGED job
  /\ UNCHANGED <<upload, outcome>> /\ KeepTarget /\ KeepRest

\* A failed read is retried while the daemon accepts jobs; after that the row,
\* if it is there, is left to the next boot.
RecoverUncertainEnqueue(j) ==
  /\ pc[j] = "readback"
  /\ \/ Goto(j, IF job[j] = "queued" THEN AfterInsert(j) ELSE "over")
     \/ ~accepting /\ "insert" \in Faulty /\ Goto(j, "over")
  /\ UNCHANGED <<job, upload, outcome>> /\ KeepTarget /\ KeepRest

\* A row that is no longer ready, or has expired since it was checked, is not claimed.
ClaimUploadForJob(j) ==
  /\ pc[j] = "claim"
  /\ LET claimed == [state |-> "importing", claim |-> j] IN
     \/ /\ upload.state = "ready"
        /\ \E o \in Outcomes("claim") :
             /\ upload' = IF Written(o) THEN claimed ELSE upload
             /\ Goto(j, IF o = "ok" THEN "lock" ELSE "closeUncertain")
        /\ UNCHANGED <<outcome, panics>>
     \/ /\ Goto(j, "close")
        /\ UNCHANGED <<upload, outcome, panics>>
     \/ /\ panics < MaxPanics /\ panics' = panics + 1
        /\ upload' \in {upload} \cup (IF upload.state = "ready" THEN {claimed} ELSE {})
        /\ outcome' = [outcome EXCEPT ![j] = "unstarted"]
        /\ Goto(j, "save")
  /\ UNCHANGED <<job, crashes, boot, sweep, cut>> /\ KeepTarget

\* close_unclaimed_upload_job makes one attempt.
CloseUnclaimedUploadJob(j) ==
  /\ pc[j] \in {"close", "closeUncertain"}
  /\ \E o \in Outcomes("close") : SetJob(j, o, "failed")
  /\ Goto(j, IF pc[j] = "close" THEN "over" ELSE "releaseUncertain")
  /\ UNCHANGED <<upload, outcome>> /\ KeepTarget /\ KeepRest

ReleaseUncertainClaim(j) ==
  /\ pc[j] = "releaseUncertain"
  /\ \E o \in Outcomes("claim") : SettleUpload(j, o, "ready")
  /\ Goto(j, "over")
  /\ UNCHANGED <<job, outcome>> /\ KeepTarget /\ KeepRest

-----------------------------------------------------------------------------
(* Supervision, jobs/supervision.rs.                                        *)

LockInstance(j) ==
  /\ pc[j] = "lock" /\ lock = None
  /\ lock' = j /\ pc' = [pc EXCEPT ![j] = "setup"]
  /\ UNCHANGED <<job, upload, outcome>> /\ KeepTarget /\ KeepRest

\* The instance may be gone, the job too large, or staging refused; a closed
\* scheduler goes on to begin_import_export_job, which sees the shutdown.
Setup(j) ==
  /\ pc[j] = "setup"
  /\ \/ Goto(j, "begin") /\ UNCHANGED outcome
     \/ Goto(j, "save") /\ outcome' = [outcome EXCEPT ![j] = "unstarted"]
  /\ UNCHANGED <<job, upload>> /\ KeepTarget /\ KeepRest

BeginImportExportJob(j) ==
  /\ pc[j] = "begin"
  /\ IF accepting
     THEN \E o \in Outcomes("begin") :
            /\ SetJob(j, o, "running")
            /\ Goto(j, IF o = "ok" THEN "target" ELSE "begin")
            /\ UNCHANGED outcome
     ELSE /\ Goto(j, "save")
          /\ outcome' = [outcome EXCEPT ![j] = "unstarted"]
          /\ UNCHANGED job
  /\ UNCHANGED upload /\ KeepTarget /\ KeepRest

RecordedStatus(j) ==
  CASE outcome[j] = "ok" -> "succeeded"
    [] outcome[j] = "panic" -> "workerFailed"
    [] OTHER -> "failed"

MutAfterSave(j, persisted) ==
  LET step == CASE outcome[j] = "ok" /\ persisted -> "consume"
                [] outcome[j] # "ok" /\ persisted -> "release"
                [] OTHER -> "block"
  IN IF j \in UploadJobs THEN step
     ELSE IF step = "block" /\ outcome[j] # "unstarted" THEN "quarantineLast" ELSE "over"

\* What follows the terminal status, persisted or not.
AfterSave(j, persisted) ==
  LET step == CASE outcome[j] = "ok" /\ persisted -> "consume"
                [] outcome[j] \in {"err", "unstarted"} /\ persisted -> "release"
                [] OTHER -> "block"
  IN IF j \in UploadJobs THEN step
     ELSE IF step = "block" /\ outcome[j] # "unstarted" THEN "quarantineLast" ELSE "over"

\* save_terminal_job_status: retried for ever while the daemon accepts jobs, a
\* few times once it shuts down.
SaveTerminalJobStatus(j) ==
  /\ pc[j] = "save"
  /\ \E o \in Outcomes("save") :
       /\ SetJob(j, o, RecordedStatus(j))
       /\ \/ Goto(j, IF o = "ok" THEN AfterSave(j, TRUE) ELSE "save")
          \/ o # "ok" /\ ~accepting /\ Goto(j, AfterSave(j, FALSE))
  /\ UNCHANGED <<upload, outcome>> /\ KeepTarget /\ KeepRest

\* finish_upload_import_job and block_uncertain_upload: one attempt each.
FinishUpload(j) ==
  /\ pc[j] \in {"release", "consume", "block"}
  /\ \E o \in Outcomes("finish") :
       SettleUpload(j, o, CASE pc[j] = "release" -> "ready"
                            [] pc[j] = "consume" -> "consumed"
                            [] pc[j] = "block" -> "failed")
  /\ Goto(j, IF pc[j] = "block" /\ outcome[j] # "unstarted" THEN "quarantineLast" ELSE "over")
  /\ UNCHANGED <<job, outcome>> /\ KeepTarget /\ KeepRest

\* quarantine_uncertain_import: memory first, then the row; a shared tenant's
\* route is fenced again.
QuarantineUncertainImport(j) ==
  /\ pc[j] \in {"quarantine", "quarantineLast"}
  /\ quarMem' = TRUE /\ fenced' = Shared
  /\ \E o \in Outcomes("quarantine") : quarDurable' = (Written(o) \/ quarDurable)
  /\ IF pc[j] = "quarantine"
     THEN Goto(j, "save") /\ outcome' = [outcome EXCEPT ![j] = "err"]
     ELSE Goto(j, "over") /\ UNCHANGED outcome
  /\ UNCHANGED <<job, upload, data, rollback, manifest, mutated>> /\ KeepRest

\* The worker task dies; its supervisor runs recover_import_worker.
WorkerPanics(j) ==
  /\ \/ pc[j] \in WorkerSteps
     \/ pc[j] \in {"save", "release", "consume", "block", "quarantineLast"}
        /\ outcome[j] \in {"ok", "err"}
  /\ panics < MaxPanics /\ panics' = panics + 1
  /\ outcome' = [outcome EXCEPT ![j] = "panic"]
  /\ Goto(j, "save")
  /\ UNCHANGED <<job, upload, crashes, boot, sweep, cut>> /\ KeepTarget

-----------------------------------------------------------------------------
(* The import itself, logical/batch.rs and logical/target.rs.               *)

Fails(j) == Goto(j, "save") /\ outcome' = [outcome EXCEPT ![j] = "err"]

Quarantines(j) == Goto(j, "quarantine") /\ UNCHANGED outcome

Continues(j, step) == Goto(j, step) /\ UNCHANGED outcome

WorkerStep(j) == UNCHANGED <<job, upload, quarDurable, quarMem>> /\ KeepRest

\* lock_job_target and the preparation of the dump: nothing is changed yet.
LockJobTarget(j) ==
  /\ pc[j] = "target"
  /\ \/ ~quarMem /\ Continues(j, "fence")
     \/ Fails(j)
  /\ UNCHANGED <<data, rollback, manifest, fenced, mutated>> /\ WorkerStep(j)

\* fence_import_target, before the snapshot and again before a rollback.
FenceImportTarget(j) ==
  /\ pc[j] \in {"fence", "fenceAgain"}
  /\ fenced' = TRUE
  /\ \/ Continues(j, IF pc[j] = "fence" THEN "snapshot" ELSE "rollback")
     \/ Quarantines(j)
  /\ UNCHANGED <<data, rollback, manifest, mutated>> /\ WorkerStep(j)

\* The rollback dump, its rehearsal and the staging checks.
TakeRollbackSnapshot(j) ==
  /\ pc[j] = "snapshot"
  /\ \/ Continues(j, "manifest") /\ rollback' = [rollback EXCEPT ![j] = data]
     \/ Continues(j, "setupFailed") /\ UNCHANGED rollback
  /\ UNCHANGED <<data, manifest, fenced, mutated>> /\ WorkerStep(j)

WriteLogicalRecoveryManifest(j) ==
  /\ pc[j] = "manifest"
  /\ \E o \in Outcomes("manifest") :
       /\ manifest' = [manifest EXCEPT ![j] = Written(o)]
       /\ rollback' = IF o = "ok" THEN rollback ELSE [rollback EXCEPT ![j] = None]
       /\ Continues(j, IF o = "ok" THEN "apply" ELSE "setupFailed")
  /\ UNCHANGED <<data, fenced, mutated>> /\ WorkerStep(j)

\* restore_import_target_route can fail only for a shared tenant.
FailQuiescedSetup(j) ==
  /\ pc[j] = "setupFailed"
  /\ \/ Fails(j) /\ fenced' = FALSE
     \/ Shared /\ Quarantines(j) /\ UNCHANGED fenced
  /\ UNCHANGED <<data, rollback, manifest, mutated>> /\ WorkerStep(j)

StartApply(j) ==
  /\ pc[j] = "apply"
  /\ data' = "partial"
  /\ Continues(j, "applying")
  /\ UNCHANGED <<rollback, manifest, fenced, mutated>> /\ WorkerStep(j)

\* apply_prepared_logical_imports: done; failed; or the fate of the restore
\* command is unknown and the dump may have been applied.
EndApply(j) ==
  /\ pc[j] = "applying"
  /\ \/ data' = j /\ mutated' = mutated \cup {j} /\ Continues(j, "commit")
     \/ Continues(j, "fenceAgain") /\ UNCHANGED <<data, mutated>>
     \/ /\ Quarantines(j)
        /\ \/ data' = j /\ mutated' = mutated \cup {j}
           \/ UNCHANGED <<data, mutated>>
  /\ UNCHANGED <<rollback, manifest, fenced>> /\ WorkerStep(j)

\* commit_recovery_manifest after the import or after its rollback.
CommitRecoveryManifest(j) ==
  /\ pc[j] \in {"commit", "rollbackCommit"}
  /\ \E o \in Outcomes("manifest") :
       /\ manifest' = [manifest EXCEPT ![j] = ~Written(o)]
       /\ IF o = "ok" THEN Continues(j, IF pc[j] = "commit" THEN "restore" ELSE "rollbackRestore")
                      ELSE Quarantines(j)
  /\ UNCHANGED <<data, rollback, fenced, mutated>> /\ WorkerStep(j)

MutRestoreReportsSuccess(j) ==
  /\ pc[j] \in {"restore", "rollbackRestore"}
  /\ \/ /\ fenced' = FALSE
        /\ rollback' = [rollback EXCEPT ![j] = None]
        /\ outcome' = [outcome EXCEPT ![j] = "ok"] /\ Goto(j, "save")
     \/ Shared /\ Quarantines(j) /\ UNCHANGED <<rollback, fenced>>
  /\ UNCHANGED <<data, manifest, mutated>> /\ WorkerStep(j)

MutRestoreFailureNotQuarantined(j) ==
  /\ pc[j] \in {"restore", "rollbackRestore"}
  /\ \/ /\ fenced' = FALSE
        /\ rollback' = [rollback EXCEPT ![j] = None]
        /\ IF pc[j] = "restore"
           THEN outcome' = [outcome EXCEPT ![j] = "ok"] /\ Goto(j, "save")
           ELSE Fails(j)
     \/ Shared /\ Fails(j) /\ UNCHANGED <<rollback, fenced>>
  /\ UNCHANGED <<data, manifest, mutated>> /\ WorkerStep(j)

\* restore_import_target_route, then the rollback dump is dropped.
RestoreRoute(j) ==
  /\ pc[j] \in {"restore", "rollbackRestore"}
  /\ \/ /\ fenced' = FALSE
        /\ rollback' = [rollback EXCEPT ![j] = None]
        /\ IF pc[j] = "restore"
           THEN outcome' = [outcome EXCEPT ![j] = "ok"] /\ Goto(j, "save")
           ELSE Fails(j)
     \/ Shared /\ Quarantines(j) /\ UNCHANGED <<rollback, fenced>>
  /\ UNCHANGED <<data, manifest, mutated>> /\ WorkerStep(j)

RollBack(j) ==
  /\ pc[j] = "rollback"
  /\ \/ data' = rollback[j] /\ Continues(j, "rollbackCommit")
     \/ UNCHANGED data /\ Quarantines(j)
  /\ UNCHANGED <<rollback, manifest, fenced, mutated>> /\ WorkerStep(j)

-----------------------------------------------------------------------------
(* Shutdown, crash and boot, daemon/lifecycle.rs.                           *)

CloseAdmission ==
  /\ daemon = "up" /\ accepting
  /\ accepting' = FALSE
  /\ UNCHANGED <<durable, quarMem, fenced, lock, pc, outcome, daemon, interrupted, sweep, counts,
                 mutated, cut>>

\* The process ends, at any moment of its life or of its boot.
Crash ==
  /\ daemon # "down" /\ crashes < MaxCrashes
  /\ crashes' = crashes + 1
  /\ daemon' = "down"
  /\ cut' = cut \cup {j \in Jobs : job[j] = "running"}
  /\ pc' = [j \in Jobs |-> IF pc[j] = "idle" THEN "idle" ELSE "over"]
  /\ outcome' = [j \in Jobs |-> "none"]
  /\ quarMem' = FALSE /\ fenced' = FALSE /\ lock' = None /\ sweep' = NoSweep
  /\ interrupted' = FALSE /\ accepting' = FALSE
  /\ UNCHANGED <<durable, panics, mutated>>

Booting(from, to) ==
  /\ daemon = from /\ daemon' = to
  /\ UNCHANGED <<data, manifest, fenced, lock, pc, outcome, sweep, counts, mutated, cut>>

RunningImportIds ==
  /\ Booting("down", "identified")
  /\ interrupted' = (\E j \in Jobs : job[j] = "running")
  /\ UNCHANGED <<job, upload, rollback, quarDurable, quarMem, accepting>>

FailUnfinished ==
  /\ Booting("identified", "failedJobs")
  /\ job' = [j \in Jobs |-> IF job[j] \in Unfinished THEN "interrupted" ELSE job[j]]
  /\ UNCHANGED <<upload, rollback, quarDurable, quarMem, interrupted, accepting>>

\* load_from_storage and quarantine_interrupted_jobs.
QuarantineInterruptedJobs ==
  /\ Booting("failedJobs", "quarantined")
  /\ quarDurable' = (quarDurable \/ interrupted) /\ quarMem' = quarDurable'
  /\ UNCHANGED <<job, upload, rollback, interrupted, accepting>>

MutQuarantineImportManifests ==
  /\ Booting("quarantined", "manifests")
  /\ UNCHANGED <<job, upload, rollback, quarDurable, quarMem, interrupted, accepting>>

QuarantineImportManifests ==
  /\ Booting("quarantined", "manifests")
  /\ quarDurable' = (quarDurable \/ \E j \in Jobs : manifest[j]) /\ quarMem' = quarDurable'
  /\ UNCHANGED <<job, upload, rollback, interrupted, accepting>>

MutCleanupOrphanedStaging ==
  /\ Booting("manifests", "cleaned")
  /\ rollback' = [j \in Jobs |-> None]
  /\ UNCHANGED <<job, upload, quarDurable, quarMem, interrupted, accepting>>

CleanupOrphanedStaging ==
  /\ Booting("manifests", "cleaned")
  /\ rollback' = [j \in Jobs |-> IF manifest[j] THEN rollback[j] ELSE None]
  /\ UNCHANGED <<job, upload, quarDurable, quarMem, interrupted, accepting>>

MutInterruptedImportAction(j) ==
  CASE job[j] = "succeeded" -> "consumed"
    [] job[j] \in {"failed", "workerFailed", "interrupted"} /\ ~quarMem -> "ready"
    [] OTHER -> "failed"

\* interrupted_import_action, as the state the upload goes to.
InterruptedImportAction(j) ==
  CASE job[j] = "succeeded" -> "consumed"
    [] job[j] \in {"failed", "workerFailed"} /\ ~quarMem -> "ready"
    [] OTHER -> "failed"

\* reconcile_import_uploads, after which the gateway and the API start.
ReconcileImportUploads ==
  /\ Booting("cleaned", "up")
  /\ IF upload.state = "importing"
     THEN \E o \in Outcomes("recover") :
            SettleUpload(upload.claim, o, InterruptedImportAction(upload.claim))
     ELSE UNCHANGED upload
  /\ accepting' = TRUE
  /\ UNCHANGED <<job, rollback, quarDurable, quarMem, interrupted>>

-----------------------------------------------------------------------------
(* The sweeper, upload_recovery.rs: it looks for an active job before it    *)
(* takes the instance lock, and decides again with the lock held.           *)

MutImportStillInProgress(j) == ~quarMem /\ job[j] \in Unfinished \cup {"succeeded"}

ImportStillInProgress(j) == ~quarMem /\ job[j] \in Unfinished

SweepProbe ==
  /\ daemon = "up" /\ sweep.step = "idle"
  /\ upload.state = "importing" /\ ~ImportStillInProgress(upload.claim)
  /\ sweep' = [sweep EXCEPT !.step = "lock"]
  /\ UNCHANGED <<durable, quarMem, fenced, lock, pc, outcome, boot, counts, mutated, cut>>

SweepLock ==
  /\ sweep.step = "lock" /\ lock = None
  /\ lock' = "sweeper" /\ sweep' = [sweep EXCEPT !.step = "read"]
  /\ UNCHANGED <<durable, quarMem, fenced, pc, outcome, boot, counts, mutated, cut>>

RecoverOne ==
  /\ sweep.step = "read"
  /\ IF upload.state = "importing"
     THEN /\ sweep' = [step |-> "write", claim |-> upload.claim,
                       to |-> InterruptedImportAction(upload.claim)]
          /\ UNCHANGED lock
     ELSE sweep' = NoSweep /\ lock' = None
  /\ UNCHANGED <<durable, quarMem, fenced, pc, outcome, boot, counts, mutated, cut>>

RecoverImporting(o) ==
  /\ sweep.step = "write" /\ o \in Outcomes("recover")
  /\ SettleUpload(sweep.claim, o, sweep.to)
  /\ sweep' = NoSweep /\ lock' = None
  /\ UNCHANGED <<job, data, rollback, manifest, quarDurable, quarMem, fenced, pc, outcome, boot,
                 counts, mutated, cut>>

\* delete_import_upload and the expiry sweep, both under the instance lock.
DeleteImportUpload ==
  /\ daemon = "up" /\ lock = None
  /\ upload.state \in {"ready", "failed", "consumed"}
  /\ upload' = [state |-> "deleting", claim |-> None]
  /\ UNCHANGED <<job, data, rollback, manifest, quarDurable, quarMem, fenced, lock, pc, outcome,
                 boot, sweep, counts, mutated, cut>>

\* prune_completed drops the rows of old completed jobs.
PruneCompleted(j) ==
  /\ daemon = "up" /\ pc[j] = "over"
  /\ job[j] \in Statuses \ (Unfinished \cup {"absent"})
  /\ job' = [job EXCEPT ![j] = "absent"]
  /\ UNCHANGED <<upload, data, rollback, manifest, quarDurable, quarMem, fenced, lock, pc, outcome,
                 boot, sweep, counts, mutated, cut>>

-----------------------------------------------------------------------------
\* The steps of j's supervisor and worker, except taking the lock.
Supervise(j) ==
  \/ EnqueueJob(j) \/ RecoverUncertainEnqueue(j) \/ ClaimUploadForJob(j)
  \/ CloseUnclaimedUploadJob(j) \/ ReleaseUncertainClaim(j)
  \/ Setup(j) \/ BeginImportExportJob(j) \/ SaveTerminalJobStatus(j) \/ FinishUpload(j)
  \/ QuarantineUncertainImport(j)
  \/ LockJobTarget(j) \/ FenceImportTarget(j) \/ TakeRollbackSnapshot(j)
  \/ WriteLogicalRecoveryManifest(j) \/ FailQuiescedSetup(j) \/ StartApply(j) \/ EndApply(j)
  \/ CommitRecoveryManifest(j) \/ RestoreRoute(j) \/ RollBack(j)

Boot ==
  \/ RunningImportIds \/ FailUnfinished \/ QuarantineInterruptedJobs
  \/ QuarantineImportManifests \/ CleanupOrphanedStaging \/ ReconcileImportUploads

Sweep == SweepProbe \/ RecoverOne \/ \E o \in Outcomes("recover") : RecoverImporting(o)

Next ==
  \/ \E j \in Jobs : QueueImport(j) \/ Supervise(j) \/ LockInstance(j) \/ WorkerPanics(j)
                     \/ PruneCompleted(j)
  \/ CloseAdmission \/ Crash \/ Boot
  \/ Sweep \/ SweepLock \/ DeleteImportUpload

Spec == Init /\ [][Next]_vars

\* Tasks keep running, the instance lock is a fair queue, and a write that is
\* retried for ever succeeds in the end.
Fairness ==
  /\ \A j \in Jobs : WF_vars(Supervise(j)) /\ SF_vars(LockInstance(j))
  /\ WF_vars(Boot) /\ WF_vars(Sweep) /\ SF_vars(SweepLock) /\ SF_vars(RecoverImporting("ok"))

FairSpec == Spec /\ Fairness

-----------------------------------------------------------------------------
RouteOpen == daemon = "up" /\ ~quarMem /\ ~fenced

\* Clients never reach a half-imported database: whatever step fails and
\* wherever the daemon dies, the route opens only on data that is complete
\* (logical/batch.rs, quarantine_import_manifests).
NoPartialServed == RouteOpen => data # "partial"

\* While the database is half imported, a complete rollback dump and the
\* manifest that protects it from staging cleanup are both on disk.
RollbackKept ==
  data = "partial" => \E j \in Jobs : manifest[j] /\ rollback[j] \notin {None, "partial"}

\* A job is reported Succeeded only if its dump is in the database and its
\* recovery manifest has been committed.
SucceededMeansApplied == \A j \in Jobs : job[j] = "succeeded" => j \in mutated /\ ~manifest[j]

\* How a job that did not succeed reports its end.
FailedRows == {"failed", "workerFailed", "interrupted"}

\* A job that reports a failure and whose target is not quarantined in the
\* database does not leave the idle instance half imported, and applied
\* nothing -- but for two windows.  recover_import_worker saves its report before
\* it quarantines: a crash in between leaves an applied import unquarantined.
\* quarantine_interrupted_jobs runs after fail_unfinished: a crash in between, the
\* second one of this import, hides the interrupted job from the next boot.
\* (Assumes that the quarantine row can be written.)
FailedMeansUntouched ==
  \A j \in Jobs :
    daemon = "up" /\ pc[j] = "over" /\ job[j] \in FailedRows /\ ~quarDurable =>
      /\ ~(data = "partial" /\ lock = None)
      /\ j \in mutated => \/ job[j] = "workerFailed" /\ crashes >= 1
                          \/ job[j] = "interrupted" /\ crashes >= 2

\* One upload changes the database at most once: "the import outcome is uncertain
\* after a daemon restart; this upload is blocked to prevent a duplicate mutation"
\* (UNCERTAIN_IMPORT_REASON, interrupted_import_action).
NoDuplicateMutation == Cardinality(mutated \cap UploadJobs) <= 1

\* Crashes alone, at any steps, never let one upload change the database twice,
\* and neither do panics of the import worker alone: it takes a panic and a crash
\* (recover_import_worker, interrupted_import_action).
UploadAppliedOnce == panics = 0 \/ crashes = 0 => NoDuplicateMutation

\* A target whose import was running when the daemon died is quarantined before
\* the gateway starts (quarantine_interrupted_jobs).
InterruptedImportQuarantined == daemon = "up" /\ cut # {} => quarMem

\* A job that reports that its worker stopped and that "the target was
\* quarantined" has a quarantined target once its supervisor is done, in a
\* daemon that did not crash (recover_import_worker saves the report first).
WorkerFailureQuarantined ==
  \A j \in Jobs : crashes = 0 /\ pc[j] = "over" /\ job[j] = "workerFailed" => quarMem

\* Every import that was queued reaches its end, and lets the instance go.
ImportsEnd == \A j \in Jobs : pc[j] # "idle" ~> pc[j] = "over" /\ lock # j

\* A claimed upload is settled in the end: consumed, blocked or ready again,
\* by its job or by the sweeper, unless the daemon shuts down or dies first.
UploadSettles == upload.state = "importing" ~> upload.state # "importing" \/ ~accepting
=============================================================================
