------------------------------ MODULE PoolBoot ------------------------------
(***************************************************************************)
(* What moves the pool itself: its power operations (subsystems/pools), the*)
(* events and snapshots of its container, and the stages of the daemon's boot*)
(* that concern it (daemon): the limits, the claims that a crash left behind,*)
(* the interrupted deletions, the reconciliation, the recovery of a dead pool,*)
(* the autostart, and the opening of the gateways.                         *)
(***************************************************************************)
EXTENDS PoolTenants

-----------------------------------------------------------------------------
(* Starting, restarting and stopping the pool.                               *)

\* PoolGuard::acquire and power_operation_blocked
PoolGuard == /\ Accepted
             /\ \A t \in Reserved : res[t].st = "provisioned" /\ mem[t] # NoRow
             /\ pool.st \notin {"Quarantined", "Deleting"}

StartPoolRequest(restart) ==
  /\ PoolGuard
  /\ restart \/ pool # [st |-> "Running", want |-> "Running"]
  /\ op' = [Idle EXCEPT !.kind = "pool", !.pc = "activate", !.flag = restart]
  /\ halted' = FALSE
  /\ NoFault /\ UNCHANGED <<durable, memory, engine, boot, deaf, crashes>>

\* stop_locked that does not persist the intent before the pool is stopped, nor
\* with its new status.
MutStopForgetsIntent(kill) ==
  /\ PoolGuard
  /\ FenceRuntime
  /\ op' = [Idle EXCEPT !.kind = "pool", !.pc = "stopping", !.rt = pool, !.flag = kill]
  /\ NoFault /\ UNCHANGED <<durable, engine, halted, boot, deaf, crashes>>

StopPoolRequest(kill) ==
  /\ PoolGuard
  /\ FenceRuntime
  /\ op' = [Idle EXCEPT !.kind = "pool", !.pc = "save", !.ret = <<"stopping">>,
                        !.flag = kill, !.rt = [st |-> pool.st, want |-> "Stopped"]]
  /\ NoFault /\ UNCHANGED <<durable, engine, halted, boot, deaf, crashes>>

\* docker kill, or docker stop.
Downed == \/ ~op.flag /\ Stops
          \/ op.flag /\ box # "up" /\ NoFault /\ UNCHANGED <<box, events>>
          \/ /\ op.flag /\ box = "up" /\ NoFault
             /\ box' = "failed" /\ events' = Emit(events, <<"exit1">>)

StopLocked ==
  /\ At("stopping")
  /\ \/ op.ok # "ok" /\ op' = Idle /\ NoFault /\ UNCHANGED <<box, events>>
     \/ /\ op.ok = "ok" /\ Downed
        /\ op' = [Call("save", "stopped") EXCEPT
                    !.rt = [st |-> "Stopped", want |-> op.rt.want]]
     \/ op.ok = "ok" /\ StopUnconfirmed /\ op' = To("contain")
  /\ UNCHANGED <<durable, memory, acc, quota, halted, boot, deaf, tally>>

EndStop ==
  /\ At("stopped") /\ op' = Idle
  /\ halted' = (halted \/ op.ok = "ok")
  /\ NoFault /\ UNCHANGED <<durable, memory, engine, boot, deaf, tally>>

-----------------------------------------------------------------------------
(* Container events.                                                         *)

\* The engine exits on its own.  That is not an error of any call, but before
\* the daemon listens to events it may go unnoticed.
ContainerExits ==
  /\ box = "up" /\ Left /\ faults < MaxFaults /\ faults' = faults + 1
  /\ clean' = (clean /\ Served)
  /\ box' = "failed" /\ events' = Emit(events, <<"exit1">>)
  /\ UNCHANGED <<durable, memory, op, acc, quota, rest>>

\* A deactivation closes the routes before anything that can fail.
HandleEvent ==
  /\ Served /\ op = Idle /\ events # <<>>
  /\ LET e == Head(events)
         handle(p) == [Idle EXCEPT !.kind = "event", !.pc = p,
                                   !.flag = (e = "start"), !.up = (e = "exit1")]
     IN /\ \/ NoFault /\ op' = handle(IF pool.st = "Quarantined" THEN "contain"
                                      ELSE IF StopRequested THEN "honor" ELSE "inspect")
           \/ Fault /\ op' = Idle
        /\ IF e = "start" THEN UNCHANGED memory ELSE FenceRuntime
  /\ events' = Tail(events)
  /\ UNCHANGED <<durable, acc, quota, box, rest>>

\* An activation is fenced, awaited and attested; a failing exit keeps the pool
\* down whatever the container does now; anything else is recorded.
InspectEvent ==
  /\ At("inspect")
  /\ IF op.flag THEN FenceRuntime ELSE UNCHANGED memory
  /\ LET failed == op.up /\ pool.st \in {"Booting", "Running", "Failed"} IN
     \/ /\ NoFault
        /\ op' = IF (op.flag /\ box # "up") \/ failed THEN To("keepDown")
                 ELSE [Call("save", "eventSaved") EXCEPT
                         !.rt = [pool EXCEPT !.st = Classified]]
     \/ Fault /\ \E p \in {"keepDown", "contain"} : op' = To(p)
  /\ UNCHANGED <<durable, engine, rest>>

EventSaved ==
  /\ At("eventSaved")
  /\ op' = IF op.ok = "ok" /\ op.flag /\ op.rt.st = "Running" THEN To("tenants") ELSE Idle
  /\ NoFault /\ UNCHANGED <<durable, memory, engine, rest>>

\* The event stream is lost.  The tasks under way are awaited, a snapshot is
\* reconciled (reconcile_snapshot_runtime), and after a delay the stream is
\* opened again: what happens in between is reported to nobody.
LoseStream ==
  /\ Served /\ deaf = "open" /\ Fault /\ deaf' = "lost"
  /\ UNCHANGED <<durable, memory, engine, op, boot, halted, tally>>

Resubscribe ==
  /\ Served /\ deaf = "seen" /\ op.kind # "event" /\ deaf' = "open"
  /\ NoFault /\ UNCHANGED <<durable, memory, engine, op, boot, halted, tally>>

Snapshot ==
  /\ Served /\ op = Idle /\ deaf = "lost" /\ events = <<>> /\ deaf' = "seen"
  /\ NoFault
  /\ LET handle(p) == [Idle EXCEPT !.kind = "event", !.pc = p, !.flag = TRUE]
         lost == pool.st \in {"Running", "Booting"}
     IN \/ StopRequested /\ op' = handle("honor") /\ UNCHANGED memory
        \/ pool.st = "Quarantined" /\ op' = handle("contain") /\ UNCHANGED memory
        \/ /\ ~StopRequested /\ pool.st # "Quarantined"
           /\ IF box = "up" THEN op' = handle("inspect") /\ UNCHANGED memory
              ELSE /\ FenceRuntime
                   /\ op' = IF lost THEN handle("keepDown")
                            ELSE [handle("save") EXCEPT !.rt = [pool EXCEPT !.st = Classified]]
  /\ UNCHANGED <<durable, engine, boot, halted, tally>>

-----------------------------------------------------------------------------
(* Boot.                                                                     *)

Stages == <<"limits", "orphans", "deleting", "limits2", "reconcile", "recover",
            "start", "deleting2", "tenants", "listen">>
NextStage == Stages[1 + CHOOSE i \in 1..(Len(Stages) - 1) : Stages[i] = boot]

\* The daemon ends, by an error of its boot or by a crash.
Down == /\ boot' = "off" /\ op' = Idle /\ events' = <<>> /\ deaf' = "open"
        /\ mem' = [t \in Tenants |-> NoRow] /\ fenced' = {}

Load ==
  /\ boot = "off" /\ boot' = "limits"
  /\ mem' = row /\ fenced' = {} /\ clean' = TRUE
  /\ UNCHANGED <<durable, engine, op, deaf, halted, faults, tally>>

\* A stage that ends here, and one that runs steps and ends at `r'.
Pass      == boot' = NextStage /\ UNCHANGED <<op, memory, events, deaf>>
Run(p, r) == op' = [Idle EXCEPT !.kind = "boot", !.pc = p, !.ret = <<r>>,
                                !.rt = pool, !.flag = (pool.st = "Failed")]
Staying   == UNCHANGED <<boot, memory, events, deaf>>

EndStage ==
  /\ \/ /\ At("advance") /\ op.ok # "failed"
        /\ boot' = NextStage /\ op' = Idle /\ UNCHANGED <<memory, events, deaf>>
     \/ At("advance") /\ op.ok = "failed" /\ Down
     \/ At("onward") /\ boot' = NextStage /\ op' = Idle /\ UNCHANGED <<memory, events, deaf>>
     \/ /\ At("published") /\ op' = Idle /\ UNCHANGED <<memory, events, deaf>>
        /\ boot' = IF op.ok = "failed" THEN "closed" ELSE "listen"
  /\ NoFault /\ UNCHANGED <<durable, acc, quota, box, halted, tally>>

\* restore_shared_limits, before and after the resumed deletions.  The pool is
\* stopped when its mount is not healthy or its root has to be adopted.
RestoreLimits ==
  /\ boot \in {"limits", "limits2"} /\ op = Idle
  /\ \/ NoFault /\ Run("save", "advance")
     \/ Fault /\ Run("contain", "advance")
  /\ box' \in {box} \cup (IF box = "up" THEN {"exited"} ELSE {})
  /\ Staying /\ UNCHANGED <<durable, acc, quota, halted, tally>>

\* recover_orphan_reservations: a reservation that no instance is attached to.
Orphans == {t \in Reserved : row[t] = NoRow}

\* Only the claims that were not marked provisioned are looked at.
MutRecoverUnmarkedOnly ==
  /\ boot = "orphans" /\ op = Idle
  /\ LET unmarked == {t \in Orphans : res[t].st = "reserved"} IN
     IF unmarked = {} THEN Pass
     ELSE /\ op' = [Idle EXCEPT !.kind = "boot", !.pc = "orphan",
                                !.ret = <<"advance">>, !.todo = unmarked]
          /\ Staying
  /\ NoFault /\ UNCHANGED <<durable, acc, quota, box, halted, tally>>

RecoverOrphans ==
  /\ boot = "orphans" /\ op = Idle
  /\ IF Orphans = {} THEN Pass
     ELSE /\ op' = [Idle EXCEPT !.kind = "boot", !.pc = "orphan",
                                !.ret = <<"advance">>, !.todo = Orphans]
          /\ Staying
  /\ NoFault /\ UNCHANGED <<durable, acc, quota, box, halted, tally>>

NextOrphan(o) == IF o.todo = {} THEN [o EXCEPT !.pc = "advance", !.ret = <<>>, !.ok = "ok"]
                 ELSE [o EXCEPT !.pc = "orphan"]

CleanupOrphan ==
  /\ At("orphan")
  /\ \E t \in op.todo :
       LET o == [op EXCEPT !.t = t, !.todo = @ \ {t}]
           kept == [o EXCEPT !.pc = "contain", !.ret = <<"orphanKept">> \o @]
       IN \/ /\ Works(box = "up")
             /\ acc' = [acc EXCEPT ![t] = "none"] /\ quota' = [quota EXCEPT ![t] = 0]
             /\ op' = [o EXCEPT !.pc = "orphanRelease"]
          \/ /\ Breaks(box = "up") /\ op' = kept
             /\ \/ UNCHANGED <<acc, quota>>
                \/ box = "up" /\ acc' = [acc EXCEPT ![t] = "none"] /\ UNCHANGED quota
  /\ UNCHANGED <<durable, memory, box, events, rest>>

ReleaseOrphan ==
  /\ At("orphanRelease")
  /\ \/ \E w \in {"ok", "lost"} :
          /\ Writes(w) /\ res' = [res EXCEPT ![op.t] = NoRes] /\ op' = NextOrphan(op)
     \/ /\ Fault /\ res' \in {res, [res EXCEPT ![op.t] = NoRes]}
        /\ op' = Call("contain", "orphanKept")
  /\ UNCHANGED <<pool, row, memory, engine, rest>>

OrphanKept ==
  /\ At("orphanKept")
  /\ op' = IF op.ok = "ok" THEN NextOrphan(op) ELSE Back("failed")
  /\ NoFault /\ UNCHANGED <<durable, memory, engine, rest>>

\* recover_deleting, before the limits and again once the pools are started.
RecoverDeleting ==
  /\ boot \in {"deleting", "deleting2"} /\ op = Idle
  /\ LET deleting == {t \in Loaded : mem[t].st = "Deleting"} IN
     IF deleting = {} THEN Pass
     ELSE /\ op' = [Idle EXCEPT !.kind = "boot", !.pc = "resume", !.todo = deleting]
          /\ Staying
  /\ NoFault /\ UNCHANGED <<durable, acc, quota, box, halted, tally>>

ResumeDeletion ==
  /\ At("resume")
  /\ IF op.todo = {} THEN op' = To("onward")
     ELSE \E t \in op.todo :
            op' = IF mem[t].st = "Deleting"
                  THEN [Call("drain", "resume") EXCEPT !.t = t, !.todo = @ \ {t}]
                  ELSE [op EXCEPT !.todo = @ \ {t}]
  /\ NoFault /\ UNCHANGED <<durable, memory, engine, rest>>

\* reconcile_one_runtime that believes the recorded status.
MutReconcileBelievesRow ==
  /\ boot = "reconcile" /\ op = Idle
  /\ IF pool.st = "Quarantined" THEN Run("contain", "advance")
     ELSE IF StopRequested THEN Run("honor", "advance") ELSE Run("save", "advance")
  /\ NoFault /\ Staying /\ UNCHANGED <<durable, acc, quota, box, halted, tally>>

\* reconcile_one_runtime: an inspection that fails, or finds the pool's isolation
\* changed, is a fault.
ReconcileRuntime ==
  /\ boot = "reconcile" /\ op = Idle
  /\ LET save(st) == op' = [Idle EXCEPT !.kind = "boot", !.pc = "save",
                              !.ret = <<"advance">>, !.rt = [pool EXCEPT !.st = st]]
     IN \/ pool.st = "Quarantined" /\ NoFault /\ Run("contain", "advance")
        \/ StopRequested /\ NoFault /\ Run("honor", "advance")
        \/ /\ pool.st # "Quarantined" /\ ~StopRequested
           /\ \/ NoFault /\ save(Classified)
              \/ Fault /\ (save("Failed") \/ Run("contain", "advance"))
  /\ Staying /\ UNCHANGED <<durable, acc, quota, box, halted, tally>>

\* recover_dead_pools: one validated attempt to bring back a pool that failed
\* or was quarantined.
CheckTenant(t, status) ==
  /\ Attachable(t, row[t])
  /\ \/ row[t].st \in {"Stopped", "Quarantined"} /\ row[t].want = "Stopped"
     \/ status = "Failed" /\ row[t].st \in {"Failed", "Stopped"}

Preflight ==
  /\ pool.st = "Failed" \/ pool.want = "Running"
  /\ Loaded = Reserved
  /\ \A t \in Reserved : CheckTenant(t, pool.st)
  /\ box # "up"

\* recover_dead_pools that gives the boot up when a pool cannot be recovered.
MutRecoverOrGiveUp ==
  /\ boot = "recover" /\ op = Idle /\ NoFault
  /\ IF pool.st \in {"Failed", "Quarantined"} THEN Down ELSE Pass
  /\ UNCHANGED <<durable, acc, quota, box, halted, tally>>

RecoverPool ==
  /\ boot = "recover" /\ op = Idle
  /\ \/ pool.st \notin {"Failed", "Quarantined"} /\ NoFault /\ Pass /\ UNCHANGED pool
     \/ /\ pool.st = "Quarantined" /\ Breaks(Preflight) /\ Pass /\ UNCHANGED pool
     \/ /\ pool.st = "Failed"
        /\ \/ /\ Breaks(Preflight) /\ Pass
              /\ pool' = [pool EXCEPT !.want = "Stopped"]
           \/ /\ ~Preflight /\ Fault /\ Down
              /\ pool' \in {pool, [pool EXCEPT !.want = "Stopped"]}
     \/ /\ pool.st = "Quarantined" /\ Works(Preflight)
        /\ FenceRuntime /\ Run("recoverStart", "advance") /\ UNCHANGED <<pool, boot, events, deaf>>
     \/ /\ pool.st = "Failed" /\ Works(Preflight)
        /\ op' = [Idle EXCEPT !.kind = "boot", !.pc = "activate", !.ret = <<"retried">>]
        /\ UNCHANGED pool /\ Staying
  /\ UNCHANGED <<res, row, acc, quota, box, halted, tally>>

\* recover_locked: the row stays Quarantined until everything is verified.
StartQuarantined ==
  /\ At("recoverStart")
  /\ \/ NoFault /\ Starts /\ op' = To("recoverAttest")
     \/ Fault /\ UNCHANGED <<box, events>> /\ op' = To("contain")
  /\ UNCHANGED <<durable, memory, acc, quota, rest>>

AttestQuarantined ==
  /\ At("recoverAttest")
  /\ \/ /\ Works(box = "up")
        /\ op' = [Call("tenants", "recoverChecked") EXCEPT
                    !.rt = [pool EXCEPT !.st = "Running"]]
     \/ Breaks(box = "up") /\ op' = To("contain")
  /\ UNCHANGED <<durable, memory, engine, rest>>

CheckRecovered ==
  /\ At("recoverChecked")
  /\ op' = IF op.ok = "ok" /\ ~op.bad
           THEN [op EXCEPT !.pc = "recoverPublish", !.todo = Reserved] ELSE To("contain")
  /\ NoFault /\ UNCHANGED <<durable, memory, engine, rest>>

PublishRecovery ==
  /\ At("recoverPublish")
  /\ \/ \E t \in op.todo :
          LET m == [row[t] EXCEPT !.st = "Stopped", !.want = "Stopped"] IN
          /\ \/ /\ CheckTenant(t, "Running")
                /\ \E w \in {"ok", "lost", "failed"} :
                     /\ Manage(t, m, "fenced", w)
                     /\ op' = IF w = "ok" THEN [op EXCEPT !.todo = @ \ {t}] ELSE To("contain")
             \/ /\ ~CheckTenant(t, "Running") /\ op' = To("contain")
                /\ NoFault /\ UNCHANGED <<row, memory>>
          /\ UNCHANGED pool
     \/ /\ op.todo = {} /\ UNCHANGED <<row, memory>>
        /\ \E w \in {"ok", "lost", "failed"} :
             /\ Writes(w)
             /\ pool' = IF Committed(w) THEN op.rt ELSE pool
             /\ op' = IF w = "ok" THEN Back("ok") ELSE To("contain")
  /\ UNCHANGED <<res, engine, rest>>

\* stop_failed_retry: the boot goes on only over a pool that is safely down.
EndRetry ==
  /\ At("retried")
  /\ \/ op.ok = "ok" /\ op' = [op EXCEPT !.pc = "advance"] /\ NoFault /\ UNCHANGED <<box, events>>
     \/ /\ op.ok # "ok" /\ Stops
        /\ LET safe == pool.st = "Quarantined" \/ pool = [st |-> "Failed", want |-> "Stopped"]
           IN op' = [op EXCEPT !.pc = "advance", !.ok = IF safe THEN "ok" ELSE "failed"]
     \/ op.ok # "ok" /\ StopUnconfirmed /\ op' = [op EXCEPT !.pc = "advance", !.ok = "failed"]
  /\ UNCHANGED <<durable, memory, acc, quota, rest>>

\* start_shared_runtimes: shared_boot_action
StartRuntimes ==
  /\ boot = "start" /\ op = Idle
  /\ IF pool.want = "Running" /\ pool.st \in {"Stopped", "Booting", "Failed"}
       THEN /\ \/ NoFault /\ Run("activate", "onward")
               \/ Fault /\ Run("keepDown", "onward")
            /\ Staying
       ELSE NoFault /\ Pass
  /\ UNCHANGED <<durable, acc, quota, box, halted, tally>>

\* reconcile_shared_tenants, the last step before the gateways listen.
OpenGateways ==
  /\ boot = "tenants" /\ op = Idle
  /\ IF pool = [st |-> "Running", want |-> "Running"]
       THEN Run("tenants", "published") /\ Staying
       ELSE Pass
  /\ NoFault /\ UNCHANGED <<durable, acc, quota, box, halted, tally>>

\* The daemon is killed, or the host goes down and the container with it.
Crash ==
  /\ boot # "off" /\ Left /\ crashes < MaxCrashes /\ crashes' = crashes + 1
  /\ Down
  /\ box' \in IF box = "up" THEN {"up", "exited", "failed"} ELSE {box}
  /\ UNCHANGED <<durable, acc, quota, clean, halted, ops, faults>>
=============================================================================
