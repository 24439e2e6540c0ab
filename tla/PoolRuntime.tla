---------------------------- MODULE PoolRuntime -----------------------------
(***************************************************************************)
(* The state of one shared engine pool and of the tenants in it, and the   *)
(* procedures that every operation on the pool is made of (server/placement):*)
(* saving its status with the status that implies for its tenants, its     *)
(* containment and its failure policy, its activation, and the reconciliation*)
(* of its tenants' accounts and routes.                                    *)
(*                                                                         *)
(* Every operation holds the pool's operation lock, so one `op' is in      *)
(* progress at a time; its `pc' is the next step and `ret' the steps to come*)
(* back to.  The pool has hard tenant quotas (a PostgreSQL tablespace per  *)
(* tenant).  A step that talks to the engine, to Docker or to SQLite may fail*)
(* at the price of one fault; a failed SQLite write may have been committed,*)
(* and may leave the store unreadable.                                     *)
(***************************************************************************)
EXTENDS Integers, FiniteSets, FiniteSetsExt, Sequences

CONSTANTS Tenants,      \* instance ids a tenant may be created under
          Sizes,        \* disk sizes a request may name
          Capacity,     \* limit_disk_mib of the pool
          MaxTenants,   \* max_tenants of the pool
          MaxOps,       \* API operations accepted
          MaxFaults,    \* external calls that fail
          MaxCrashes,   \* crashes of the daemon or the host
          MaxAll        \* operations, failures and crashes in all

VARIABLES
  \* durable
  pool,      \* the engine_runtimes row: status and desired state
  res,       \* the engine_runtime_reservations rows
  row,       \* the instance_metadata rows
  \* in memory
  mem,       \* InstanceStore: the loaded metadata
  fenced,    \* InstanceStore: the instances whose routes are fenced
  op,        \* the holder of the pool's operation lock
  boot,      \* how far the boot has come
  events,    \* container events: the one whose task waits, the newest after it
  deaf,      \* the event stream: open, lost, or lost and a snapshot reconciled
  \* the engine
  acc,       \* the tenant's database and account: none, shut or open
  quota,     \* the tenant's disk boundary
  box,       \* the pool's container: up, exited, or failed (exit code not 0)
  \* bounds and history
  clean,     \* no fault since the daemon was started
  halted,    \* the last completed pool power request was a stop
  ops, faults, crashes

durable == <<pool, res, row>>
memory  == <<mem, fenced>>
engine  == <<acc, quota, box, events>>
tally   == <<ops, crashes>>
rest    == <<boot, deaf, halted, ops, crashes>>   \* not a step's of an operation
asking  == <<boot, deaf, halted, crashes>>        \* not a tenant request's
vars == <<pool, res, row, mem, fenced, op, boot, events, deaf, acc, quota, box,
          clean, halted, ops, faults, crashes>>

-----------------------------------------------------------------------------
NoRow  == [st |-> "None", want |-> "Stopped", disk |-> 0]
NoRes  == [st |-> "none", disk |-> 0]

Loaded   == {t \in Tenants : mem[t] # NoRow}
Reserved == {t \in Tenants : res[t] # NoRes}
Known    == Loaded \cup Reserved
Booked   == MapThenSumSet(LAMBDA t : res[t].disk, Tenants)

RouteEligible(m) == m.st = "Running" /\ m.want = "Running"
RouteOpen(t) == RouteEligible(mem[t]) /\ t \notin fenced

\* The API and the event monitor run; the gateways listen.
Served    == boot \in {"start", "deleting2", "tenants", "listen", "closed"}
Listening == boot = "listen"

\* No operation holds the lock.
Idle == [kind |-> "idle", pc |-> "idle", ret |-> <<>>, ok |-> "ok",
         t |-> CHOOSE t \in Tenants : TRUE, was |-> NoRow, prev |-> NoRow,
         open |-> FALSE, flag |-> FALSE, up |-> FALSE, disk |-> 0,
         rt |-> [st |-> "None", want |-> "Stopped"],
         walk |-> {}, todo |-> {}, ready |-> {}, bad |-> FALSE]

At(p) == op.pc = p

\* The operation after it goes to p, after it calls p and comes back at r, and
\* after the call in progress returns v.
To(p)      == [op EXCEPT !.pc = p]
Call(p, r) == [op EXCEPT !.pc = p, !.ret = <<r>> \o @]
Back(v)    == IF op.ret = <<>> THEN Idle
              ELSE [op EXCEPT !.pc = Head(op.ret), !.ret = Tail(@), !.ok = v]

Left    == ops + faults + crashes < MaxAll
Fault   == Left /\ faults < MaxFaults /\ faults' = faults + 1 /\ clean' = FALSE
NoFault == UNCHANGED <<faults, clean>>

\* A call whose success needs `possible': it fails for nothing when that is not
\* so, and by a fault when it is.
Works(possible)  == possible /\ NoFault
Breaks(possible) == IF possible THEN Fault ELSE NoFault

\* What became of a SQLite write, and whether the daemon can find out.
Outcomes     == {"ok", "lost", "failed", "lostBlind", "failedBlind"}
Committed(w) == w \in {"ok", "lost", "lostBlind"}
Readable(w)  == w \in {"lost", "failed"}
Writes(w)    == IF w = "ok" THEN NoFault ELSE Fault

\* The trigger on instance_metadata: a shared row must match a provisioned
\* reservation exactly.
Attachable(t, m) == res[t].st = "provisioned" /\ m.disk = res[t].disk

RowWrites(t, m, w) ==
  IF Attachable(t, m) THEN Writes(w) ELSE w = "failed" /\ NoFault

\* The store as upsert, upsert_fenced and upsert_preserving_fence leave it.
Remember(t, m, how) ==
  /\ mem' = [mem EXCEPT ![t] = m]
  /\ fenced' = IF how = "open" \/ (how = "keep" /\ RouteOpen(t))
               THEN fenced \ {t} ELSE fenced \cup {t}

\* InstanceManager: the row first, the store only when the write returned.
Record(t, m, how, w) ==
  /\ row' = IF Committed(w) THEN [row EXCEPT ![t] = m] ELSE row
  /\ IF w = "ok" THEN Remember(t, m, how) ELSE UNCHANGED memory

Manage(t, m, how, w) == RowWrites(t, m, w) /\ Record(t, m, how, w)

\* InstanceManager::quarantine: the route is closed before the write.
QuarantineRow(t, m, w) ==
  LET q == [m EXCEPT !.st = "Quarantined", !.want = "Stopped"] IN
  /\ RowWrites(t, q, w)
  /\ row' = IF Committed(w) THEN [row EXCEPT ![t] = q] ELSE row
  /\ mem' = IF w = "ok" THEN [mem EXCEPT ![t] = q] ELSE mem
  /\ fenced' = IF w = "ok" \/ t \in Loaded THEN fenced \cup {t} ELSE fenced

FenceRuntime == fenced' = fenced \cup Loaded /\ UNCHANGED mem
FenceRoute   == fenced' = fenced \cup ({op.t} \cap Loaded) /\ UNCHANGED mem

\* schedule_event_reconcile that keeps every event it is sent.
MutQueueEveryEvent(q, e) == Append(q, e)

\* schedule_event_reconcile: one task per pool, and behind it the newest event.
Queue(q, e) == IF Len(q) < (IF op.kind = "event" THEN 1 ELSE 2)
               THEN Append(q, e) ELSE [q EXCEPT ![Len(q)] = e]

Emit(q, es) == IF ~Served \/ deaf # "open" THEN q
               ELSE IF Len(es) = 1 THEN Queue(q, es[1])
               ELSE Queue(Queue(q, es[1]), es[2])

\* The container stops.  Docker reports the exit, then what came of it.  An
\* engine that had to be killed exits with a failure code.
ContainerStops(after) ==
  \/ NoFault /\ box' = "exited" /\ events' = Emit(events, <<"exit0", after>>)
  \/ Fault /\ box' = "failed" /\ events' = Emit(events, <<"exit1", after>>)

\* stop_pool: graceful, then forced, then verified.  The two ways it can end.
Stops == \/ box # "up" /\ NoFault /\ UNCHANGED <<box, events>>
         \/ box = "up" /\ ContainerStops("exit0")
StopUnconfirmed ==
  /\ box = "up" /\ Fault
  /\ \/ UNCHANGED <<box, events>>
     \/ box' = "failed" /\ events' = Emit(events, <<"exit1", "exit0">>)

\* docker start, of a container that may be running.
Starts ==
  /\ box' = "up"
  /\ events' = IF box = "up" THEN events ELSE Emit(events, <<"start">>)

\* classify_runtime_status
Classified == CASE box = "up" -> "Running" [] box = "exited" -> "Stopped"
                [] box = "failed" -> "Failed"

\* The engine can act on the tenant's account.
Reachable(t) == box = "up" /\ acc[t] # "none"

-----------------------------------------------------------------------------
(* save_runtime: the pool's row, then the status it implies for each tenant. *)

TenantStatus(runtime, want, current) ==
  IF current \in {"Deleting", "Quarantined"} THEN current
  ELSE IF runtime = "Quarantined" THEN "Quarantined"
  ELSE IF want = "Stopped" THEN "Stopped"
  ELSE IF runtime \in {"Failed", "Deleting"} THEN "Failed" ELSE runtime

SaveRuntime ==
  /\ At("save")
  /\ \E w \in {"ok", "lost", "failed"} :
       /\ Writes(w)
       /\ pool' = IF Committed(w) THEN op.rt ELSE pool
       /\ op' = IF w # "ok" THEN Back("failed")
                ELSE IF Known = {} THEN Back("ok")
                ELSE [op EXCEPT !.pc = "saveTenant", !.walk = Known]
  /\ UNCHANGED <<res, row, memory, engine, rest>>

SaveTenant ==
  /\ At("saveTenant")
  /\ \E t \in op.walk :
       LET m == [row[t] EXCEPT
                   !.st = TenantStatus(op.rt.st, row[t].want, row[t].st),
                   !.want = IF op.rt.st = "Quarantined" THEN "Stopped" ELSE @]
           next == IF op.walk = {t} THEN Back("ok")
                   ELSE [op EXCEPT !.walk = @ \ {t}]
       IN \/ /\ row[t] = NoRow
             /\ op' = next /\ NoFault /\ UNCHANGED <<row, memory>>
          \/ /\ row[t] # NoRow
             /\ \E w \in {"ok", "lost", "failed"} :
                  /\ Manage(t, m, "keep", w)
                  /\ op' = IF w = "ok" THEN next ELSE Back("failed")
  /\ UNCHANGED <<pool, res, engine, rest>>

-----------------------------------------------------------------------------
(* Containment: every route fenced, quarantine persisted, the pool stopped.  *)

\* contain_locked that writes the pool's row and leaves the routes to the exit
\* event of the container it stops.
MutContainOnlyStops ==
  /\ At("contain")
  /\ \E w \in Outcomes :
       /\ Writes(w)
       /\ pool' = IF Committed(w) THEN [pool EXCEPT !.st = "Quarantined"] ELSE pool
       /\ op' = [op EXCEPT !.pc = "stop", !.flag = w \in {"ok", "lost"}]
  /\ UNCHANGED <<res, row, memory, engine, rest>>

ContainLocked ==
  /\ At("contain")
  /\ FenceRuntime
  /\ \E w \in Outcomes :
       /\ Writes(w)
       /\ pool' = IF Committed(w) THEN [pool EXCEPT !.st = "Quarantined"] ELSE pool
       /\ op' = [op EXCEPT !.pc = IF Known = {} THEN "stop" ELSE "quarantine",
                           !.walk = Known,
                           !.flag = w \in {"ok", "lost"}]
  /\ UNCHANGED <<res, row, engine, rest>>

PersistTenantQuarantine ==
  /\ At("quarantine")
  /\ \E t \in op.walk :
       /\ \/ /\ row[t].st \in {"None", "Deleting"}
             /\ NoFault /\ UNCHANGED <<row, memory>>
          \/ /\ row[t].st \notin {"None", "Deleting"}
             /\ \E w \in {"ok", "lost", "failed"} : QuarantineRow(t, row[t], w)
       /\ op' = [op EXCEPT !.walk = @ \ {t},
                           !.pc = IF op.walk = {t} THEN "stop" ELSE @]
  /\ UNCHANGED <<pool, res, engine, rest>>

StopPool ==
  /\ At("stop")
  /\ \/ Stops /\ op' = Back(IF op.flag THEN "ok" ELSE "failed")
     \/ StopUnconfirmed /\ op' = Back("failed")
  /\ UNCHANGED <<durable, memory, acc, quota, rest>>

(* failure::handle when the decision is KeepDown.                            *)

KeepDown ==
  /\ At("keepDown")
  /\ FenceRuntime
  /\ \/ /\ Stops
        /\ op' = IF pool.st \in {"Quarantined", "Deleting"} THEN To("contain")
                 ELSE [Call("save", "keptDown") EXCEPT
                         !.rt = [st |-> "Failed", want |-> "Stopped"]]
     \/ StopUnconfirmed /\ op' = To("contain")
  /\ UNCHANGED <<durable, acc, quota, rest>>

PersistFailed ==
  /\ At("keptDown")
  /\ op' = IF op.ok = "ok" THEN Back("ok") ELSE To("contain")
  /\ NoFault /\ UNCHANGED <<durable, memory, engine, rest>>

(* honor_stop: a pool that is wanted stopped is stopped.                     *)

HonorStop ==
  /\ At("honor")
  /\ FenceRuntime
  /\ \/ /\ Stops
        /\ op' = [To("save") EXCEPT
                    !.rt = [st |-> IF pool.st = "Failed" THEN "Failed" ELSE "Stopped",
                            want |-> pool.want]]
     \/ StopUnconfirmed /\ op' = To("contain")
  /\ UNCHANGED <<durable, acc, quota, rest>>

StopRequested == pool.want = "Stopped" /\ pool.st \notin {"Quarantined", "Deleting"}

-----------------------------------------------------------------------------
(* activate_locked, used by the boot and by the power operations.            *)

ActivateLocked ==
  /\ At("activate")
  /\ IF pool.st \in {"Quarantined", "Deleting"}
       THEN op' = Back("down") /\ UNCHANGED memory
       ELSE /\ FenceRuntime
            /\ op' = [Call("save", "activateSaved") EXCEPT
                        !.rt = [st |-> "Booting", want |-> "Running"]]
  /\ NoFault /\ UNCHANGED <<durable, engine, rest>>

\* failure::decide: what an error means depends on its phase and its cause.
Failing(decisions) == \E p \in decisions : op' = Call(p, "activateFailed")

StartPool ==
  /\ At("activateSaved")
  /\ \/ op.ok # "ok" /\ NoFault /\ Failing({"contain"}) /\ UNCHANGED <<box, events>>
     \/ op.ok = "ok" /\ Fault /\ Failing({"keepDown", "contain"}) /\ UNCHANGED <<box, events>>
     \/ /\ op.ok = "ok" /\ op' = To("attest")
        /\ \/ ~(op.flag /\ box = "up") /\ NoFault /\ Starts
           \/ /\ op.flag /\ box = "up" /\ box' = "up"
              /\ \/ NoFault /\ events' = Emit(events, <<"exit0", "start">>)
                 \/ Fault /\ events' = Emit(events, <<"exit1", "start">>)
  /\ UNCHANGED <<durable, memory, acc, quota, rest>>

AttestPool ==
  /\ At("attest")
  /\ \/ /\ Works(box = "up")
        /\ op' = [Call("save", "activated") EXCEPT
                    !.rt = [st |-> "Running", want |-> "Running"]]
     \/ box # "up" /\ NoFault /\ Failing({"keepDown"})
     \/ box = "up" /\ Fault /\ Failing({"keepDown", "contain"})
  /\ UNCHANGED <<durable, memory, engine, rest>>

FinishActivation ==
  /\ \/ At("activated") /\ op.ok = "ok" /\ op' = Call("tenants", "opened")
     \/ At("opened") /\ op.ok = "ok" /\ op' = Back("ok")
     \/ op.pc \in {"activated", "opened"} /\ op.ok # "ok" /\ Failing({"contain"})
     \/ At("activateFailed") /\ op' = Back("down")
  /\ NoFault /\ UNCHANGED <<durable, memory, engine, rest>>

-----------------------------------------------------------------------------
(* reconcile_runtime_tenants_locked: every tenant is fenced and its boundary *)
(* restored before any tenant that should be open is opened.                 *)

AfterSecured(left) == IF left = {} THEN "root" ELSE "secure"

ReconcileTenants ==
  /\ At("tenants")
  /\ \/ /\ NoFault
        /\ op' = IF op.rt # [st |-> "Running", want |-> "Running"] THEN Back("ok")
                 ELSE [op EXCEPT !.pc = AfterSecured(Loaded), !.todo = Loaded,
                                 !.ready = {}, !.bad = FALSE]
     \/ Fault /\ op' = Back("failed")
  /\ UNCHANGED <<durable, memory, engine, rest>>

\* secure_tenant that leaves the disk boundary to the engine's own record.
MutSecureKeepsQuota ==
  /\ At("secure")
  /\ \E t \in op.todo :
       LET left == op.todo \ {t} IN
       /\ row[t] # NoRow /\ Works(Reachable(t))
       /\ fenced' = fenced \cup {t}
       /\ acc' = [acc EXCEPT ![t] = "shut"]
       /\ op' = [op EXCEPT !.pc = AfterSecured(left), !.todo = left,
                           !.ready = IF RouteEligible(row[t]) THEN @ \cup {t} ELSE @]
  /\ UNCHANGED <<durable, mem, quota, box, events, rest>>

SecureTenant ==
  /\ At("secure")
  /\ \E t \in op.todo :
       LET left == op.todo \ {t} IN
       \/ Fault /\ op' = Back("failed") /\ UNCHANGED <<memory, acc, quota>>
       \/ /\ row[t] = NoRow
          /\ mem' = [mem EXCEPT ![t] = NoRow] /\ fenced' = fenced \ {t}
          /\ op' = Call("contain", "contained") /\ NoFault
          /\ UNCHANGED <<acc, quota>>
       \/ /\ row[t] # NoRow /\ ~Attachable(t, row[t])
          /\ op' = Call("contain", "contained") /\ NoFault
          /\ UNCHANGED <<memory, acc, quota>>
       \/ /\ Attachable(t, row[t])
          /\ fenced' = fenced \cup {t} /\ UNCHANGED mem
          /\ \/ /\ Works(Reachable(t))
                /\ acc' = [acc EXCEPT ![t] = "shut"]
                /\ quota' = [quota EXCEPT ![t] = row[t].disk]
                /\ op' = [op EXCEPT !.pc = AfterSecured(left), !.todo = left,
                            !.ready = IF RouteEligible(row[t]) THEN @ \cup {t} ELSE @]
             \/ /\ Breaks(Reachable(t))
                /\ acc' \in {acc} \cup (IF Reachable(t) THEN {[acc EXCEPT ![t] = "shut"]} ELSE {})
                /\ op' = [Call("quarantineOne", AfterSecured(left)) EXCEPT
                            !.t = t, !.todo = left]
                /\ UNCHANGED quota
  /\ UNCHANGED <<durable, box, events, rest>>

\* quarantine_tenant: the pool stays up only when the tenant's boundary, its
\* fence and its quarantine are all confirmed.
QuarantineTenant ==
  /\ At("quarantineOne")
  /\ \/ /\ Breaks(Reachable(op.t))
        /\ op' = [op EXCEPT !.pc = "contain", !.ret = <<"contained">> \o Tail(@)]
        /\ UNCHANGED <<row, memory, acc, quota>>
     \/ /\ Reachable(op.t)
        /\ acc' = [acc EXCEPT ![op.t] = "shut"]
        /\ quota' = [quota EXCEPT ![op.t] = row[op.t].disk]
        /\ \E w \in {"ok", "lost", "failed"} :
             /\ QuarantineRow(op.t, row[op.t], w)
             /\ op' = IF w = "ok" THEN [Back("ok") EXCEPT !.bad = TRUE]
                      ELSE [op EXCEPT !.pc = "contain", !.ret = <<"contained">> \o Tail(@)]
  /\ UNCHANGED <<pool, res, box, events, rest>>

\* apply_root_disk_limit
LimitRoot ==
  /\ At("root")
  /\ \/ NoFault /\ op' = To("publish")
     \/ Fault /\ op' = Call("contain", "contained")
  /\ UNCHANGED <<durable, memory, engine, rest>>

PublishReadyTenants ==
  /\ At("publish")
  /\ \/ /\ op.ready = {} /\ op' = Back("ok")
        /\ NoFault /\ UNCHANGED <<memory, acc>>
     \/ \E t \in op.ready :
          \/ /\ Works(Reachable(t))
             /\ acc' = [acc EXCEPT ![t] = "open"]
             /\ Remember(t, row[t], "open")
             /\ op' = [op EXCEPT !.ready = @ \ {t}]
          \/ /\ Breaks(Reachable(t))
             /\ acc' \in {acc} \cup (IF Reachable(t) THEN {[acc EXCEPT ![t] = "open"]} ELSE {})
             /\ op' = [Call("quarantineOne", "publish") EXCEPT !.t = t, !.ready = @ \ {t}]
             /\ UNCHANGED memory
  /\ UNCHANGED <<durable, quota, box, events, rest>>

\* contain_pool of the reconciliation.
PoolContained ==
  /\ At("contained")
  /\ op' = Back(IF op.ok = "ok" THEN "contained" ELSE "failed")
  /\ NoFault /\ UNCHANGED <<durable, memory, engine, rest>>
=============================================================================
