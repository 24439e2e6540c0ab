---------------------------- MODULE PoolTenants -----------------------------
(***************************************************************************)
(* Creating, deleting, starting, stopping and resizing a tenant of a shared*)
(* pool (subsystems/instances): what each does to the engine, the reservation,*)
(* the record and the route, and how each is undone when a step fails.     *)
(***************************************************************************)
EXTENDS PoolRuntime

-----------------------------------------------------------------------------
(* Creating a tenant.                                                        *)

\* An API request takes the pool's lock.
Accepted == Served /\ op = Idle /\ Left /\ ops < MaxOps /\ ops' = ops + 1
Begin(kind, p, t) == [Idle EXCEPT !.kind = kind, !.pc = p, !.t = t]

ClaimRuntime(t, d) ==
  /\ Accepted
  /\ pool = [st |-> "Running", want |-> "Running"]
  /\ mem[t] = NoRow /\ row[t] = NoRow /\ res[t] = NoRes
  /\ Cardinality(Reserved) < MaxTenants /\ Booked + d <= Capacity
  /\ res' = [res EXCEPT ![t] = [st |-> "reserved", disk |-> d]]
  /\ \E w \in {"ok", "lost", "lostBlind"} :
       /\ Writes(w)
       /\ op' = IF w = "lostBlind" THEN Idle
                ELSE [Begin("create", "provision", t) EXCEPT !.disk = d]
  /\ UNCHANGED <<pool, row, memory, engine, asking>>

ProvisionTenant ==
  /\ At("provision")
  /\ \/ /\ Works(box = "up") /\ op' = To("mark")
        /\ acc' = [acc EXCEPT ![op.t] = "open"]
        /\ quota' = [quota EXCEPT ![op.t] = op.disk]
     \/ /\ Breaks(box = "up") /\ op' = To("abandon")
        /\ \E a \in IF box = "up" THEN {"none", "open"} ELSE {"none"} :
             acc' = [acc EXCEPT ![op.t] = a]
        /\ UNCHANGED quota
     \/ Fault /\ op' = To("release") /\ UNCHANGED <<acc, quota>>
  /\ UNCHANGED <<durable, memory, box, events, rest>>

MarkProvisioned ==
  /\ At("mark")
  /\ \E w \in Outcomes :
       /\ Writes(w)
       /\ res' = IF Committed(w) THEN [res EXCEPT ![op.t].st = "provisioned"] ELSE res
       /\ op' = To(IF w \in {"ok", "lost"} THEN "attach" ELSE "abandon")
  /\ UNCHANGED <<pool, row, memory, engine, rest>>

\* The new tenant is recorded; an acknowledgement that was lost is read back.
AttachTenant ==
  /\ At("attach")
  /\ LET m == [st |-> "Running", want |-> "Running", disk |-> op.disk] IN
     \E w \in Outcomes :
       /\ RowWrites(op.t, m, w)
       /\ row' = IF Committed(w) THEN [row EXCEPT ![op.t] = m] ELSE row
       /\ IF w \in {"ok", "lost"} THEN Remember(op.t, m, "fenced") ELSE UNCHANGED memory
       /\ op' = To(CASE w \in {"ok", "lost"} -> "verify"
                     [] w = "failed" -> "abandon"
                     [] OTHER -> "contain")
  /\ UNCHANGED <<pool, res, engine, rest>>

VerifyTenant ==
  /\ At("verify")
  /\ \/ Works(Reachable(op.t)) /\ Remember(op.t, mem[op.t], "open") /\ op' = Idle
     \/ Breaks(Reachable(op.t)) /\ UNCHANGED memory /\ op' = To("contain")
  /\ UNCHANGED <<durable, engine, rest>>

\* drop_tenant and the removal of the tenant's storage, complete or not.
Dropped == /\ acc' = [acc EXCEPT ![op.t] = "none"]
           /\ quota' = [quota EXCEPT ![op.t] = 0]
HalfDropped == \/ UNCHANGED <<acc, quota>>
               \/ box = "up" /\ acc' = [acc EXCEPT ![op.t] = "none"] /\ UNCHANGED quota

\* cleanup_failed_tenant that gives the claim back without dropping.
MutAbandonOnlyReleases ==
  /\ At("abandon")
  /\ op' = To("release") /\ NoFault
  /\ UNCHANGED <<durable, memory, engine, rest>>

AbandonTenant ==
  /\ At("abandon")
  /\ \/ Works(box = "up") /\ Dropped /\ op' = To("release")
     \/ Breaks(box = "up") /\ HalfDropped /\ op' = To("contain")
  /\ UNCHANGED <<durable, memory, box, events, rest>>

ReleaseClaim ==
  /\ At("release")
  /\ \/ \E w \in {"ok", "lost"} :
          /\ Writes(w) /\ res' = [res EXCEPT ![op.t] = NoRes] /\ op' = Idle
     \/ Fault /\ res' \in {res, [res EXCEPT ![op.t] = NoRes]} /\ op' = To("contain")
  /\ UNCHANGED <<pool, row, memory, engine, rest>>

-----------------------------------------------------------------------------
(* Deleting a tenant, on request or when the boot resumes it.                *)

DeleteTenant(t) ==
  /\ Accepted /\ mem[t] # NoRow
  /\ \E w \in {"ok", "lost", "failed"} :
       /\ Manage(t, [mem[t] EXCEPT !.st = "Deleting", !.want = "Stopped"], "open", w)
       /\ op' = IF w = "ok" THEN Begin("delete", "drain", t) ELSE Idle
  /\ UNCHANGED <<pool, res, engine, asking>>

DrainTenant ==
  /\ At("drain") /\ FenceRoute
  /\ \/ NoFault /\ op' = To("drop")
     \/ Fault /\ op' = Back("failed")
  /\ UNCHANGED <<durable, engine, rest>>

DropTenant ==
  /\ At("drop")
  /\ \/ Works(box = "up") /\ Dropped /\ op' = To("forget")
     \/ Breaks(box = "up") /\ (HalfDropped \/ (box = "up" /\ Dropped)) /\ op' = Back("failed")
  /\ UNCHANGED <<durable, memory, box, events, rest>>

\* The row goes, and by its trigger the reservation.
ForgetTenant ==
  /\ At("forget")
  /\ \E w \in Outcomes :
       /\ Writes(w)
       /\ IF Committed(w)
            THEN /\ row' = [row EXCEPT ![op.t] = NoRow]
                 /\ res' = [res EXCEPT ![op.t] = NoRes]
            ELSE UNCHANGED <<row, res>>
       /\ IF w \in {"ok", "lost"}
            THEN /\ mem' = [mem EXCEPT ![op.t] = NoRow] /\ fenced' = fenced \ {op.t}
                 /\ op' = To("shrink")
            ELSE UNCHANGED memory /\ op' = Back("failed")
  /\ UNCHANGED <<pool, engine, rest>>

\* maintain_pool_after_delete
MaintainPool ==
  /\ At("shrink")
  /\ \/ NoFault /\ op' = Back("ok")
     \/ Fault /\ op' = To("contain")
  /\ UNCHANGED <<durable, memory, engine, rest>>

-----------------------------------------------------------------------------
(* Starting and stopping a tenant.                                           *)

\* drain_tenant_sessions, the first step of an operation on a live tenant.
Draining(t, next) ==
  /\ fenced' = fenced \cup {t} /\ UNCHANGED mem
  /\ \/ NoFault /\ op' = next
     \/ Fault /\ op' = Idle

ChangeState(t, starting) ==
  /\ Accepted
  /\ mem[t].st \notin {"None", "Quarantined", "Deleting"}
  /\ starting => box = "up" /\ pool.st = "Running"
  /\ Draining(t, [Begin("power", "access", t) EXCEPT
                    !.was = mem[t], !.open = RouteOpen(t),
                    !.flag = starting, !.up = (box = "up")])
  /\ UNCHANGED <<durable, engine, asking>>

\* A stop reaches the engine only if the pool was seen running.
ChangeAccess ==
  /\ At("access")
  /\ \/ ~op.flag /\ ~op.up /\ NoFault /\ op' = To("record") /\ UNCHANGED <<acc, quota>>
     \/ /\ op.flag \/ op.up
        /\ Works(Reachable(op.t)) /\ op' = To("record")
        /\ acc' = [acc EXCEPT ![op.t] = IF op.flag THEN "open" ELSE "shut"]
        /\ quota' = IF op.flag THEN [quota EXCEPT ![op.t] = op.was.disk] ELSE quota
     \/ /\ op.flag \/ op.up
        /\ Breaks(Reachable(op.t)) /\ op' = To("restore")
        /\ \/ UNCHANGED acc
           \/ /\ Reachable(op.t)
              /\ acc' \in {[acc EXCEPT ![op.t] = a] : a \in {"shut"} \cup
                             (IF op.flag THEN {"open"} ELSE {})}
        /\ \/ UNCHANGED quota
           \/ op.flag /\ Reachable(op.t) /\ quota' = [quota EXCEPT ![op.t] = op.was.disk]
  /\ UNCHANGED <<durable, memory, box, events, rest>>

SameState(m, n) == m.st = n.st /\ m.want = n.want

\* A failed write is read back: it took place, it did not, or neither state
\* is the stored one.
RecordState ==
  /\ At("record")
  /\ LET s == IF op.flag THEN "Running" ELSE "Stopped"
         m == [op.was EXCEPT !.st = s, !.want = s]
     IN \E w \in Outcomes :
          /\ RowWrites(op.t, m, w)
          /\ row' = IF Committed(w) THEN [row EXCEPT ![op.t] = m] ELSE row
          /\ LET done == w = "ok" \/ (Readable(w) /\ SameState(row'[op.t], m))
             IN /\ IF done THEN Remember(op.t, m, "open") ELSE UNCHANGED memory
                /\ op' = CASE done -> Idle
                           [] ~done /\ ~Readable(w) -> Idle
                           [] ~done /\ Readable(w) /\ row[op.t] = NoRow -> Idle
                           [] ~done /\ Readable(w) /\ row[op.t] # NoRow ->
                                To(IF SameState(row[op.t], op.was) THEN "restore" ELSE "ambiguous")
  /\ UNCHANGED <<pool, res, engine, rest>>

QuarantineAmbiguous ==
  /\ At("ambiguous")
  /\ \E w \in {"ok", "lost", "failed"} : QuarantineRow(op.t, row[op.t], w)
  /\ op' = Idle
  /\ UNCHANGED <<pool, res, engine, rest>>

\* restore_access: back to the state the operation found.  An opening whose check
\* fails is undone, or left open when that fails too (open_verified).
RestoreAccess ==
  /\ At("restore")
  /\ \/ /\ Works(Reachable(op.t)) /\ op' = Back("ok")
        /\ acc' = [acc EXCEPT ![op.t] = IF op.open THEN "open" ELSE "shut"]
        /\ quota' = IF op.was.want = "Running"
                    THEN [quota EXCEPT ![op.t] = op.was.disk] ELSE quota
        /\ Remember(op.t, op.was, IF op.open THEN "open" ELSE "fenced")
     \/ /\ Breaks(Reachable(op.t)) /\ op' = To("unrestored")
        /\ \/ UNCHANGED acc
           \/ Reachable(op.t) /\ acc' = [acc EXCEPT ![op.t] = "shut"]
           \/ Reachable(op.t) /\ op.open /\ acc' = [acc EXCEPT ![op.t] = "open"]
        /\ UNCHANGED quota /\ FenceRoute
  /\ UNCHANGED <<durable, box, events, rest>>

AccessUnrestored ==
  /\ At("unrestored")
  /\ \/ /\ Reachable(op.t)
        /\ quota' = [quota EXCEPT ![op.t] = op.was.disk]
        /\ \E w \in {"ok", "lost", "failed"} : QuarantineRow(op.t, op.was, w)
        /\ op' = Back("failed")
     \/ /\ Breaks(Reachable(op.t)) /\ op' = Call("contain", "restoreContained")
        /\ UNCHANGED <<row, memory, quota>>
  /\ UNCHANGED <<pool, res, acc, box, events, rest>>

RestoreContained ==
  /\ At("restoreContained") /\ op' = Back("failed")
  /\ NoFault /\ UNCHANGED <<durable, memory, engine, rest>>

-----------------------------------------------------------------------------
(* Resizing a tenant's disk: the boundary, the booking, the record, the      *)
(* route, and the rollback of each.                                          *)

Resize(t, d) ==
  /\ Accepted
  /\ mem[t].st \notin {"None", "Quarantined", "Deleting"}
  /\ d # mem[t].disk /\ Booked - mem[t].disk + d <= Capacity
  /\ pool.st = "Running"
  /\ Draining(t, [Begin("resize", "fence", t) EXCEPT
                    !.was = mem[t], !.prev = mem[t], !.open = RouteOpen(t), !.disk = d])
  /\ UNCHANGED <<durable, engine, asking>>

\* A tenant that uses more than the smaller size is left as it was.
FenceForResize ==
  /\ At("fence")
  /\ \/ /\ Works(Reachable(op.t))
        /\ acc' = [acc EXCEPT ![op.t] = "shut"]
        /\ \/ op' = To("limit")
           \/ op.disk < op.prev.disk /\ op' = To("restore")
     \/ Breaks(Reachable(op.t)) /\ UNCHANGED acc /\ op' = Idle
  /\ UNCHANGED <<durable, memory, quota, box, events, rest>>

SetLimit ==
  /\ At("limit")
  /\ \/ /\ Works(Reachable(op.t)) /\ op' = To("book")
        /\ quota' = [quota EXCEPT ![op.t] = op.disk]
     \/ /\ Breaks(Reachable(op.t)) /\ op' = To("restore")
        /\ quota' \in {quota} \cup (IF Reachable(op.t) THEN {[quota EXCEPT ![op.t] = op.disk]} ELSE {})
  /\ UNCHANGED <<durable, memory, acc, box, events, rest>>

\* PlacementRepository::resize: the booking and the row in one transaction.
Bookable(t, d) == /\ pool.st = "Running" /\ res[t] # NoRes /\ row[t] # NoRow
                  /\ Booked - res[t].disk + d <= Capacity
Book(t, d, w) ==
  /\ IF Bookable(t, d) THEN Writes(w) ELSE w = "failed" /\ NoFault
  /\ IF Committed(w)
       THEN res' = [res EXCEPT ![t].disk = d] /\ row' = [row EXCEPT ![t].disk = d]
       ELSE UNCHANGED <<res, row>>

BookResize ==
  /\ At("book")
  /\ \E w \in Outcomes :
       /\ Book(op.t, op.disk, w)
       /\ op' = To(IF w = "ok" \/ (Readable(w) /\ row'[op.t].disk = op.disk)
                   THEN "apply" ELSE "unlimit")
  /\ UNCHANGED <<pool, memory, engine, rest>>

ApplyResize ==
  /\ At("apply")
  /\ \/ Works(Reachable(op.t)) /\ op' = To("settle")
     \/ Breaks(Reachable(op.t)) /\ op' = To("unlimit")
  /\ UNCHANGED <<durable, memory, engine, rest>>

\* The row that was booked, or the request's own copy if it cannot be read.
RecordResize ==
  /\ At("settle")
  /\ LET how  == IF op.open THEN "fenced" ELSE "keep"
         next(m) == IF op.open THEN [Call("restore", "resized") EXCEPT !.was = m] ELSE Idle
         known == [op.prev EXCEPT !.disk = op.disk]
     IN \/ \E w \in {"ok", "lost", "failed"} :
             /\ Manage(op.t, [row[op.t] EXCEPT !.disk = op.disk], how, w)
             /\ op' = IF w = "ok" THEN next([row[op.t] EXCEPT !.disk = op.disk])
                      ELSE To("unlimit")
        \/ Fault /\ Record(op.t, known, how, "ok") /\ op' = next(known)
  /\ UNCHANGED <<pool, res, engine, rest>>

EndResize ==
  /\ \/ At("resized") /\ op.ok = "ok" /\ op' = Idle
     \/ At("resized") /\ op.ok # "ok" /\ op' = To("unlimit")
     \/ At("rolledBack") /\ op' = IF op.ok = "ok" THEN Idle ELSE To("contain")
  /\ NoFault /\ UNCHANGED <<durable, memory, engine, rest>>

RollbackLimit ==
  /\ At("unlimit")
  /\ \/ /\ Works(Reachable(op.t))
        /\ quota' = [quota EXCEPT ![op.t] = op.prev.disk]
        /\ op' = [op EXCEPT !.pc = "unbook", !.bad = FALSE]
     \/ /\ Breaks(Reachable(op.t))
        /\ op' = [op EXCEPT !.pc = "unbook", !.bad = TRUE]
        /\ UNCHANGED quota
  /\ UNCHANGED <<durable, memory, acc, box, events, rest>>

RollbackBooking ==
  /\ At("unbook")
  /\ \E w \in {"ok", "lost", "failed"} :
       /\ Book(op.t, op.prev.disk, w)
       /\ op' = [op EXCEPT !.pc = "unapply", !.bad = @ \/ w # "ok",
                           !.up = ~op.bad /\ w = "ok"]
  /\ UNCHANGED <<pool, memory, engine, rest>>

RollbackPool ==
  /\ At("unapply")
  /\ \/ Works(Reachable(op.t)) /\ op' = To("unrecord")
     \/ Breaks(Reachable(op.t)) /\ op' = [op EXCEPT !.pc = "unrecord", !.bad = TRUE]
  /\ UNCHANGED <<durable, memory, engine, rest>>

\* The rollback that is tried again until nothing fails.
MutRollbackRetries ==
  /\ At("unrecord")
  /\ LET next(failed) == IF failed THEN To("unlimit")
                         ELSE [Call("restore", "rolledBack") EXCEPT !.was = op.prev]
     IN \/ op.up /\ \E w \in {"ok", "lost", "failed"} :
                      Manage(op.t, op.prev, "fenced", w) /\ op' = next(op.bad \/ w # "ok")
        \/ ~op.up /\ NoFault /\ op' = next(op.bad) /\ UNCHANGED <<row, memory>>
  /\ UNCHANGED <<pool, res, engine, rest>>

\* A rollback with any failure ends in the containment of the pool.
RollbackRecord ==
  /\ At("unrecord")
  /\ LET next(failed) == IF failed THEN To("contain")
                         ELSE [Call("restore", "rolledBack") EXCEPT !.was = op.prev]
     IN \/ op.up /\ \E w \in {"ok", "lost", "failed"} :
                      Manage(op.t, op.prev, "fenced", w) /\ op' = next(op.bad \/ w # "ok")
        \/ ~op.up /\ NoFault /\ op' = next(op.bad) /\ UNCHANGED <<row, memory>>
  /\ UNCHANGED <<pool, res, engine, rest>>
=============================================================================
