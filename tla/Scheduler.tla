------------------------------ MODULE Scheduler -----------------------------
(***************************************************************************)
(* The import/export scheduler, server/jobs/import_export/scheduler/.      *)
(* Callers queue with a resource cost and wait for an execution permit;    *)
(* dispatch() hands permits out in order, lets later jobs overtake a head  *)
(* that does not fit, and re-reads the host's memory and CPU each time.    *)
(*                                                                         *)
(* Everything happens under one mutex.  The dispatch loop runs with the    *)
(* mutex held: its iterations are steps of their own here, and `locked`    *)
(* keeps every other action out until the loop has ended.                  *)
(*                                                                         *)
(* Time is abstract: Expire(j) is the moment queued_at passes the          *)
(* starvation timeout.  Sequence numbers are the order of the queue.       *)
(***************************************************************************)
EXTENDS Naturals, Sequences, FiniteSets, FiniteSetsExt, SequencesExt

CONSTANTS Jobs, Cost, Settings, AvailableMemory, AvailableCpu, Dynamic, Manual

ASSUME SchedulerAssumption ==
  /\ Cost \in [Jobs -> [mem : Nat \ {0}, io : Nat \ {0}, cpu : Nat \ {0}]]
  /\ AvailableMemory \subseteq Nat /\ AvailableCpu \subseteq Nat \ {0}
  /\ Dynamic # Manual
  /\ Settings \subseteq [mode : {Dynamic, Manual}, autoMemory : BOOLEAN, autoCpu : BOOLEAN,
                         maxActive : Nat \ {0}, maxBypass : Nat, io : Nat]

VARIABLES settings,     \* Shared: the configuration, fixed at start
          memBudget,    \* capacity.memory_budget_mib
          cpuUnits,     \* capacity.cpu_units
          pendingMem,   \* pending_memory_increase_mib, 0 for None
          pendingCpu,   \* pending_cpu_increase, 0 for None
          wakeup,       \* refresh_wakeup_scheduled
          accepting,
          active,       \* active_jobs, active_memory_mib, active_io_mib, active_cpu_units
          waiting,      \* the queue of [job, bypasses]
          expired,      \* queued jobs past the starvation timeout
          caller,       \* what each caller of acquire() is doing
          locked        \* a dispatch loop holds the mutex

vars == <<settings, memBudget, cpuUnits, pendingMem, pendingCpu, wakeup, accepting, active,
          waiting, expired, caller, locked>>

capacityVars == <<memBudget, cpuUnits, pendingMem, pendingCpu>>

\* "gone" callers have dropped the receiver but not yet their registration.
CallerSteps == {"idle", "waiting", "granted", "running", "refused", "gone"}

Queued == {waiting[k].job : k \in DOMAIN waiting}

Permits == {j \in Jobs : caller[j] \in {"granted", "running"}}

TypeOK ==
  /\ settings \in Settings
  /\ memBudget \in Nat \ {0} /\ cpuUnits \in Nat \ {0}
  /\ pendingMem \in Nat /\ pendingCpu \in Nat
  /\ wakeup \in BOOLEAN /\ accepting \in BOOLEAN /\ locked \in BOOLEAN
  /\ active \in [jobs : Nat, mem : Nat, io : Nat, cpu : Nat]
  /\ waiting \in Seq([job : Jobs, bypasses : Nat])
  /\ expired \in SUBSET Jobs
  /\ caller \in [Jobs -> CallerSteps]

MutMemoryBudget(available) == (3 * available) \div 5

\* memory_budget_from_available
MemoryBudget(available) == LET b == (3 * available) \div 5 IN IF b = 0 THEN 1 ELSE b

\* SchedulerCapacity::detect: an automatic budget starts from a sample.
Init ==
  /\ settings \in Settings
  /\ memBudget \in {MemoryBudget(a) : a \in AvailableMemory}
  /\ cpuUnits \in AvailableCpu
  /\ pendingMem = 0 /\ pendingCpu = 0
  /\ wakeup = FALSE
  /\ accepting = TRUE
  /\ active = [jobs |-> 0, mem |-> 0, io |-> 0, cpu |-> 0]
  /\ waiting = <<>>
  /\ expired = {}
  /\ caller = [j \in Jobs |-> "idle"]
  /\ locked = FALSE

-----------------------------------------------------------------------------
(* Fitting.                                                                *)

FitsHardMemory(j, budget) == settings.mode = Manual \/ Cost[j].mem <= budget

MutFitsIgnoresIo(j) ==
  IF settings.mode = Manual
    THEN active.jobs < settings.maxActive
    ELSE /\ active.mem + Cost[j].mem <= memBudget
         /\ active.cpu + Cost[j].cpu <= cpuUnits

Fits(j) ==
  IF settings.mode = Manual
    THEN active.jobs < settings.maxActive
    ELSE /\ active.mem + Cost[j].mem <= memBudget
         /\ active.io + Cost[j].io <= settings.io
         /\ active.cpu + Cost[j].cpu <= cpuUnits

\* The index in the queue of the next job to run, as a set of at most one.
MutRunnableNoBound ==
  IF waiting = <<>> THEN {}
  ELSE LET head == waiting[1].job
           later == {k \in 2..Len(waiting) : Fits(waiting[k].job)}
       IN  IF Fits(head) \/ (active.jobs = 0 /\ FitsHardMemory(head, memBudget)) THEN {1}
           ELSE IF later = {} THEN {} ELSE {Min(later)}

RunnableIndex ==
  IF waiting = <<>> THEN {}
  ELSE LET head == waiting[1].job
           starving == waiting[1].bypasses >= settings.maxBypass \/ head \in expired
           later == {k \in 2..Len(waiting) : Fits(waiting[k].job)}
       IN  IF Fits(head) \/ (active.jobs = 0 /\ FitsHardMemory(head, memBudget)) THEN {1}
           ELSE IF FitsHardMemory(head, memBudget) /\ starving THEN {}
           ELSE IF later = {} THEN {} ELSE {Min(later)}

Reserved(j) ==
  [jobs |-> active.jobs + 1, mem |-> active.mem + Cost[j].mem,
   io |-> active.io + Cost[j].io, cpu |-> active.cpu + Cost[j].cpu]

SaturatingSub(a, b) == IF b < a THEN a - b ELSE 0

Released(j) ==
  [jobs |-> SaturatingSub(active.jobs, 1), mem |-> SaturatingSub(active.mem, Cost[j].mem),
   io |-> SaturatingSub(active.io, Cost[j].io), cpu |-> SaturatingSub(active.cpu, Cost[j].cpu)]

-----------------------------------------------------------------------------
(* dispatch().                                                             *)

\* apply_capacity_sample: a decrease counts at once, an increase when two
\* samples in a row ask for it.
ApplySample(current, pending, candidate) ==
  IF candidate <= current THEN [current |-> candidate, pending |-> 0]
  ELSE IF pending = 0 THEN [current |-> current, pending |-> candidate]
  ELSE [current |-> IF pending < candidate THEN pending ELSE candidate, pending |-> 0]

\* An invalid sample has the effect of the sample 0 (memory) or 1 (CPU).
RefreshCapacity ==
  /\ \E a \in AvailableMemory :
       IF settings.autoMemory
         THEN LET s == ApplySample(memBudget, pendingMem, MemoryBudget(a))
              IN  memBudget' = s.current /\ pendingMem' = s.pending
         ELSE UNCHANGED <<memBudget, pendingMem>>
  /\ \E a \in AvailableCpu :
       IF settings.autoCpu
         THEN LET s == ApplySample(cpuUnits, pendingCpu, a)
              IN  cpuUnits' = s.current /\ pendingCpu' = s.pending
         ELSE UNCHANGED <<cpuUnits, pendingCpu>>

\* The beginning of dispatch() on a given queue: the capacity is refreshed and
\* the expired jobs that no longer fit the memory are rejected.
BeginDispatch(queue, calls, late) ==
  LET unfit(w) == w.job \in late /\ ~FitsHardMemory(w.job, memBudget')
  IN  /\ RefreshCapacity
      /\ waiting' = SelectSeq(queue, LAMBDA w : ~unfit(w))
      /\ caller' = [j \in Jobs |->
                      IF calls[j] = "waiting" /\ \E k \in DOMAIN queue : queue[k].job = j /\ unfit(queue[k])
                        THEN "refused" ELSE calls[j]]
      /\ expired' = {j \in late : \E k \in DOMAIN waiting' : waiting'[k].job = j}
      /\ locked' = TRUE
      /\ UNCHANGED <<settings, accepting>>

\* The counter is only compared with max_bypass: one above it is its cap here.
Bypass(queue) ==
  [queue EXCEPT ![1].bypasses = IF @ > settings.maxBypass THEN @ ELSE @ + 1]

\* One iteration of the loop.  The permit of a caller that is gone comes back
\* from send() and is released on the spot.
MutDispatchKeepsPermit ==
  /\ locked /\ accepting /\ active.jobs < settings.maxActive
  /\ \E k \in RunnableIndex :
       LET j == waiting[k].job IN
       /\ waiting' = RemoveAt(IF k = 1 THEN waiting ELSE Bypass(waiting), k)
       /\ active' = Reserved(j)
       /\ caller' = IF caller[j] = "gone" THEN caller ELSE [caller EXCEPT ![j] = "granted"]
       /\ expired' = expired \ {j}
  /\ UNCHANGED <<settings, capacityVars, wakeup, accepting, locked>>

DispatchOne ==
  /\ locked /\ accepting /\ active.jobs < settings.maxActive
  /\ \E k \in RunnableIndex :
       LET j == waiting[k].job
           bypassed == IF k = 1 THEN waiting ELSE Bypass(waiting)
       IN  /\ waiting' = RemoveAt(bypassed, k)
           /\ expired' = expired \ {j}
           /\ IF caller[j] = "gone"
                THEN UNCHANGED <<active, caller>>
                ELSE active' = Reserved(j) /\ caller' = [caller EXCEPT ![j] = "granted"]
  /\ UNCHANGED <<settings, capacityVars, wakeup, accepting, locked>>

\* The loop ends; schedule_capacity_refresh() if anyone is left waiting.
EndDispatch ==
  /\ locked
  /\ accepting /\ active.jobs < settings.maxActive => RunnableIndex = {}
  /\ locked' = FALSE
  /\ wakeup' = (wakeup \/ (accepting /\ waiting # <<>> /\ (settings.autoMemory \/ settings.autoCpu)))
  /\ UNCHANGED <<settings, capacityVars, accepting, active, waiting, expired, caller>>

-----------------------------------------------------------------------------
(* The callers.                                                            *)

StructurallyExceeds(j) ==
  settings.mode = Dynamic /\ ~settings.autoMemory /\ Cost[j].mem > memBudget

Acquire(j) ==
  /\ ~locked /\ caller[j] = "idle"
  /\ accepting /\ ~StructurallyExceeds(j)
  /\ BeginDispatch(Append(waiting, [job |-> j, bypasses |-> 0]),
                   [caller EXCEPT ![j] = "waiting"], expired \ {j})
  /\ UNCHANGED <<wakeup, active>>

\* The oneshot delivers the permit, or the refusal.
Receive(j) ==
  /\ \/ caller[j] = "granted" /\ caller' = [caller EXCEPT ![j] = "running"]
     \/ caller[j] = "refused" /\ caller' = [caller EXCEPT ![j] = "idle"]
  /\ UNCHANGED <<settings, capacityVars, wakeup, accepting, active, waiting, expired, locked>>

\* Drop for ExecutionPermit: by the job that ends, or with the receiver of a
\* caller that is cancelled after its permit was sent.
DropPermit(j) ==
  /\ ~locked /\ caller[j] \in {"granted", "running"}
  /\ active' = Released(j)
  /\ BeginDispatch(waiting, [caller EXCEPT ![j] = "idle"], expired)
  /\ UNCHANGED wakeup

\* The acquire future is dropped: first its receiver ...
Abandon(j) ==
  /\ caller[j] = "waiting"
  /\ caller' = [caller EXCEPT ![j] = "gone"]
  /\ UNCHANGED <<settings, capacityVars, wakeup, accepting, active, waiting, expired, locked>>

\* ... then its WaitingRegistration, which leaves the queue if still in it.
MutDropRegistration(j) ==
  /\ ~locked /\ caller[j] = "gone"
  /\ waiting' = SelectSeq(waiting, LAMBDA w : w.job # j)
  /\ caller' = [caller EXCEPT ![j] = "idle"]
  /\ expired' = expired \ {j}
  /\ UNCHANGED <<settings, capacityVars, wakeup, accepting, active, locked>>

DropRegistration(j) ==
  /\ ~locked /\ caller[j] = "gone"
  /\ IF j \in Queued
       THEN /\ BeginDispatch(SelectSeq(waiting, LAMBDA w : w.job # j),
                             [caller EXCEPT ![j] = "idle"], expired \ {j})
            /\ UNCHANGED <<wakeup, active>>
       ELSE /\ caller' = [caller EXCEPT ![j] = "idle"]
            /\ UNCHANGED <<settings, capacityVars, wakeup, accepting, active, waiting, expired, locked>>

MutCloseKeepsQueue ==
  /\ ~locked
  /\ accepting' = FALSE
  /\ UNCHANGED <<settings, capacityVars, wakeup, active, waiting, expired, caller, locked>>

Close ==
  /\ ~locked
  /\ accepting' = FALSE
  /\ waiting' = <<>>
  /\ expired' = {}
  /\ caller' = [j \in Jobs |-> IF caller[j] = "waiting" THEN "refused" ELSE caller[j]]
  /\ UNCHANGED <<settings, capacityVars, wakeup, active, locked>>

Snapshot == ~locked /\ BeginDispatch(waiting, caller, expired) /\ UNCHANGED <<wakeup, active>>

\* The task spawned by schedule_capacity_refresh().
RefreshWakeup ==
  /\ ~locked /\ wakeup
  /\ wakeup' = FALSE
  /\ BeginDispatch(waiting, caller, expired)
  /\ UNCHANGED active

Expire(j) ==
  /\ j \in Queued \ expired
  /\ expired' = expired \cup {j}
  /\ UNCHANGED <<settings, capacityVars, wakeup, accepting, active, waiting, caller, locked>>

Next ==
  \/ DispatchOne \/ EndDispatch \/ Close \/ Snapshot \/ RefreshWakeup
  \/ \E j \in Jobs : \/ Acquire(j) \/ Receive(j) \/ DropPermit(j) \/ Abandon(j)
                     \/ DropRegistration(j) \/ Expire(j)

Spec == Init /\ [][Next]_vars

\* Granted jobs end, time passes, and whoever asks for the mutex gets it in the
\* end, although others may take it first (hence the strong fairness).
Fairness ==
  /\ WF_vars(DispatchOne) /\ WF_vars(EndDispatch) /\ SF_vars(RefreshWakeup)
  /\ \A j \in Jobs : /\ WF_vars(Receive(j)) /\ WF_vars(Expire(j))
                     /\ SF_vars(DropPermit(j)) /\ SF_vars(DropRegistration(j))

FairSpec == Spec /\ Fairness

-----------------------------------------------------------------------------
(* Properties.                                                             *)

\* The four counters are exactly the costs of the permits that are out, sent or
\* received: no path (grant to a caller that is gone, cancellation after the
\* send, close) leaks a reservation or releases one twice, so the saturating
\* subtractions never saturate (dispatch.rs reserve, release).
AccountingIsExact ==
  /\ active.jobs = Cardinality(Permits)
  /\ active.mem = MapThenSumSet(LAMBDA j : Cost[j].mem, Permits)
  /\ active.io = MapThenSumSet(LAMBDA j : Cost[j].io, Permits)
  /\ active.cpu = MapThenSumSet(LAMBDA j : Cost[j].cpu, Permits)

\* Never more than max_active_jobs run; in dynamic mode a fixed memory budget is
\* never exceeded at all, and the I/O budget only by a job that runs alone
\* (dispatch.rs fits, head_runs_alone).
LimitsHold ==
  /\ active.jobs <= settings.maxActive
  /\ settings.mode = Dynamic =>
       /\ ~settings.autoMemory => active.mem <= memBudget
       /\ active.io > settings.io => active.jobs = 1

\* Between two critical sections no runnable job is left in the queue, although
\* permits, registrations, samples and expiries change what is runnable
\* (every mutation of the state ends in dispatch()).
WorkConserving ==
  (~locked /\ accepting /\ active.jobs < settings.maxActive) => RunnableIndex = {}

\* With a fixed memory budget no job is overtaken more than max_bypass times
\* while it heads the queue (dispatch.rs runnable_index).
BypassBounded ==
  ~settings.autoMemory => \A k \in DOMAIN waiting : waiting[k].bypasses <= settings.maxBypass

\* Whoever waits is granted, refused or gone in the end, whatever smaller jobs
\* keep arriving and however the host's memory varies.
NobodyStarves == \A j \in Jobs : caller[j] = "waiting" ~> caller[j] # "waiting"
=============================================================================
