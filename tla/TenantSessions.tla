--------------------------- MODULE TenantSessions ---------------------------
(***************************************************************************)
(* The registry of live gateway sessions, gateway/sessions.rs.  Every      *)
(* method takes the registry mutex for its reads and writes, so opening,   *)
(* authenticating and dropping are atomic; cancel() releases the mutex     *)
(* between collecting the sessions and marking each one, and               *)
(* cancel_and_wait() awaits a Notify between its checks.                   *)
(*                                                                         *)
(* A connection opens at most one session, so the session id is the        *)
(* connection.  A tenant entry is dropped with its last session and a new  *)
(* one is built by the next insert; entry[t] numbers those incarnations,   *)
(* because each has a Notify of its own.                                   *)
(***************************************************************************)
EXTENDS Naturals, FiniteSets

CONSTANTS Tenants, Conns, Waiters, NoTenant, NoSessionLimit

ASSUME SessionsAssumption == NoTenant \notin Tenants

VARIABLES sessions,       \* tenant -> connections registered in its entry
          entry,          \* tenant -> incarnation of its entry, 0 when absent
          lastEntry,      \* tenant -> the latest incarnation
          authenticated,  \* SessionState.authenticated
          cancelled,      \* SessionState.cancelled
          waiter          \* one record per caller of cancel / cancel_and_wait

sessionVars == <<sessions, entry, lastEntry, authenticated, cancelled, waiter>>

WaiterSteps == {"idle", "cancel", "marking", "capture", "poll", "check", "await",
                "drained", "timeout"}

SessionsTypeOK ==
  /\ sessions \in [Tenants -> SUBSET Conns]
  /\ entry \in [Tenants -> Nat]
  /\ lastEntry \in [Tenants -> Nat]
  /\ authenticated \in SUBSET Conns
  /\ cancelled \in SUBSET Conns
  /\ waiter \in [Waiters -> [pc : WaiterSteps, tenant : Tenants \cup {NoTenant},
                             wait : BOOLEAN, marks : SUBSET Conns,
                             on : Nat, notified : BOOLEAN]]

IdleWaiter == [pc |-> "idle", tenant |-> NoTenant, wait |-> FALSE, marks |-> {},
               on |-> 0, notified |-> FALSE]

SessionsInit ==
  /\ sessions = [t \in Tenants |-> {}]
  /\ entry = [t \in Tenants |-> 0]
  /\ lastEntry = [t \in Tenants |-> 0]
  /\ authenticated = {}
  /\ cancelled = {}
  /\ waiter = [w \in Waiters |-> IdleWaiter]

-----------------------------------------------------------------------------
(* Opening, authenticating and dropping a session.                         *)

AuthenticatedCount(t) == Cardinality(sessions[t] \cap authenticated)

BelowLimit(t, limit) == limit = NoSessionLimit \/ AuthenticatedCount(t) < limit

\* insert(): a fresh entry is built when the tenant has none.
Insert(c, t, auth) ==
  /\ sessions' = [sessions EXCEPT ![t] = @ \cup {c}]
  /\ authenticated' = IF auth THEN authenticated \cup {c} ELSE authenticated
  /\ IF entry[t] = 0
       THEN /\ lastEntry' = [lastEntry EXCEPT ![t] = @ + 1]
            /\ entry' = [entry EXCEPT ![t] = lastEntry[t] + 1]
       ELSE UNCHANGED <<entry, lastEntry>>
  /\ UNCHANGED <<cancelled, waiter>>

TryOpen(c, t, limit) == BelowLimit(t, limit) /\ Insert(c, t, TRUE)

OpenPending(c, t) == Insert(c, t, FALSE)

\* authenticate(): refused when cancelled or when the tenant is at its limit.
Authenticatable(c, t, limit) ==
  /\ entry[t] # 0
  /\ c \notin cancelled
  /\ c \in authenticated \/ BelowLimit(t, limit)

MutAuthenticateUnlimited(c, t, limit) ==
  /\ c \notin cancelled
  /\ authenticated' = authenticated \cup {c}
  /\ UNCHANGED <<sessions, entry, lastEntry, cancelled, waiter>>

Authenticate(c, t, limit) ==
  /\ Authenticatable(c, t, limit)
  /\ authenticated' = authenticated \cup {c}
  /\ UNCHANGED <<sessions, entry, lastEntry, cancelled, waiter>>

\* notify_waiters(): wakes the futures already created on this entry's Notify.
Notify(t) ==
  waiter' = [w \in Waiters |->
               IF waiter[w].tenant = t /\ waiter[w].on = entry[t]
                  /\ waiter[w].pc \in {"check", "await"}
                 THEN [waiter[w] EXCEPT !.notified = TRUE]
                 ELSE waiter[w]]

\* Drop that leaves the empty entry in the map.
MutDropKeepsEntry(c, t) ==
  /\ c \in sessions[t]
  /\ sessions' = [sessions EXCEPT ![t] = @ \ {c}]
  /\ Notify(t)
  /\ UNCHANGED <<entry, lastEntry, authenticated, cancelled>>

DropSession(c, t) ==
  /\ c \in sessions[t]
  /\ sessions' = [sessions EXCEPT ![t] = @ \ {c}]
  /\ Notify(t)
  /\ entry' = [entry EXCEPT ![t] = IF sessions[t] = {c} THEN 0 ELSE @]
  /\ UNCHANGED <<lastEntry, authenticated, cancelled>>

-----------------------------------------------------------------------------
(* cancel() and cancel_and_wait(), one step per lock or await.             *)

At(w, pc) == waiter[w].pc = pc

registryVars == <<sessions, entry, lastEntry, authenticated>>

\* The caller enters cancel (wait = FALSE) or cancel_and_wait (wait = TRUE).
StartCancel(w, t, wait) ==
  /\ At(w, "idle")
  /\ waiter' = [waiter EXCEPT ![w] = [IdleWaiter EXCEPT !.pc = "cancel", !.tenant = t,
                                                       !.wait = wait]]
  /\ UNCHANGED <<registryVars, cancelled>>

CollectSessions(w) ==
  /\ At(w, "cancel")
  /\ waiter' = [waiter EXCEPT ![w].pc = "marking",
                              ![w].marks = sessions[waiter[w].tenant]]
  /\ UNCHANGED <<registryVars, cancelled>>

MarkCancelled(w) ==
  /\ At(w, "marking")
  /\ \E c \in waiter[w].marks :
       /\ cancelled' = cancelled \cup {c}
       /\ waiter' = [waiter EXCEPT ![w].marks = @ \ {c}]
  /\ UNCHANGED registryVars

MarkingDone(w) ==
  /\ At(w, "marking") /\ waiter[w].marks = {}
  /\ waiter' = [waiter EXCEPT ![w].pc = IF waiter[w].wait THEN "capture" ELSE "drained"]
  /\ UNCHANGED <<registryVars, cancelled>>

\* The Notify of the entry of this moment; no entry means nothing to wait for.
CaptureDrained(w) ==
  LET e == entry[waiter[w].tenant] IN
  /\ At(w, "capture")
  /\ waiter' = [waiter EXCEPT ![w].on = e, ![w].pc = IF e = 0 THEN "drained" ELSE "poll"]
  /\ UNCHANGED <<registryVars, cancelled>>

\* drained.notified() is created before active() is read ...
CreateNotified(w) ==
  /\ At(w, "poll")
  /\ waiter' = [waiter EXCEPT ![w].pc = "check", ![w].notified = FALSE]
  /\ UNCHANGED <<registryVars, cancelled>>

MutCheckActive(w) ==
  /\ At(w, "check")
  /\ waiter' = [waiter EXCEPT ![w].pc =
                  IF sessions[waiter[w].tenant] \ cancelled = {} THEN "drained" ELSE "await"]
  /\ UNCHANGED <<registryVars, cancelled>>

CheckActive(w) ==
  /\ At(w, "check")
  /\ waiter' = [waiter EXCEPT ![w].pc =
                  IF sessions[waiter[w].tenant] = {} THEN "drained" ELSE "await"]
  /\ UNCHANGED <<registryVars, cancelled>>

\* ... and awaited after it.
Woken(w) ==
  /\ At(w, "await") /\ waiter[w].notified
  /\ waiter' = [waiter EXCEPT ![w].pc = "poll"]
  /\ UNCHANGED <<registryVars, cancelled>>

\* tokio::time::timeout drops the loop at its await.
WaitTimeout(w) ==
  /\ At(w, "await")
  /\ waiter' = [waiter EXCEPT ![w].pc = "timeout"]
  /\ UNCHANGED <<registryVars, cancelled>>

\* The answer is given back to the caller.
Return(w) ==
  /\ waiter[w].pc \in {"drained", "timeout"}
  /\ waiter' = [waiter EXCEPT ![w] = IdleWaiter]
  /\ UNCHANGED <<registryVars, cancelled>>

CancelStep(w) ==
  \/ CollectSessions(w) \/ MarkCancelled(w) \/ MarkingDone(w) \/ CaptureDrained(w)
  \/ CreateNotified(w) \/ CheckActive(w) \/ Woken(w)

-----------------------------------------------------------------------------
(* Properties.                                                             *)

\* A registered session belongs to a live entry, and an entry lives exactly as
\* long as it has sessions, however opens, drops and cancellations interleave:
\* the last drop removes the entry, with the Notify that waiters hold, and the
\* next insert starts another one (sessions.rs insert, Drop for TenantSession).
EntriesMatchSessions ==
  \A t \in Tenants : /\ entry[t] # 0 <=> sessions[t] # {}
                     /\ entry[t] \in {0, lastEntry[t]}

\* A waiter parked on a Notify still has a session to wait for: the drop of the
\* last session always wakes cancel_and_wait, so it answers true by itself and
\* not by its timeout (sessions.rs test cancel_wait_observes_session_drop).
ParkedWaiterHasSessions ==
  \A w \in Waiters :
    (At(w, "await") /\ ~waiter[w].notified) => sessions[waiter[w].tenant] # {}
=============================================================================
