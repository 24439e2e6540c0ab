--------------------------- MODULE GatewayRoutes ----------------------------
(***************************************************************************)
(* Client connections, lifecycle fences and route changes together:        *)
(* gateway/resolver.rs and the PostgreSQL and MongoDB listeners on one     *)
(* side, server/sessions.rs and subsystems/instances/route_fence.rs on the *)
(* other, over the route store and the session registry.                   *)
(*                                                                         *)
(* A connection resolves a target, registers a session, checks twice that  *)
(* the target is still current and then runs its tunnel.  A lifecycle      *)
(* operation fences the route first and cancels the registered sessions    *)
(* afterwards.  Neither side holds a lock across its steps, so everything  *)
(* below interleaves.                                                      *)
(***************************************************************************)
EXTENDS RouteStore, TenantSessions

CONSTANTS Plain, Postgres, Mongodb

Kinds == {Plain, Postgres, Mongodb}

ASSUME GatewayAssumption ==
  Tenants = Instances /\ NoSessionLimit = NoLimit /\ NoTenant = NoInstance

VARIABLES conn,         \* connection -> its kind, progress and target
          fencedAt,     \* caller of a fence -> the revision its fence gave the route
          closedUpTo,   \* history: tenant -> latest fence whose cancel() has finished
          drainedUpTo   \* history: tenant -> latest fence_and_wait() that answered true

vars == <<storeVars, sessionVars, conn, fencedAt, closedUpTo, drainedUpTo>>

fenceVars == <<fencedAt, closedUpTo, drainedUpTo>>

ConnSteps == {"idle", "scram", "resolved", "opened", "checked", "startup", "rechecked",
              "admitted", "established", "stalled", "closed"}

\* The tunnel runs; it is stalled while it waits for nothing but its client.
Tunnelling == {"established", "stalled"}

\* The steps in which the connection holds a registered session ...
Holding == {"opened", "checked", "startup", "rechecked", "admitted"} \cup Tunnelling

\* ... and those it reaches only through route_is_current.
Passed == Holding \ {"opened"}

NoTarget == [inst |-> NoInstance, meta |-> NoMetadata, rev |-> 0]

Targets == [inst : Instances \cup {NoInstance}, meta : Metadata \cup {NoMetadata}, rev : Nat]

TypeOK ==
  /\ StoreTypeOK
  /\ SessionsTypeOK
  /\ conn \in [Conns -> [pc : ConnSteps, kind : Kinds, target : Targets]]
  /\ fencedAt \in [Waiters -> Nat]
  /\ closedUpTo \in [Instances -> Nat]
  /\ drainedUpTo \in [Instances -> Nat]

Init ==
  /\ StoreInit
  /\ SessionsInit
  /\ conn \in [Conns -> [pc : {"idle"}, kind : Kinds, target : {NoTarget}]]
  /\ fencedAt = [w \in Waiters |-> 0]
  /\ closedUpTo = [i \in Instances |-> 0]
  /\ drainedUpTo = [i \in Instances |-> 0]

-----------------------------------------------------------------------------
(* A client connection.                                                    *)

ConnAt(c, pc) == conn[c].pc = pc

Inst(c) == conn[c].target.inst
Rev(c) == conn[c].target.rev
Limit(c) == conn[c].target.meta.limit

Goto(c, pc) == conn' = [conn EXCEPT ![c].pc = pc]

Current(c) == RouteIsCurrent(Inst(c), Rev(c))

\* The session is dropped with the value that owns it.
Close(c) == Goto(c, "closed") /\ DropSession(c, Inst(c)) /\ UNCHANGED <<storeVars, fenceVars>>

\* resolve_*(): by username and database, or by password alone.
Lookup ==
  (UNION {UNION {ResolveDatabaseTarget(u, d) : d \in Databases \cup {NoDatabase}} : u \in Users})
    \cup (UNION {ResolvePasswordRoute(p) : p \in Passwords})

Resolve(c) ==
  /\ ConnAt(c, "idle")
  /\ \E target \in Lookup :
       conn' = [conn EXCEPT ![c].target = target,
                            ![c].pc = IF conn[c].kind = Mongodb THEN "scram" ELSE "resolved"]
  /\ UNCHANGED <<storeVars, sessionVars, fenceVars>>

\* activate_mongodb(): the pending identity is resolved again after SCRAM.
ActivateMongodb(c) ==
  /\ ConnAt(c, "scram")
  /\ LET key == conn[c].target.meta.key
         now == ResolveDatabaseTarget(key[1], key[2])
     IN  Goto(c, IF conn[c].target \in now THEN "resolved" ELSE "closed")
  /\ UNCHANGED <<storeVars, sessionVars, fenceVars>>

\* resolve_target(): try_open() before anything else; refused at the limit.
OpenSession(c) ==
  /\ ConnAt(c, "resolved") /\ conn[c].kind # Postgres
  /\ \/ TryOpen(c, Inst(c), Limit(c)) /\ Goto(c, "opened")
     \/ ~BelowLimit(Inst(c), Limit(c)) /\ Goto(c, "closed") /\ UNCHANGED sessionVars
  /\ UNCHANGED <<storeVars, fenceVars>>

\* resolve_postgres(): the session is pending until startup has authenticated.
OpenPendingSession(c) ==
  /\ ConnAt(c, "resolved") /\ conn[c].kind = Postgres
  /\ OpenPending(c, Inst(c)) /\ Goto(c, "opened")
  /\ UNCHANGED <<storeVars, fenceVars>>

\* A session-less connection attempt that is given up by its client.
GiveUp(c) ==
  /\ conn[c].pc \in {"idle", "scram", "resolved"}
  /\ Goto(c, "closed")
  /\ UNCHANGED <<storeVars, sessionVars, fenceVars>>

CheckedGoto(c, pc) ==
  \/ Current(c) /\ Goto(c, pc) /\ UNCHANGED <<storeVars, sessionVars, fenceVars>>
  \/ ~Current(c) /\ Close(c)

\* finish_route(): once after the session is registered, once after the awaits
\* for the network and activity counters.
CheckRegistered(c) == ConnAt(c, "opened") /\ CheckedGoto(c, "checked")

MutCheckCounted(c) ==
  /\ ConnAt(c, "checked")
  /\ Goto(c, IF conn[c].kind = Postgres THEN "startup" ELSE "established")
  /\ UNCHANGED <<storeVars, sessionVars, fenceVars>>

CheckCounted(c) ==
  /\ ConnAt(c, "checked")
  /\ CheckedGoto(c, IF conn[c].kind = Postgres THEN "startup" ELSE "established")

\* The PostgreSQL listener: the route again after the backend's startup, the
\* tenant quota, and the route once more.
RecheckStartup(c) == ConnAt(c, "startup") /\ CheckedGoto(c, "rechecked")

AdmitPostgres(c) ==
  /\ ConnAt(c, "rechecked")
  /\ \/ /\ Authenticate(c, Inst(c), Limit(c)) /\ Goto(c, "admitted")
        /\ UNCHANGED <<storeVars, fenceVars>>
     \/ ~Authenticatable(c, Inst(c), Limit(c)) /\ Close(c)

FinishStartup(c) == ConnAt(c, "admitted") /\ CheckedGoto(c, "established")

\* An I/O error, the client leaving, or the handshake timeout.
Disconnect(c) == conn[c].pc \in Holding /\ Close(c)

\* The client stops reading, so that downstream waits to write what it has read
\* from the backend, and sends nothing, so that upstream waits to read: neither
\* half polls the backend.  The read that filled the buffer found no cancellation.
ClientStalls(c) ==
  /\ ConnAt(c, "established") /\ c \notin cancelled
  /\ Goto(c, "stalled")
  /\ UNCHANGED <<storeVars, sessionVars, fenceVars>>

\* The client reads or sends again, and the backend is polled next.
ClientResumes(c) ==
  /\ ConnAt(c, "stalled")
  /\ Goto(c, "established")
  /\ UNCHANGED <<storeVars, sessionVars, fenceVars>>

MutObserveInStartup(c) ==
  conn[c].pc \in {"startup", "rechecked", "admitted"} /\ c \in cancelled /\ Close(c)

\* ensure_not_cancelled() makes every read, write and flush of the backend fail,
\* and cancel() wakes the task that polled it last.
ObserveCancelled(c) ==
  conn[c].pc \in {"startup", "rechecked", "admitted", "established"} /\ c \in cancelled /\ Close(c)

-----------------------------------------------------------------------------
(* Lifecycle operations.                                                   *)

\* sessions::fence, fence_and_wait and route_fence::pin: the route first, the
\* sessions afterwards.
MutFenceBackwards(w, i, wait) ==
  /\ Known(i) /\ StartCancel(w, i, wait)
  /\ fencedAt' = [fencedAt EXCEPT ![w] = nextRevision]
  /\ UNCHANGED <<storeVars, conn, closedUpTo, drainedUpTo>>

Fence(w, i, wait) ==
  /\ FenceRoutes(i) /\ StartCancel(w, i, wait)
  /\ fencedAt' = [fencedAt EXCEPT ![w] = nextRevision']
  /\ UNCHANGED <<conn, closedUpTo, drainedUpTo>>

Pin(w, i) ==
  /\ PinRoutesFenced(i) /\ StartCancel(w, i, FALSE)
  /\ fencedAt' = [fencedAt EXCEPT ![w] = nextRevision']
  /\ UNCHANGED <<conn, closedUpTo, drainedUpTo>>

Later(a, b) == IF a < b THEN b ELSE a

FenceStep(w) ==
  /\ CancelStep(w)
  /\ LET t == waiter[w].tenant IN
     /\ closedUpTo' = IF At(w, "marking") /\ waiter'[w].pc # "marking"
                        THEN [closedUpTo EXCEPT ![t] = Later(@, fencedAt[w])] ELSE closedUpTo
     /\ drainedUpTo' = IF waiter[w].wait /\ waiter'[w].pc = "drained"
                         THEN [drainedUpTo EXCEPT ![t] = Later(@, fencedAt[w])] ELSE drainedUpTo
  /\ UNCHANGED <<storeVars, conn, fencedAt>>

FenceTimeout(w) == WaitTimeout(w) /\ UNCHANGED <<storeVars, conn, fenceVars>>

FenceReturn(w) == Return(w) /\ UNCHANGED <<storeVars, conn, fenceVars>>

Publish ==
  /\ \E i \in Instances :
       \/ \E m \in Metadata : \/ Upsert(i, m)
                              \/ UpsertFenced(i, m)
                              \/ UpsertPreservingFence(i, m)
                              \/ OpenRoutes(i, m)
       \/ Remove(i)
  /\ UNCHANGED <<sessionVars, conn, fenceVars>>

-----------------------------------------------------------------------------

ConnStep(c) ==
  \/ ActivateMongodb(c) \/ OpenSession(c) \/ OpenPendingSession(c) \/ CheckRegistered(c)
  \/ CheckCounted(c) \/ RecheckStartup(c) \/ AdmitPostgres(c) \/ FinishStartup(c)
  \/ ObserveCancelled(c)

ClientMoves(c) == GiveUp(c) \/ Disconnect(c) \/ ClientStalls(c) \/ ClientResumes(c)

Next ==
  \/ \E c \in Conns : Resolve(c) \/ ConnStep(c) \/ ClientMoves(c)
  \/ \E w \in Waiters : \/ \E i \in Instances : Pin(w, i) \/ \E b \in BOOLEAN : Fence(w, i, b)
                        \/ FenceStep(w) \/ FenceTimeout(w) \/ FenceReturn(w)
  \/ Publish

Spec == Init /\ [][Next]_vars

\* The tasks are polled by the runtime and a fence's steps never wait for a
\* client.  Handshakes are bounded by client_handshake.  A tunnel has no timeout
\* once it has forwarded a byte: it sees its cancellation unless it is stalled,
\* and nothing makes a stalled client read, send or leave.  Clients, publications
\* and new fences are not fair.
Fairness ==
  /\ \A c \in Conns : WF_vars(ConnStep(c))
  /\ \A w \in Waiters : WF_vars(FenceStep(w))

FairSpec == Spec /\ Fairness

-----------------------------------------------------------------------------
(* Properties.                                                             *)

\* Once a fence has cancelled the sessions it found, no connection that resolved
\* its route before the fence runs un-cancelled: registering before checking
\* (resolver.rs finish_route) meets fencing before cancelling (sessions.rs
\* fence: "so a reconnect can't race the fence").
FenceIsABarrier ==
  \A c \in Conns : (conn[c].pc \in Tunnelling /\ c \notin cancelled)
                     => Rev(c) > closedUpTo[Inst(c)]

\* When fence_and_wait answers true, no connection resolved before its fence is
\* left anywhere past its first route check, cancelled or not: the migration
\* worker copies the data on the strength of this answer.
DrainedIsQuiet ==
  \A c \in Conns : conn[c].pc \in Passed => Rev(c) > drainedUpTo[Inst(c)]

\* The authenticated sessions of a tenant never exceed the largest connection
\* limit its metadata can carry, although PostgreSQL takes its place in the
\* quota long after its session was opened (sessions.rs try_open, authenticate).
QuotaIsHeld ==
  \A t \in Tenants :
    \E m \in Metadata : m.limit = NoLimit \/ AuthenticatedCount(t) <= m.limit

\* The instant a connection is established its target is the published one: the
\* instance is known, unfenced and eligible, and endpoint, limit and credentials
\* are those of its current metadata, however many changes it slept through.
EstablishedIsCurrent ==
  [][\A c \in Conns :
       (conn'[c].pc \in Tunnelling /\ conn[c].pc \notin Tunnelling) =>
         /\ Inst(c) \notin fenced
         /\ instances[Inst(c)] = conn[c].target.meta
         /\ RouteEligible(instances[Inst(c)])]_vars

\* Every connection that was past its route check when its route was fenced is
\* closed in the end, unless its client stalls the tunnel for good: cancel() wakes
\* the task (sessions.rs SessionState) and the next poll of the backend fails
\* (tunnel.rs MeteredBackend).  fence_and_wait has its timeout for the stalled ones.
StaleConnectionsClose ==
  \A c \in Conns, w \in Waiters :
    \/ (conn[c].pc \in Passed /\ At(w, "cancel") /\ waiter[w].tenant = Inst(c)
         /\ Rev(c) < fencedAt[w]) ~> ConnAt(c, "closed")
    \/ <>[]ConnAt(c, "stalled")
=============================================================================
