----------------------------- MODULE RouteStore -----------------------------
(***************************************************************************)
(* The gateway's in-memory route table, server/state.rs.  InstanceStore    *)
(* wraps InstanceState in one RwLock, so each of its methods is one atomic *)
(* step.  A revision stamps every change of an instance, so a lookup made  *)
(* before an await can be recognised as stale after it.                    *)
(*                                                                         *)
(* Metadata is abstracted to the fields the table reads: the three that    *)
(* decide eligibility, the (username, database) key, the password digest   *)
(* (Redis and Valkey), the backend endpoint and the connection limit.  The *)
(* per-protocol tables are one table: the protocol is part of the key.     *)
(* A revision is a u64 bumped by one per change; it is a natural here, and *)
(* MaxRevision caps the number of changes of a behaviour.                  *)
(***************************************************************************)
EXTENDS Naturals, FiniteSets

CONSTANTS Instances, Metadata, Users, Databases, Passwords,
          NoInstance, NoMetadata, NoPassword, NoDatabase, NoLimit, MaxRevision

Keys == Users \X Databases

ASSUME StoreAssumption ==
  /\ MaxRevision \in Nat
  /\ NoInstance \notin Instances
  /\ NoMetadata \notin Metadata
  /\ NoPassword \notin Passwords
  /\ NoDatabase \notin Databases
  /\ \A m \in Metadata :
       /\ m.running \in BOOLEAN /\ m.wanted \in BOOLEAN /\ m.blocked \in BOOLEAN
       /\ m.key \in Keys
       /\ m.password \in Passwords \cup {NoPassword}
       /\ m.limit \in Nat \cup {NoLimit}

VARIABLES instances,       \* HashMap instance -> metadata
          fenced,          \* fenced_instances
          pinned,          \* pinned_fences
          revisions,       \* route_revisions, 0 where the map has no entry
          nextRevision,    \* next_route_revision
          routes,          \* (username, database) -> instance
          passwordRoutes   \* password digest -> set of instances

storeVars == <<instances, fenced, pinned, revisions, nextRevision, routes, passwordRoutes>>

StoreTypeOK ==
  /\ instances \in [Instances -> Metadata \cup {NoMetadata}]
  /\ fenced \in SUBSET Instances
  /\ pinned \in SUBSET Instances
  /\ nextRevision \in Nat
  /\ revisions \in [Instances -> Nat]
  /\ routes \in [Keys -> Instances \cup {NoInstance}]
  /\ passwordRoutes \in [Passwords -> SUBSET Instances]

StoreInit ==
  /\ instances = [i \in Instances |-> NoMetadata]
  /\ fenced = {}
  /\ pinned = {}
  /\ revisions = [i \in Instances |-> 0]
  /\ nextRevision = 0
  /\ routes = [k \in Keys |-> NoInstance]
  /\ passwordRoutes = [p \in Passwords |-> {}]

-----------------------------------------------------------------------------

RouteEligible(m) == m.running /\ m.wanted /\ ~m.blocked

Known(i) == instances[i] # NoMetadata

\* The tables without, and with, the routes of one instance.
WithoutRoutes(i) ==
  [k \in Keys |-> IF routes[k] = i THEN NoInstance ELSE routes[k]]

WithoutPassword(i) == [p \in Passwords |-> passwordRoutes[p] \ {i}]

PublishRoutes(i, m) ==
  /\ routes' = [WithoutRoutes(i) EXCEPT ![m.key] = i]
  /\ passwordRoutes' =
       [p \in Passwords |-> IF p = m.password THEN passwordRoutes[p] \cup {i}
                                              ELSE passwordRoutes[p] \ {i}]

RemoveRoutesFor(i) ==
  /\ routes' = WithoutRoutes(i)
  /\ passwordRoutes' = WithoutPassword(i)

BumpRouteRevision(i) ==
  /\ nextRevision < MaxRevision
  /\ nextRevision' = nextRevision + 1
  /\ revisions' = [revisions EXCEPT ![i] = nextRevision + 1]

-----------------------------------------------------------------------------
(* The methods that change the table.                                      *)

\* InstanceState::upsert with a given set of pins in force.
MutUpsertUnpins(i, m, pins) ==
  /\ BumpRouteRevision(i)
  /\ instances' = [instances EXCEPT ![i] = m]
  /\ fenced' = fenced \ {i}
  /\ IF RouteEligible(m) THEN PublishRoutes(i, m) ELSE RemoveRoutesFor(i)

UpsertUnder(i, m, pins) ==
  /\ BumpRouteRevision(i)
  /\ instances' = [instances EXCEPT ![i] = m]
  /\ fenced' = IF i \in pins THEN fenced \cup {i} ELSE fenced \ {i}
  /\ IF i \notin pins /\ RouteEligible(m)
       THEN PublishRoutes(i, m) ELSE RemoveRoutesFor(i)

Upsert(i, m) == UpsertUnder(i, m, pinned) /\ UNCHANGED pinned

UpsertFenced(i, m) ==
  /\ BumpRouteRevision(i)
  /\ RemoveRoutesFor(i)
  /\ fenced' = fenced \cup {i}
  /\ instances' = [instances EXCEPT ![i] = m]
  /\ UNCHANGED pinned

\* Open stays open; a fenced or closed route is not opened by new metadata.
UpsertPreservingFence(i, m) ==
  IF Known(i) /\ RouteEligible(instances[i]) /\ i \notin fenced
    THEN Upsert(i, m)
    ELSE UpsertFenced(i, m)

OpenRoutes(i, m) ==
  /\ pinned' = pinned \ {i}
  /\ UpsertUnder(i, m, pinned \ {i})

MutFenceKeepsRevision(i) ==
  /\ Known(i)
  /\ RemoveRoutesFor(i)
  /\ fenced' = fenced \cup {i}
  /\ UNCHANGED <<instances, revisions, nextRevision>>

FenceExisting(i) ==
  /\ Known(i)
  /\ BumpRouteRevision(i)
  /\ RemoveRoutesFor(i)
  /\ fenced' = fenced \cup {i}
  /\ UNCHANGED instances

FenceRoutes(i) == FenceExisting(i) /\ UNCHANGED pinned

PinRoutesFenced(i) == FenceExisting(i) /\ pinned' = pinned \cup {i}

\* The bumped revision is dropped with the entry; the counter stays bumped.
MutRemoveKeepsPassword(i) ==
  /\ nextRevision < MaxRevision
  /\ nextRevision' = nextRevision + 1
  /\ routes' = WithoutRoutes(i)
  /\ fenced' = fenced \ {i}
  /\ pinned' = pinned \ {i}
  /\ revisions' = [revisions EXCEPT ![i] = 0]
  /\ instances' = [instances EXCEPT ![i] = NoMetadata]
  /\ UNCHANGED passwordRoutes

Remove(i) ==
  /\ nextRevision < MaxRevision
  /\ nextRevision' = nextRevision + 1
  /\ RemoveRoutesFor(i)
  /\ fenced' = fenced \ {i}
  /\ pinned' = pinned \ {i}
  /\ revisions' = [revisions EXCEPT ![i] = 0]
  /\ instances' = [instances EXCEPT ![i] = NoMetadata]

-----------------------------------------------------------------------------
(* The lookups.  A target is the metadata and revision read under the lock. *)

RouteIsCurrent(i, rev) == i \notin fenced /\ revisions[i] # 0 /\ revisions[i] = rev

RouteTarget(i) == [inst |-> i, meta |-> instances[i], rev |-> revisions[i]]

\* Without a database the username must have exactly one route.
ResolveDatabaseRoute(u, d) ==
  LET named == {k \in Keys : routes[k] # NoInstance /\ k[1] = u /\ d \in {NoDatabase, k[2]}}
  IN  IF Cardinality(named) = 1 THEN {routes[k] : k \in named} ELSE {}

ResolveDatabaseTarget(u, d) ==
  {RouteTarget(i) : i \in {j \in ResolveDatabaseRoute(u, d) : Known(j)}}

ResolvePasswordRoute(p) ==
  IF Cardinality(passwordRoutes[p]) = 1
    THEN {RouteTarget(i) : i \in {j \in passwordRoutes[p] : Known(j)}}
    ELSE {}

-----------------------------------------------------------------------------

StoreNext ==
  \E i \in Instances :
    \/ \E m \in Metadata : \/ Upsert(i, m)
                           \/ UpsertFenced(i, m)
                           \/ UpsertPreservingFence(i, m)
                           \/ OpenRoutes(i, m)
    \/ FenceRoutes(i)
    \/ PinRoutesFenced(i)
    \/ Remove(i)

StoreSpec == StoreInit /\ [][StoreNext]_storeVars

-----------------------------------------------------------------------------
(* Properties.                                                             *)

\* Every published route, by name or by password, leads to an instance that is
\* known, not fenced, eligible, and whose own metadata carries that key: the
\* tables are rebuilt by four methods and must never keep a stale entry
\* (state.rs upsert, fence_existing, upsert_fenced, remove).
RoutesAreSound ==
  /\ \A k \in Keys : routes[k] # NoInstance =>
       LET i == routes[k] IN Known(i) /\ i \notin fenced /\ RouteEligible(instances[i])
                             /\ instances[i].key = k
  /\ \A p \in Passwords : \A i \in passwordRoutes[p] :
       Known(i) /\ i \notin fenced /\ RouteEligible(instances[i]) /\ instances[i].password = p

\* A pinned fence keeps its instance fenced whatever metadata is upserted, until
\* the owner opens or removes it (state.rs pin_routes_fenced, "ordinary upserts
\* can't clear a pinned fence").
PinnedStaysFenced == \A i \in pinned : Known(i) /\ i \in fenced

\* Revisions of two changes never coincide: no instance carries a revision the
\* counter has not issued, and no two instances share one, so a target read
\* before a remove and a re-create is never taken for the new instance
\* (state.rs bump_route_revision, remove).
RevisionsAreFresh ==
  /\ \A i \in Instances : revisions[i] <= nextRevision
  /\ \A i, j \in Instances : (i # j /\ revisions[i] # 0) => revisions[i] # revisions[j]
  /\ \A i \in Instances : Known(i) <=> revisions[i] # 0

\* Whatever of an instance the table holds only changes together with its
\* revision: this is what lets route_is_current stand for "nothing changed".
EveryChangeBumps ==
  [][\A i \in Instances :
       (instances'[i] # instances[i] \/ (i \in fenced) # (i \in fenced'))
         => revisions'[i] # revisions[i]]_storeVars
=============================================================================
