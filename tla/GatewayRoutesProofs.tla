------------------------ MODULE GatewayRoutesProofs -------------------------
(***************************************************************************)
(* The fence is a barrier, for any number of tenants, connections, fences  *)
(* and publications.  The argument has two halves.  Revisions: whatever    *)
(* happens to an instance, its revision is at least that of every fence    *)
(* of it and strictly above it while it is open, so a connection can only  *)
(* pass route_is_current with a target newer than every fence.  Sessions:  *)
(* a connection past that check is registered, so the collect step of a    *)
(* later fence finds it.                                                   *)
(***************************************************************************)
EXTENDS GatewayRoutes, RouteStoreProofs

\* Revisions of fences: each is issued, none is above its instance's revision,
\* and an open instance is strictly above.
AboveFences(i, r) ==
  /\ r <= nextRevision
  /\ revisions[i] # 0 => r <= revisions[i]
  /\ (revisions[i] # 0 /\ i \notin fenced) => r < revisions[i]

FencesAreOld ==
  /\ \A w \in Waiters : waiter[w].pc # "idle" =>
       waiter[w].tenant \in Instances /\ AboveFences(waiter[w].tenant, fencedAt[w])
  /\ \A i \in Instances : AboveFences(i, closedUpTo[i]) /\ AboveFences(i, drainedUpTo[i])

\* A connection's target was published under its revision, and still is what the
\* store holds if the revision is unchanged.
Resolved(c) == conn[c].pc \notin {"idle", "closed"}

TargetsAreSnapshots ==
  \A c \in Conns : Resolved(c) =>
    /\ Inst(c) \in Instances
    /\ conn[c].target.meta \in Metadata /\ RouteEligible(conn[c].target.meta)
    /\ Rev(c) # 0 /\ Rev(c) <= nextRevision
    /\ revisions[Inst(c)] = Rev(c) => instances[Inst(c)] = conn[c].target.meta

\* A connection that holds a session is registered, under a live entry.
HoldersAreRegistered ==
  \A c \in Conns : conn[c].pc \in Holding => c \in sessions[Inst(c)]

\* What a fence has found or marked by the time it reaches each step.
Barrier ==
  \A c \in Conns : conn[c].pc \in Passed =>
    /\ \A w \in Waiters : (At(w, "marking") /\ waiter[w].tenant = Inst(c) /\ Rev(c) <= fencedAt[w])
                            => c \in cancelled \cup waiter[w].marks
    /\ Rev(c) <= closedUpTo[Inst(c)] => c \in cancelled
    /\ Rev(c) > drainedUpTo[Inst(c)]

Inv ==
  /\ TypeOK
  /\ RoutesAreSound /\ PinnedStaysFenced /\ RevisionsAreFresh
  /\ EntriesMatchSessions
  /\ FencesAreOld
  /\ TargetsAreSnapshots
  /\ HoldersAreRegistered
  /\ Barrier

-----------------------------------------------------------------------------
(* Facts about one step.                                                   *)

LEMMA InvGivesStoreInv == Inv => StoreInv
  BY DEF Inv, TypeOK, StoreInv

LEMMA InitInv == Init => Inv
PROOF
  <1> SUFFICES ASSUME Init PROVE Inv
    OBVIOUS
  <1> USE StoreAssumption, SessionsAssumption, GatewayAssumption
  <1>1. StoreInv
    BY InitStore DEF Init
  <1>2. SessionsTypeOK /\ EntriesMatchSessions
    BY DEF Init, SessionsInit, SessionsTypeOK, IdleWaiter, WaiterSteps, EntriesMatchSessions
  <1>3. conn \in [Conns -> [pc : ConnSteps, kind : Kinds, target : Targets]]
    BY DEF Init, ConnSteps, Targets, NoTarget
  <1>4. \A c \in Conns : conn[c].pc = "idle"
    BY DEF Init
  <1>5. \A w \in Waiters : waiter[w].pc = "idle"
    BY DEF Init, SessionsInit, IdleWaiter
  <1>6. TypeOK
    BY <1>1, <1>2, <1>3 DEF TypeOK, Init, StoreInv
  <1>7. FencesAreOld
    BY <1>5 DEF FencesAreOld, AboveFences, Init, StoreInit
  <1>8. TargetsAreSnapshots /\ HoldersAreRegistered /\ Barrier
    BY <1>4 DEF TargetsAreSnapshots, Resolved, HoldersAreRegistered, Barrier, Holding, Tunnelling, Passed
  <1> QED BY <1>1, <1>2, <1>6, <1>7, <1>8 DEF Inv, StoreInv

\* A revision issued before a change stays below the changed instance.
LEMMA StampsKeepAbove ==
  ASSUME StoreTypeOK, NEW i \in Instances, Stamps(i), NEW j \in Instances, NEW r \in Nat,
         AboveFences(j, r)
  PROVE  AboveFences(j, r)'
  BY DEF AboveFences, Stamps, StoreTypeOK

\* A change of the store leaves every snapshot either untouched or out of date.
LEMMA StampsKeepTargets ==
  ASSUME TypeOK, TargetsAreSnapshots, NEW i \in Instances, Stamps(i), UNCHANGED conn
  PROVE  TargetsAreSnapshots'
PROOF
  <1> SUFFICES ASSUME NEW c \in Conns, Resolved(c)'
               PROVE  /\ Inst(c)' \in Instances
                      /\ conn'[c].target.meta \in Metadata /\ RouteEligible(conn'[c].target.meta)
                      /\ Rev(c)' # 0 /\ Rev(c)' <= nextRevision'
                      /\ revisions'[Inst(c)'] = Rev(c)' => instances'[Inst(c)'] = conn'[c].target.meta
    BY DEF TargetsAreSnapshots, Inst, Rev, RouteEligible
  <1>1. /\ Inst(c) \in Instances /\ Rev(c) \in Nat /\ Rev(c) # 0 /\ Rev(c) <= nextRevision
        /\ conn[c].target.meta \in Metadata /\ RouteEligible(conn[c].target.meta)
        /\ revisions[Inst(c)] = Rev(c) => instances[Inst(c)] = conn[c].target.meta
    BY DEF TargetsAreSnapshots, Resolved, TypeOK, Targets, Rev, Inst
  <1>2. nextRevision' = nextRevision + 1 /\ nextRevision \in Nat
    BY DEF Stamps, TypeOK, StoreTypeOK
  <1>3. revisions'[Inst(c)] = Rev(c) => instances'[Inst(c)] = conn[c].target.meta
    <2>1. CASE Inst(c) = i
      BY <1>1, <1>2, <2>1 DEF Stamps
    <2>2. CASE Inst(c) # i
      BY <1>1, <2>2 DEF Stamps
    <2> QED BY <2>1, <2>2
  <1> QED BY <1>1, <1>2, <1>3 DEF Inst, Rev

LEMMA PublishStep ==
  ASSUME Inv, NEW i \in Instances, Stamps(i), StoreInv', UNCHANGED <<sessionVars, conn, fenceVars>>
  PROVE  Inv'
PROOF
  <1>1. TypeOK' /\ EntriesMatchSessions'
    BY DEF Inv, TypeOK, StoreInv, SessionsTypeOK, sessionVars, fenceVars, EntriesMatchSessions
  <1>2. FencesAreOld'
    <2>1. \A w \in Waiters : fencedAt[w] \in Nat
      BY DEF Inv, TypeOK
    <2>2. \A j \in Instances : closedUpTo[j] \in Nat /\ drainedUpTo[j] \in Nat
      BY DEF Inv, TypeOK
    <2>3. \A j \in Instances : \A r \in Nat : AboveFences(j, r) => AboveFences(j, r)'
      BY StampsKeepAbove DEF Inv, TypeOK
    <2>4. UNCHANGED <<waiter, fencedAt, closedUpTo, drainedUpTo>>
      BY DEF sessionVars, fenceVars
    <2> QED BY <2>1, <2>2, <2>3, <2>4 DEF Inv, FencesAreOld, AboveFences
  <1>3. TargetsAreSnapshots'
    BY StampsKeepTargets DEF Inv
  <1>4. HoldersAreRegistered' /\ Barrier'
    BY DEF Inv, HoldersAreRegistered, Barrier, At, Inst, Rev, sessionVars, fenceVars
  <1> QED BY <1>1, <1>2, <1>3, <1>4 DEF Inv, StoreInv

\* A caller enters a fence: the store is stamped, the caller leaves "idle".
LEMMA StartFenceStep ==
  ASSUME Inv, NEW i \in Instances, NEW w \in Waiters, NEW wait \in BOOLEAN,
         FenceExisting(i), pinned' = pinned \/ pinned' = pinned \cup {i},
         StartCancel(w, i, wait), fencedAt' = [fencedAt EXCEPT ![w] = nextRevision'],
         UNCHANGED <<conn, closedUpTo, drainedUpTo>>
  PROVE  Inv'
PROOF
  <1> USE GatewayAssumption
  <1>1. StoreInv' /\ Stamps(i)
    BY FenceExistingStep, InvGivesStoreInv
  <1>2. /\ nextRevision \in Nat /\ nextRevision' = nextRevision + 1
        /\ revisions'[i] = nextRevision' /\ i \in fenced'
    BY DEF FenceExisting, BumpRouteRevision, Inv, TypeOK, StoreTypeOK
  <1>3. /\ waiter' \in [Waiters -> [pc : WaiterSteps, tenant : Tenants \cup {NoTenant},
                                    wait : BOOLEAN, marks : SUBSET Conns,
                                    on : Nat, notified : BOOLEAN]]
        /\ waiter'[w].pc = "cancel" /\ waiter'[w].tenant = i
        /\ \A v \in Waiters \ {w} : waiter'[v] = waiter[v]
    BY DEF StartCancel, IdleWaiter, WaiterSteps, Inv, TypeOK, SessionsTypeOK
  <1>4. /\ fencedAt' \in [Waiters -> Nat] /\ fencedAt'[w] = nextRevision'
        /\ \A v \in Waiters \ {w} : fencedAt'[v] = fencedAt[v]
    BY <1>2 DEF Inv, TypeOK
  <1>5. UNCHANGED <<sessions, entry, lastEntry, authenticated, cancelled>>
    BY DEF StartCancel, registryVars
  <1>6. TypeOK' /\ EntriesMatchSessions'
    BY <1>1, <1>3, <1>4, <1>5
       DEF Inv, TypeOK, StoreInv, SessionsTypeOK, EntriesMatchSessions
  <1>7. FencesAreOld'
    <2>1. \A j \in Instances : \A r \in Nat : AboveFences(j, r) => AboveFences(j, r)'
      BY <1>1, StampsKeepAbove DEF Inv, TypeOK
    <2>2. ASSUME NEW v \in Waiters, waiter'[v].pc # "idle"
          PROVE  waiter'[v].tenant \in Instances /\ AboveFences(waiter[v].tenant, fencedAt[v])'
      <3>1. CASE v = w
        BY <1>2, <1>3, <1>4, <3>1 DEF AboveFences
      <3>2. CASE v # w
        <4>1. /\ waiter'[v] = waiter[v] /\ fencedAt'[v] = fencedAt[v] /\ fencedAt[v] \in Nat
              /\ waiter[v].tenant \in Instances /\ AboveFences(waiter[v].tenant, fencedAt[v])
          BY <1>3, <1>4, <2>2, <3>2 DEF Inv, FencesAreOld, TypeOK
        <4> QED BY <2>1, <4>1 DEF AboveFences
      <3> QED BY <3>1, <3>2
    <2>3. \A j \in Instances : AboveFences(j, closedUpTo[j])' /\ AboveFences(j, drainedUpTo[j])'
      <3>1. \A j \in Instances : closedUpTo[j] \in Nat /\ drainedUpTo[j] \in Nat
        BY DEF Inv, TypeOK
      <3> QED BY <2>1, <3>1 DEF Inv, FencesAreOld, AboveFences
    <2> QED BY <2>2, <2>3 DEF FencesAreOld, AboveFences
  <1>8. TargetsAreSnapshots'
    BY <1>1, StampsKeepTargets DEF Inv
  <1>9. HoldersAreRegistered'
    BY <1>5 DEF Inv, HoldersAreRegistered, Inst
  <1>10. Barrier'
    <2>1. \A v \in Waiters : At(v, "marking")' => v # w /\ At(v, "marking")
      BY <1>3 DEF At
    <2> QED BY <1>3, <1>4, <1>5, <2>1 DEF Inv, Barrier, At, Inst, Rev
  <1> QED BY <1>1, <1>6, <1>7, <1>8, <1>9, <1>10 DEF Inv, StoreInv

-----------------------------------------------------------------------------
(* Steps of a connection.                                                  *)

\* The store and the fences stand still while a connection moves.
LEMMA StoreStands ==
  ASSUME Inv, UNCHANGED <<storeVars, fenceVars>>
  PROVE  /\ StoreTypeOK' /\ RoutesAreSound' /\ PinnedStaysFenced' /\ RevisionsAreFresh'
         /\ \A j \in Instances : \A r \in Nat : AboveFences(j, r) => AboveFences(j, r)'
  BY DEF Inv, TypeOK, StoreTypeOK, RoutesAreSound, PinnedStaysFenced, RevisionsAreFresh, Known,
         RouteEligible, AboveFences, storeVars

\* A connection without a session changes its own record only.
LEMMA SessionlessStep ==
  ASSUME Inv, NEW c \in Conns, UNCHANGED <<storeVars, sessionVars, fenceVars>>,
         conn' \in [Conns -> [pc : ConnSteps, kind : Kinds, target : Targets]],
         \A d \in Conns \ {c} : conn'[d] = conn[d],
         conn'[c].pc \notin Holding,
         conn'[c].pc # "closed" =>
           /\ conn'[c].target.inst \in Instances
           /\ conn'[c].target.meta \in Metadata /\ RouteEligible(conn'[c].target.meta)
           /\ conn'[c].target.rev # 0 /\ conn'[c].target.rev <= nextRevision
           /\ revisions[conn'[c].target.inst] = conn'[c].target.rev
                => instances[conn'[c].target.inst] = conn'[c].target.meta
  PROVE  Inv'
PROOF
  <1>1. TypeOK' /\ EntriesMatchSessions'
    BY StoreStands DEF Inv, TypeOK, SessionsTypeOK, sessionVars, fenceVars, EntriesMatchSessions
  <1>2. FencesAreOld'
    BY StoreStands DEF Inv, FencesAreOld, AboveFences, TypeOK, sessionVars, fenceVars, storeVars
  <1>3. TargetsAreSnapshots'
    <2> SUFFICES ASSUME NEW d \in Conns, Resolved(d)'
                 PROVE  /\ Inst(d)' \in Instances
                        /\ conn'[d].target.meta \in Metadata /\ RouteEligible(conn'[d].target.meta)
                        /\ Rev(d)' # 0 /\ Rev(d)' <= nextRevision'
                        /\ revisions'[Inst(d)'] = Rev(d)' => instances'[Inst(d)'] = conn'[d].target.meta
      BY DEF TargetsAreSnapshots, Inst, Rev, RouteEligible
    <2>1. CASE d = c
      BY <2>1 DEF Inst, Rev, Resolved, storeVars
    <2>2. CASE d # c
      BY <2>2 DEF Inv, TargetsAreSnapshots, Inst, Rev, Resolved, storeVars
    <2> QED BY <2>1, <2>2
  <1>4. HoldersAreRegistered' /\ Barrier'
    BY DEF Inv, HoldersAreRegistered, Barrier, Passed, At, Inst, Rev, sessionVars, fenceVars
  <1> QED BY <1>1, <1>2, <1>3, <1>4, StoreStands DEF Inv

\* What a lookup returns is published: eligible, and stamped by the store.
LEMMA LookupIsPublished ==
  ASSUME Inv, NEW target \in Lookup
  PROVE  /\ target \in Targets
         /\ target.inst \in Instances /\ target.meta \in Metadata /\ RouteEligible(target.meta)
         /\ target.rev = revisions[target.inst] /\ target.rev # 0
         /\ target.meta = instances[target.inst]
PROOF
  <1> USE StoreAssumption
  <1>1. PICK i \in Instances : /\ Known(i) /\ target = RouteTarget(i)
                               /\ \/ \E k \in Keys : routes[k] = i
                                  \/ \E p \in Passwords : i \in passwordRoutes[p]
    <2>1. ASSUME NEW u \in Users, NEW d \in Databases \cup {NoDatabase},
                 target \in ResolveDatabaseTarget(u, d)
          PROVE  \E i \in Instances : /\ Known(i) /\ target = RouteTarget(i)
                                      /\ \E k \in Keys : routes[k] = i
      <3>1. PICK j \in ResolveDatabaseRoute(u, d) : Known(j) /\ target = RouteTarget(j)
        BY <2>1 DEF ResolveDatabaseTarget
      <3>2. PICK k \in Keys : routes[k] = j /\ routes[k] # NoInstance
        BY <3>1 DEF ResolveDatabaseRoute
      <3>3. j \in Instances
        BY <3>2 DEF Inv, TypeOK, StoreTypeOK
      <3> QED BY <3>1, <3>2, <3>3
    <2>2. ASSUME NEW p \in Passwords, target \in ResolvePasswordRoute(p)
          PROVE  \E i \in Instances : /\ Known(i) /\ target = RouteTarget(i)
                                      /\ i \in passwordRoutes[p]
      <3>1. PICK j \in passwordRoutes[p] : Known(j) /\ target = RouteTarget(j)
        BY <2>2 DEF ResolvePasswordRoute
      <3>2. j \in Instances
        BY <3>1 DEF Inv, TypeOK, StoreTypeOK
      <3> QED BY <3>1, <3>2
    <2>3. \/ \E u \in Users, d \in Databases \cup {NoDatabase} : target \in ResolveDatabaseTarget(u, d)
          \/ \E p \in Passwords : target \in ResolvePasswordRoute(p)
      <3>1. CASE target \in UNION {ResolvePasswordRoute(p) : p \in Passwords}
        BY <3>1, Zenon
      <3>2. CASE target \in UNION {UNION {ResolveDatabaseTarget(u, d) : d \in Databases \cup {NoDatabase}}
                                    : u \in Users}
        <4>1. PICK u \in Users :
                target \in UNION {ResolveDatabaseTarget(u, d) : d \in Databases \cup {NoDatabase}}
          BY <3>2, Zenon
        <4>2. PICK d \in Databases \cup {NoDatabase} : target \in ResolveDatabaseTarget(u, d)
          BY <4>1, Zenon
        <4> QED BY <4>2
      <3> QED BY <3>1, <3>2, Zenon DEF Lookup
    <2> QED BY <2>1, <2>2, <2>3
  <1>2. RouteEligible(instances[i])
    BY <1>1 DEF Inv, RoutesAreSound
  <1>3. revisions[i] # 0 /\ revisions[i] \in Nat /\ instances[i] \in Metadata
    BY <1>1 DEF Inv, RevisionsAreFresh, TypeOK, StoreTypeOK, Known
  <1> QED BY <1>1, <1>2, <1>3 DEF RouteTarget, Targets

LEMMA ResolveStep == ASSUME Inv, NEW c \in Conns, Resolve(c) PROVE Inv'
PROOF
  <1>1. PICK target \in Lookup :
          conn' = [conn EXCEPT ![c].target = target,
                               ![c].pc = IF conn[c].kind = Mongodb THEN "scram" ELSE "resolved"]
    BY DEF Resolve
  <1>2. /\ target \in Targets
        /\ target.inst \in Instances /\ target.meta \in Metadata /\ RouteEligible(target.meta)
        /\ target.rev = revisions[target.inst] /\ target.rev # 0
        /\ target.meta = instances[target.inst]
    BY LookupIsPublished
  <1>3. /\ conn' \in [Conns -> [pc : ConnSteps, kind : Kinds, target : Targets]]
        /\ \A d \in Conns \ {c} : conn'[d] = conn[d]
        /\ conn'[c].pc \in {"scram", "resolved"} /\ conn'[c].target = target
    BY <1>1, <1>2 DEF Inv, TypeOK, ConnSteps
  <1>4. target.rev <= nextRevision
    BY <1>2 DEF Inv, RevisionsAreFresh
  <1>5. UNCHANGED <<storeVars, sessionVars, fenceVars>>
    BY DEF Resolve
  <1> QED BY <1>2, <1>3, <1>4, <1>5, SessionlessStep DEF Holding, Tunnelling

\* ActivateMongodb and GiveUp only move a connection that has no session.
LEMMA MoveSessionlessStep ==
  ASSUME Inv, NEW c \in Conns, NEW pc \in {"resolved", "closed"},
         pc = "closed" \/ conn[c].pc = "scram", Goto(c, pc),
         UNCHANGED <<storeVars, sessionVars, fenceVars>>
  PROVE  Inv'
PROOF
  <1>1. /\ conn' \in [Conns -> [pc : ConnSteps, kind : Kinds, target : Targets]]
        /\ \A d \in Conns \ {c} : conn'[d] = conn[d]
        /\ conn'[c].pc = pc /\ conn'[c].target = conn[c].target
    BY DEF Goto, Inv, TypeOK, ConnSteps
  <1>2. pc # "closed" => Resolved(c)
    BY DEF Resolved
  <1> QED BY <1>1, <1>2, SessionlessStep DEF Holding, Tunnelling, Inv, TargetsAreSnapshots, Inst, Rev

\* The session of a connection is registered, not yet past any check.
LEMMA OpenStep ==
  ASSUME Inv, NEW c \in Conns, ConnAt(c, "resolved"), NEW auth \in BOOLEAN,
         Insert(c, Inst(c), auth), Goto(c, "opened"), UNCHANGED <<storeVars, fenceVars>>
  PROVE  Inv'
PROOF
  <1> USE GatewayAssumption
  <1>1. /\ conn' \in [Conns -> [pc : ConnSteps, kind : Kinds, target : Targets]]
        /\ \A d \in Conns : conn'[d].target = conn[d].target
        /\ \A d \in Conns \ {c} : conn'[d] = conn[d]
        /\ conn'[c].pc = "opened"
    BY DEF Goto, Inv, TypeOK, ConnSteps
  <1>2. Inst(c) \in Instances
    BY DEF Inv, TargetsAreSnapshots, Resolved, ConnAt
  <1>3. /\ SessionsTypeOK' /\ EntriesMatchSessions'
        /\ \A t \in Tenants : sessions[t] \subseteq sessions'[t]
        /\ c \in sessions'[Inst(c)]
        /\ UNCHANGED <<waiter, cancelled>>
    <2>1. /\ sessions' = [sessions EXCEPT ![Inst(c)] = @ \cup {c}]
          /\ UNCHANGED <<waiter, cancelled>>
          /\ authenticated' \in SUBSET Conns
      BY DEF Insert, Inv, TypeOK, SessionsTypeOK
    <2>2. /\ entry' \in [Tenants -> Nat] /\ lastEntry' \in [Tenants -> Nat]
          /\ \A t \in Tenants \ {Inst(c)} : entry'[t] = entry[t] /\ lastEntry'[t] = lastEntry[t]
          /\ entry'[Inst(c)] # 0 /\ entry'[Inst(c)] = lastEntry'[Inst(c)]
      <3>0. /\ entry \in [Tenants -> Nat] /\ lastEntry \in [Tenants -> Nat]
            /\ Inst(c) \in Tenants
        BY <1>2 DEF Inv, TypeOK, SessionsTypeOK
      <3>1. CASE entry[Inst(c)] = 0
        <4>1. /\ lastEntry' = [lastEntry EXCEPT ![Inst(c)] = lastEntry[Inst(c)] + 1]
              /\ entry' = [entry EXCEPT ![Inst(c)] = lastEntry[Inst(c)] + 1]
          BY <3>1 DEF Insert
        <4>2. lastEntry[Inst(c)] + 1 \in Nat /\ lastEntry[Inst(c)] + 1 # 0
          BY <3>0
        <4> QED BY <3>0, <4>1, <4>2
      <3>2. CASE entry[Inst(c)] # 0
        BY <3>0, <3>2 DEF Insert, Inv, EntriesMatchSessions
      <3> QED BY <3>1, <3>2
    <2>3. SessionsTypeOK'
      BY <2>1, <2>2 DEF Inv, TypeOK, SessionsTypeOK
    <2>4. EntriesMatchSessions'
      BY <1>2, <2>1, <2>2 DEF Inv, TypeOK, SessionsTypeOK, EntriesMatchSessions
    <2> QED BY <1>2, <2>1, <2>3, <2>4 DEF Inv, TypeOK, SessionsTypeOK
  <1>4. TypeOK'
    BY <1>1, <1>3, StoreStands DEF TypeOK, Inv, fenceVars
  <1>5. FencesAreOld'
    BY <1>3, StoreStands DEF Inv, FencesAreOld, AboveFences, TypeOK, fenceVars, storeVars
  <1>6. TargetsAreSnapshots'
    BY <1>1 DEF Inv, TargetsAreSnapshots, Resolved, ConnAt, Inst, Rev, storeVars
  <1>7. HoldersAreRegistered'
    <2> SUFFICES ASSUME NEW d \in Conns, conn'[d].pc \in Holding PROVE d \in sessions'[Inst(d)']
      BY DEF HoldersAreRegistered
    <2>1. CASE d = c
      BY <1>1, <1>3, <2>1 DEF Inst
    <2>2. CASE d # c
      <3>1. conn[d].pc \in Holding /\ Inst(d)' = Inst(d) /\ Inst(d) \in Tenants
        BY <1>1, <2>2 DEF Inst, Inv, TargetsAreSnapshots, Resolved, Holding, Tunnelling
      <3> QED BY <1>3, <3>1 DEF Inv, HoldersAreRegistered
    <2> QED BY <2>1, <2>2
  <1>8. Barrier'
    BY <1>1, <1>3 DEF Inv, Barrier, Passed, Holding, Tunnelling, At, Inst, Rev, fenceVars
  <1> QED BY <1>3, <1>4, <1>5, <1>6, <1>7, <1>8, StoreStands DEF Inv

\* A connection that finds its route current is newer than every fence of it.
LEMMA PassStep ==
  ASSUME Inv, NEW c \in Conns, conn[c].pc \in Holding, Current(c), NEW pc \in Passed, Goto(c, pc),
         UNCHANGED <<storeVars, sessionVars, fenceVars>>
  PROVE  Inv'
PROOF
  <1>1. /\ conn' \in [Conns -> [pc : ConnSteps, kind : Kinds, target : Targets]]
        /\ \A d \in Conns : conn'[d].target = conn[d].target
        /\ \A d \in Conns \ {c} : conn'[d] = conn[d]
        /\ conn'[c].pc = pc
    BY DEF Goto, Inv, TypeOK, ConnSteps, Passed, Holding, Tunnelling
  <1>2. /\ Inst(c) \in Instances /\ Inst(c) \notin fenced
        /\ revisions[Inst(c)] = Rev(c) /\ Rev(c) # 0 /\ Rev(c) \in Nat
    BY DEF Inv, TargetsAreSnapshots, Resolved, Holding, Tunnelling, Current, RouteIsCurrent, TypeOK, Targets, Rev,
           Inst, StoreTypeOK
  <1>3. /\ closedUpTo[Inst(c)] < Rev(c) /\ drainedUpTo[Inst(c)] < Rev(c)
        /\ \A w \in Waiters : (At(w, "marking") /\ waiter[w].tenant = Inst(c)) => fencedAt[w] < Rev(c)
    BY <1>2 DEF Inv, FencesAreOld, AboveFences, At
  <1>4. TypeOK' /\ EntriesMatchSessions'
    BY <1>1, StoreStands DEF Inv, TypeOK, SessionsTypeOK, sessionVars, fenceVars, EntriesMatchSessions
  <1>5. FencesAreOld'
    BY StoreStands DEF Inv, FencesAreOld, AboveFences, TypeOK, sessionVars, fenceVars, storeVars
  <1>6. TargetsAreSnapshots'
    BY <1>1 DEF Inv, TargetsAreSnapshots, Resolved, Holding, Tunnelling, Inst, Rev, storeVars
  <1>7. HoldersAreRegistered'
    BY <1>1 DEF Inv, HoldersAreRegistered, Inst, sessionVars
  <1>8. Barrier'
    <2> SUFFICES ASSUME NEW d \in Conns, conn'[d].pc \in Passed
                 PROVE  /\ \A w \in Waiters : (At(w, "marking") /\ waiter[w].tenant = Inst(d)
                                               /\ Rev(d) <= fencedAt[w]) => d \in cancelled \cup waiter[w].marks
                        /\ Rev(d) <= closedUpTo[Inst(d)] => d \in cancelled
                        /\ Rev(d) > drainedUpTo[Inst(d)]
      BY <1>1 DEF Barrier, At, Inst, Rev, sessionVars, fenceVars
    <2>1. CASE d = c
      <3>1. \A w \in Waiters : fencedAt[w] \in Nat
        BY DEF Inv, TypeOK
      <3>2. closedUpTo[Inst(c)] \in Nat /\ drainedUpTo[Inst(c)] \in Nat
        BY <1>2 DEF Inv, TypeOK
      <3>3. ~(Rev(c) <= closedUpTo[Inst(c)]) /\ Rev(c) > drainedUpTo[Inst(c)]
        BY <1>2, <1>3, <3>2
      <3>4. \A w \in Waiters : (At(w, "marking") /\ waiter[w].tenant = Inst(c)) => ~(Rev(c) <= fencedAt[w])
        BY <1>2, <1>3, <3>1
      <3> QED BY <2>1, <3>3, <3>4
    <2>2. CASE d # c
      BY <1>1, <2>2 DEF Inv, Barrier
    <2> QED BY <2>1, <2>2
  <1> QED BY <1>4, <1>5, <1>6, <1>7, <1>8, StoreStands DEF Inv

\* A connection that stays behind the route check: the client stalls the tunnel, or moves again.
LEMMA TunnelStep ==
  ASSUME Inv, NEW c \in Conns, conn[c].pc \in Passed, NEW pc \in Passed, Goto(c, pc),
         UNCHANGED <<storeVars, sessionVars, fenceVars>>
  PROVE  Inv'
PROOF
  <1>1. /\ conn' \in [Conns -> [pc : ConnSteps, kind : Kinds, target : Targets]]
        /\ \A d \in Conns : conn'[d].target = conn[d].target
        /\ \A d \in Conns \ {c} : conn'[d] = conn[d]
        /\ conn'[c].pc = pc
    BY DEF Goto, Inv, TypeOK, ConnSteps, Passed, Holding, Tunnelling
  <1>2. TypeOK' /\ EntriesMatchSessions'
    BY <1>1, StoreStands DEF Inv, TypeOK, SessionsTypeOK, sessionVars, fenceVars, EntriesMatchSessions
  <1>3. FencesAreOld'
    BY StoreStands DEF Inv, FencesAreOld, AboveFences, TypeOK, sessionVars, fenceVars, storeVars
  <1>4. TargetsAreSnapshots'
    BY <1>1 DEF Inv, TargetsAreSnapshots, Resolved, Passed, Holding, Tunnelling, Inst, Rev, storeVars
  <1>5. \A d \in Conns : conn'[d].pc \in Passed => conn[d].pc \in Passed
    BY <1>1
  <1>6. HoldersAreRegistered'
    BY <1>1 DEF Inv, HoldersAreRegistered, Passed, Inst, sessionVars
  <1>7. Barrier'
    BY <1>1, <1>5 DEF Inv, Barrier, At, Inst, Rev, sessionVars, fenceVars
  <1> QED BY <1>2, <1>3, <1>4, <1>6, <1>7, StoreStands DEF Inv

LEMMA CloseStep == ASSUME Inv, NEW c \in Conns, conn[c].pc \in Holding, Close(c) PROVE Inv'
PROOF
  <1> USE GatewayAssumption
  <1>1. /\ conn' \in [Conns -> [pc : ConnSteps, kind : Kinds, target : Targets]]
        /\ \A d \in Conns : conn'[d].target = conn[d].target
        /\ \A d \in Conns \ {c} : conn'[d] = conn[d]
        /\ conn'[c].pc = "closed"
    BY DEF Close, Goto, Inv, TypeOK, ConnSteps
  <1>2. Inst(c) \in Instances /\ c \in sessions[Inst(c)]
    BY DEF Inv, TargetsAreSnapshots, HoldersAreRegistered, Resolved, Holding, Tunnelling
  <1>3. /\ waiter' \in [Waiters -> [pc : WaiterSteps, tenant : Tenants \cup {NoTenant},
                                    wait : BOOLEAN, marks : SUBSET Conns,
                                    on : Nat, notified : BOOLEAN]]
        /\ \A w \in Waiters : /\ waiter'[w].pc = waiter[w].pc
                              /\ waiter'[w].tenant = waiter[w].tenant
                              /\ waiter'[w].marks = waiter[w].marks
    <2> DEFINE R == [pc : WaiterSteps, tenant : Tenants \cup {NoTenant}, wait : BOOLEAN,
                     marks : SUBSET Conns, on : Nat, notified : BOOLEAN]
    <2>1. waiter \in [Waiters -> R]
      BY DEF Inv, TypeOK, SessionsTypeOK
    <2>2. \A r \in R : LET s == [r EXCEPT !.notified = TRUE]
                       IN  s \in R /\ s.pc = r.pc /\ s.tenant = r.tenant /\ s.marks = r.marks
      OBVIOUS
    <2>3. \A w \in Waiters : waiter'[w] \in {waiter[w], [waiter[w] EXCEPT !.notified = TRUE]}
      BY DEF Close, DropSession, Notify
    <2>4. waiter' = [w \in Waiters |-> waiter'[w]]
      BY DEF Close, DropSession, Notify
    <2>5. \A w \in Waiters : /\ waiter'[w] \in R /\ waiter'[w].pc = waiter[w].pc
                             /\ waiter'[w].tenant = waiter[w].tenant
                             /\ waiter'[w].marks = waiter[w].marks
      BY <2>1, <2>2, <2>3
    <2>6. waiter' \in [Waiters -> R]
      <3> HIDE DEF R
      <3> QED BY <2>4, <2>5
    <2> QED BY <2>5, <2>6
  <1>4. /\ sessions' = [sessions EXCEPT ![Inst(c)] = @ \ {c}]
        /\ entry' = [entry EXCEPT ![Inst(c)] = IF sessions[Inst(c)] = {c} THEN 0 ELSE @]
        /\ UNCHANGED <<lastEntry, authenticated, cancelled, storeVars, fenceVars>>
    BY DEF Close, DropSession
  <1>5. SessionsTypeOK' /\ EntriesMatchSessions'
    BY <1>2, <1>3, <1>4 DEF Inv, TypeOK, SessionsTypeOK, EntriesMatchSessions
  <1>6. TypeOK'
    BY <1>1, <1>4, <1>5, StoreStands DEF TypeOK, Inv, fenceVars
  <1>7. FencesAreOld'
    BY <1>3, <1>4, StoreStands DEF Inv, FencesAreOld, AboveFences, TypeOK, fenceVars, storeVars
  <1>8. TargetsAreSnapshots'
    BY <1>1, <1>4 DEF Inv, TargetsAreSnapshots, Resolved, Inst, Rev, storeVars
  <1>9. HoldersAreRegistered'
    <2> SUFFICES ASSUME NEW d \in Conns, conn'[d].pc \in Holding PROVE d \in sessions'[Inst(d)']
      BY DEF HoldersAreRegistered
    <2>1. d # c /\ conn[d].pc \in Holding /\ Inst(d)' = Inst(d) /\ Inst(d) \in Tenants
      BY <1>1 DEF Inst, Inv, TargetsAreSnapshots, Resolved, Holding, Tunnelling
    <2>2. d \in sessions[Inst(d)]
      BY <2>1 DEF Inv, HoldersAreRegistered
    <2> QED BY <1>2, <1>4, <2>1, <2>2 DEF Inv, TypeOK, SessionsTypeOK
  <1>10. Barrier'
    <2> SUFFICES ASSUME NEW d \in Conns, conn'[d].pc \in Passed
                 PROVE  /\ \A w \in Waiters : (At(w, "marking") /\ waiter[w].tenant = Inst(d)
                                               /\ Rev(d) <= fencedAt[w]) => d \in cancelled \cup waiter[w].marks
                        /\ Rev(d) <= closedUpTo[Inst(d)] => d \in cancelled
                        /\ Rev(d) > drainedUpTo[Inst(d)]
      BY <1>1, <1>3, <1>4 DEF Barrier, At, Inst, Rev, fenceVars
    <2>1. d # c => conn'[d] = conn[d]
      BY <1>1
    <2>2. d # c
      BY <1>1 DEF Passed, Holding, Tunnelling
    <2>3. conn[d].pc \in Passed
      BY <2>1, <2>2
    <2> QED BY <2>3 DEF Inv, Barrier
  <1> QED BY <1>4, <1>5, <1>6, <1>7, <1>8, <1>9, <1>10, StoreStands DEF Inv

-----------------------------------------------------------------------------
(* Steps of a fence.                                                       *)

\* Everything but the caller's record, its marks and the two histories stands.
FenceFrame(w) ==
  /\ UNCHANGED <<storeVars, conn, fencedAt, sessions, entry, lastEntry, authenticated>>
  /\ waiter' \in [Waiters -> [pc : WaiterSteps, tenant : Tenants \cup {NoTenant}, wait : BOOLEAN,
                              marks : SUBSET Conns, on : Nat, notified : BOOLEAN]]
  /\ \A v \in Waiters \ {w} : waiter'[v] = waiter[v]
  /\ waiter'[w].pc # "idle" => waiter[w].pc # "idle" /\ waiter'[w].tenant = waiter[w].tenant
  /\ cancelled \subseteq cancelled' /\ cancelled' \subseteq Conns

\* The histories only record the fence of the caller itself.
HistoryFrame(w) ==
  LET t == waiter[w].tenant IN
  /\ closedUpTo' \in {closedUpTo, [closedUpTo EXCEPT ![t] = Later(@, fencedAt[w])]}
  /\ drainedUpTo' \in {drainedUpTo, [drainedUpTo EXCEPT ![t] = Later(@, fencedAt[w])]}

LEMMA FenceFrameKeeps ==
  ASSUME Inv, NEW w \in Waiters, FenceFrame(w), HistoryFrame(w),
         closedUpTo' # closedUpTo \/ drainedUpTo' # drainedUpTo => waiter[w].pc # "idle"
  PROVE  /\ TypeOK' /\ RoutesAreSound' /\ PinnedStaysFenced' /\ RevisionsAreFresh'
         /\ EntriesMatchSessions' /\ FencesAreOld' /\ TargetsAreSnapshots' /\ HoldersAreRegistered'
PROOF
  <1> USE GatewayAssumption
  <1>1. UNCHANGED storeVars /\ UNCHANGED <<conn, fencedAt, sessions, entry, lastEntry, authenticated>>
    BY DEF FenceFrame
  <1>2. /\ StoreTypeOK' /\ RoutesAreSound' /\ PinnedStaysFenced' /\ RevisionsAreFresh'
        /\ \A j \in Instances : \A r \in Nat : AboveFences(j, r) => AboveFences(j, r)'
    BY <1>1 DEF Inv, TypeOK, StoreTypeOK, RoutesAreSound, PinnedStaysFenced, RevisionsAreFresh,
                Known, RouteEligible, AboveFences, storeVars
  <1>3. waiter[w].pc # "idle" => /\ waiter[w].tenant \in Instances /\ fencedAt[w] \in Nat
                                 /\ AboveFences(waiter[w].tenant, fencedAt[w])
    BY DEF Inv, FencesAreOld, TypeOK
  <1>4. closedUpTo \in [Instances -> Nat] /\ drainedUpTo \in [Instances -> Nat]
    BY DEF Inv, TypeOK
  <1>5. ASSUME NEW h \in [Instances -> Nat], NEW g, \A j \in Instances : AboveFences(j, h[j]),
               g \in {h, [h EXCEPT ![waiter[w].tenant] = Later(@, fencedAt[w])]},
               g # h => waiter[w].pc # "idle"
        PROVE  g \in [Instances -> Nat] /\ \A j \in Instances : AboveFences(j, g[j])
    <2>1. CASE g = h
      BY <1>5, <2>1
    <2>2. CASE g # h
      <3>1. \A j \in Instances : g[j] \in {h[j], fencedAt[w]} /\ (j # waiter[w].tenant => g[j] = h[j])
        BY <1>3, <1>5, <2>2 DEF Later
      <3>2. g \in [Instances -> Nat]
        BY <1>3, <1>5, <2>2 DEF Later
      <3> QED BY <1>3, <1>5, <2>2, <3>1, <3>2
    <2> QED BY <2>1, <2>2
  <1>6. closedUpTo' \in [Instances -> Nat] /\ \A j \in Instances : AboveFences(j, closedUpTo'[j])
    BY <1>4, <1>5 DEF Inv, FencesAreOld, HistoryFrame
  <1>7. drainedUpTo' \in [Instances -> Nat] /\ \A j \in Instances : AboveFences(j, drainedUpTo'[j])
    BY <1>4, <1>5 DEF Inv, FencesAreOld, HistoryFrame
  <1>8. TypeOK' /\ EntriesMatchSessions'
    BY <1>1, <1>2, <1>6, <1>7 DEF FenceFrame, Inv, TypeOK, SessionsTypeOK, EntriesMatchSessions
  <1>9. FencesAreOld'
    <2>1. ASSUME NEW v \in Waiters, waiter'[v].pc # "idle"
          PROVE  waiter'[v].tenant \in Instances /\ AboveFences(waiter[v].tenant, fencedAt[v])'
      <3>1. /\ waiter[v].pc # "idle" /\ waiter'[v].tenant = waiter[v].tenant
            /\ fencedAt'[v] = fencedAt[v]
        BY <1>1, <2>1 DEF FenceFrame
      <3> QED BY <1>1, <3>1 DEF Inv, FencesAreOld, AboveFences, storeVars
    <2>2. \A j \in Instances : AboveFences(j, closedUpTo[j])' /\ AboveFences(j, drainedUpTo[j])'
      BY <1>1, <1>6, <1>7 DEF AboveFences, storeVars
    <2> QED BY <2>1, <2>2 DEF FencesAreOld, AboveFences
  <1>10. TargetsAreSnapshots' /\ HoldersAreRegistered'
    BY <1>1 DEF Inv, TargetsAreSnapshots, HoldersAreRegistered, Resolved, Inst, Rev, storeVars
  <1> QED BY <1>2, <1>8, <1>9, <1>10

\* A step that neither finishes the marking nor reports a drained tenant.
LEMMA QuietFenceStep ==
  ASSUME Inv, NEW w \in Waiters, FenceFrame(w), UNCHANGED <<closedUpTo, drainedUpTo>>,
         waiter'[w].pc = "marking" =>
           \/ waiter[w].pc = "cancel" /\ waiter'[w].marks = sessions[waiter[w].tenant]
           \/ waiter[w].pc = "marking" /\ waiter[w].marks \subseteq cancelled' \cup waiter'[w].marks
  PROVE  Inv'
PROOF
  <1>1. HistoryFrame(w)
    BY DEF HistoryFrame
  <1>2. Barrier'
    <2> SUFFICES ASSUME NEW c \in Conns, conn'[c].pc \in Passed
                 PROVE  /\ \A v \in Waiters : (waiter'[v].pc = "marking" /\ waiter'[v].tenant = Inst(c)
                                               /\ Rev(c) <= fencedAt[v]) => c \in cancelled' \cup waiter'[v].marks
                        /\ Rev(c) <= closedUpTo[Inst(c)] => c \in cancelled'
                        /\ Rev(c) > drainedUpTo[Inst(c)]
      BY DEF FenceFrame, Barrier, At, Inst, Rev
    <2>1. conn[c].pc \in Passed /\ cancelled \subseteq cancelled' /\ c \in sessions[Inst(c)]
      BY DEF FenceFrame, Inv, HoldersAreRegistered, Passed, Holding, Tunnelling
    <2>2. ASSUME NEW v \in Waiters, waiter'[v].pc = "marking", waiter'[v].tenant = Inst(c),
                 Rev(c) <= fencedAt[v]
          PROVE  c \in cancelled' \cup waiter'[v].marks
      <3>1. CASE v # w
        BY <2>1, <2>2, <3>1 DEF FenceFrame, Inv, Barrier, At
      <3>2. CASE v = w
        BY <2>1, <2>2, <3>2 DEF FenceFrame, Inv, Barrier, At
      <3> QED BY <3>1, <3>2
    <2> QED BY <2>1, <2>2 DEF Inv, Barrier
  <1> QED BY <1>1, <1>2, FenceFrameKeeps DEF Inv

\* What a raised history newly covers, it covers for the fence that raised it.
LEMMA RaisedAt ==
  ASSUME NEW f \in [Instances -> Nat], NEW i \in Instances, NEW j \in Instances,
         NEW n \in Nat, NEW r \in Nat, r > f[j], r <= [f EXCEPT ![i] = Later(@, n)][j]
  PROVE  i = j /\ r <= n
BY DEF Later

\* cancel() has marked every session it collected.
LEMMA MarkingDoneStep ==
  ASSUME Inv, NEW w \in Waiters, FenceFrame(w), At(w, "marking"), waiter[w].marks = {},
         waiter'[w].pc # "marking", UNCHANGED drainedUpTo,
         closedUpTo' = [closedUpTo EXCEPT ![waiter[w].tenant] = Later(@, fencedAt[w])]
  PROVE  Inv'
PROOF
  <1>1. HistoryFrame(w) /\ waiter[w].pc # "idle"
    BY DEF HistoryFrame, At
  <1>2. Barrier'
    <2> SUFFICES ASSUME NEW c \in Conns, conn'[c].pc \in Passed
                 PROVE  /\ \A v \in Waiters : (waiter'[v].pc = "marking" /\ waiter'[v].tenant = Inst(c)
                                               /\ Rev(c) <= fencedAt[v]) => c \in cancelled' \cup waiter'[v].marks
                        /\ Rev(c) <= closedUpTo'[Inst(c)] => c \in cancelled'
                        /\ Rev(c) > drainedUpTo[Inst(c)]
      BY DEF FenceFrame, Barrier, At, Inst, Rev
    <2>1. /\ conn[c].pc \in Passed /\ cancelled \subseteq cancelled'
          /\ Inst(c) \in Instances /\ Rev(c) \in Nat
      BY DEF FenceFrame, Inv, TargetsAreSnapshots, Resolved, Passed, Holding, Tunnelling, TypeOK, Targets, Rev
    <2>2. ASSUME NEW v \in Waiters, waiter'[v].pc = "marking", waiter'[v].tenant = Inst(c),
                 Rev(c) <= fencedAt[v]
          PROVE  c \in cancelled' \cup waiter'[v].marks
      BY <2>1, <2>2 DEF FenceFrame, Inv, Barrier, At
    <2>3. ASSUME Rev(c) <= closedUpTo'[Inst(c)] PROVE c \in cancelled'
      <3>1. /\ closedUpTo \in [Instances -> Nat] /\ fencedAt[w] \in Nat
            /\ waiter[w].tenant \in Instances
        BY <1>1 DEF Inv, TypeOK, FencesAreOld
      <3>2. CASE Rev(c) <= closedUpTo[Inst(c)]
        BY <2>1, <3>2 DEF Inv, Barrier
      <3>3. CASE Rev(c) > closedUpTo[Inst(c)]
        <4>1. waiter[w].tenant = Inst(c) /\ Rev(c) <= fencedAt[w]
          BY <2>1, <2>3, <3>1, <3>3, RaisedAt
        <4> QED BY <2>1, <4>1 DEF Inv, Barrier
      <3>4. Rev(c) <= closedUpTo[Inst(c)] \/ Rev(c) > closedUpTo[Inst(c)]
        BY <2>1, <3>1
      <3> QED BY <3>2, <3>3, <3>4
    <2> QED BY <2>1, <2>2, <2>3 DEF Inv, Barrier
  <1> QED BY <1>1, <1>2, FenceFrameKeeps DEF Inv

\* A tenant seen without sessions has no connection past its check.
LEMMA DrainedStep ==
  ASSUME Inv, NEW w \in Waiters, FenceFrame(w), waiter[w].pc \in {"capture", "check"},
         sessions[waiter[w].tenant] = {}, waiter'[w].pc # "marking", UNCHANGED closedUpTo,
         drainedUpTo' = [drainedUpTo EXCEPT ![waiter[w].tenant] = Later(@, fencedAt[w])]
  PROVE  Inv'
PROOF
  <1>1. HistoryFrame(w) /\ waiter[w].pc # "idle"
    BY DEF HistoryFrame
  <1>2. Barrier'
    <2> SUFFICES ASSUME NEW c \in Conns, conn'[c].pc \in Passed
                 PROVE  /\ \A v \in Waiters : (waiter'[v].pc = "marking" /\ waiter'[v].tenant = Inst(c)
                                               /\ Rev(c) <= fencedAt[v]) => c \in cancelled' \cup waiter'[v].marks
                        /\ Rev(c) <= closedUpTo[Inst(c)] => c \in cancelled'
                        /\ Rev(c) > drainedUpTo'[Inst(c)]
      BY DEF FenceFrame, Barrier, At, Inst, Rev
    <2>1. /\ conn[c].pc \in Passed /\ cancelled \subseteq cancelled'
          /\ c \in sessions[Inst(c)] /\ Inst(c) # waiter[w].tenant
      BY DEF FenceFrame, Inv, HoldersAreRegistered, Passed, Holding, Tunnelling
    <2>2. ASSUME NEW v \in Waiters, waiter'[v].pc = "marking", waiter'[v].tenant = Inst(c),
                 Rev(c) <= fencedAt[v]
          PROVE  c \in cancelled' \cup waiter'[v].marks
      BY <2>1, <2>2 DEF FenceFrame, Inv, Barrier, At
    <2>3. drainedUpTo'[Inst(c)] = drainedUpTo[Inst(c)]
      <3>1. drainedUpTo \in [Instances -> Nat]
        BY DEF Inv, TypeOK
      <3>2. Inst(c) \in Instances
        BY <2>1 DEF Inv, TargetsAreSnapshots, Resolved, Passed, Holding, Tunnelling
      <3> QED BY <2>1, <3>1, <3>2
    <2> QED BY <2>1, <2>2, <2>3 DEF Inv, Barrier
  <1> QED BY <1>1, <1>2, FenceFrameKeeps DEF Inv

WaiterRecord == [pc : WaiterSteps, tenant : Tenants \cup {NoTenant}, wait : BOOLEAN,
                 marks : SUBSET Conns, on : Nat, notified : BOOLEAN]

\* A caller that only updates its own record steps within the frame.
LEMMA OwnRecordStep ==
  ASSUME Inv, NEW w \in Waiters, UNCHANGED <<storeVars, conn, fencedAt, registryVars>>,
         cancelled \subseteq cancelled', cancelled' \subseteq Conns,
         NEW r \in WaiterRecord, waiter' = [waiter EXCEPT ![w] = r],
         r.pc # "idle" => waiter[w].pc # "idle" /\ r.tenant = waiter[w].tenant
  PROVE  FenceFrame(w) /\ waiter'[w] = r
PROOF
  <1>1. waiter \in [Waiters -> WaiterRecord]
    BY DEF Inv, TypeOK, SessionsTypeOK, WaiterRecord
  <1>2. waiter' \in [Waiters -> WaiterRecord] /\ waiter'[w] = r /\ \A v \in Waiters \ {w} : waiter'[v] = waiter[v]
    BY <1>1
  <1>3. waiter'[w].pc # "idle" => waiter[w].pc # "idle" /\ waiter'[w].tenant = waiter[w].tenant
    BY <1>2
  <1> QED BY <1>2, <1>3 DEF FenceFrame, registryVars, WaiterRecord

LEMMA FenceStepKeeps == ASSUME Inv, NEW w \in Waiters, FenceStep(w) PROVE Inv'
PROOF
  <1> USE GatewayAssumption, SessionsAssumption
  <1> DEFINE t == waiter[w].tenant
  <1>1. UNCHANGED <<storeVars, conn, fencedAt>>
    BY DEF FenceStep
  <1>0. waiter \in [Waiters -> WaiterRecord] /\ waiter[w] \in WaiterRecord /\ cancelled \subseteq Conns
    BY DEF Inv, TypeOK, SessionsTypeOK, WaiterRecord
  <1>2. CASE CollectSessions(w)
    <2>1. FenceFrame(w) /\ waiter'[w].pc = "marking" /\ waiter'[w].marks = sessions[t]
      <3> DEFINE r == [waiter[w] EXCEPT !.pc = "marking", !.marks = sessions[t]]
      <3>1. t \in Tenants /\ sessions[t] \subseteq Conns
        BY <1>2 DEF CollectSessions, At, Inv, FencesAreOld, TypeOK, SessionsTypeOK
      <3>2. r \in WaiterRecord /\ r.pc = "marking" /\ r.marks = sessions[t] /\ r.tenant = t
        BY <1>0, <3>1 DEF WaiterRecord, WaiterSteps
      <3>3. waiter' = [waiter EXCEPT ![w] = r]
        BY <1>2, <1>0 DEF CollectSessions
      <3> QED BY <1>1, <1>2, <1>0, <3>2, <3>3, OwnRecordStep DEF CollectSessions, At
    <2>2. waiter[w].pc = "cancel" /\ UNCHANGED <<closedUpTo, drainedUpTo>>
      BY <1>2, <2>1 DEF CollectSessions, FenceStep, At
    <2> QED BY <2>1, <2>2, QuietFenceStep
  <1>3. CASE MarkCancelled(w)
    <2>1. PICK c \in waiter[w].marks : /\ cancelled' = cancelled \cup {c}
                                       /\ waiter' = [waiter EXCEPT ![w].marks = @ \ {c}]
      BY <1>3 DEF MarkCancelled
    <2>2. /\ FenceFrame(w) /\ waiter'[w].pc = "marking" /\ waiter[w].pc = "marking"
          /\ waiter'[w].marks = waiter[w].marks \ {c}
      <3> DEFINE r == [waiter[w] EXCEPT !.marks = @ \ {c}]
      <3>1. r \in WaiterRecord /\ r.pc = "marking" /\ r.marks = waiter[w].marks \ {c} /\ r.tenant = t
        BY <1>0, <1>3 DEF WaiterRecord, MarkCancelled, At
      <3>2. waiter' = [waiter EXCEPT ![w] = r] /\ c \in Conns
        BY <2>1, <1>0 DEF WaiterRecord
      <3> QED BY <1>1, <1>3, <1>0, <2>1, <3>1, <3>2, OwnRecordStep DEF MarkCancelled, At
    <2>3. UNCHANGED <<closedUpTo, drainedUpTo>>
      BY <2>2 DEF FenceStep
    <2> QED BY <2>1, <2>2, <2>3, QuietFenceStep
  <1>4. CASE MarkingDone(w)
    <2>1. /\ FenceFrame(w) /\ At(w, "marking") /\ waiter[w].marks = {}
          /\ waiter'[w].pc = IF waiter[w].wait THEN "capture" ELSE "drained"
      <3> DEFINE p == IF waiter[w].wait THEN "capture" ELSE "drained"
                 r == [waiter[w] EXCEPT !.pc = p]
      <3>1. r \in WaiterRecord /\ r.pc = p /\ r.tenant = t
        BY <1>0 DEF WaiterRecord, WaiterSteps
      <3>2. waiter' = [waiter EXCEPT ![w] = r]
        BY <1>4, <1>0 DEF MarkingDone
      <3> QED BY <1>1, <1>4, <1>0, <3>1, <3>2, OwnRecordStep DEF MarkingDone, At
    <2>2. UNCHANGED drainedUpTo /\ closedUpTo' = [closedUpTo EXCEPT ![t] = Later(@, fencedAt[w])]
      BY <2>1 DEF FenceStep
    <2> QED BY <2>1, <2>2, MarkingDoneStep
  <1>5. CASE CaptureDrained(w)
    <2>1. /\ FenceFrame(w) /\ waiter[w].pc = "capture"
          /\ waiter'[w].pc = IF entry[t] = 0 THEN "drained" ELSE "poll"
      BY <1>1, <1>5 DEF CaptureDrained, FenceFrame, registryVars, At, WaiterSteps, Inv, TypeOK,
                        SessionsTypeOK, FencesAreOld
    <2>2. UNCHANGED closedUpTo
      BY <2>1 DEF FenceStep, At
    <2>3. CASE UNCHANGED drainedUpTo
      BY <2>1, <2>2, <2>3, QuietFenceStep
    <2>4. CASE drainedUpTo' # drainedUpTo
      <3>1. drainedUpTo' = [drainedUpTo EXCEPT ![t] = Later(@, fencedAt[w])] /\ entry[t] = 0
        BY <2>1, <2>4 DEF FenceStep
      <3>2. sessions[t] = {}
        BY <2>1, <3>1 DEF Inv, EntriesMatchSessions, FencesAreOld
      <3> QED BY <2>1, <2>2, <3>1, <3>2, DrainedStep
    <2> QED BY <2>3, <2>4
  <1>6. CASE CreateNotified(w) \/ Woken(w)
    <2>1. FenceFrame(w) /\ waiter'[w].pc \in {"check", "poll"} /\ waiter[w].pc \in {"poll", "await"}
      <3>1. CASE CreateNotified(w)
        <4> DEFINE r == [waiter[w] EXCEPT !.pc = "check", !.notified = FALSE]
        <4>1. r \in WaiterRecord /\ r.pc = "check" /\ r.tenant = t
          BY <1>0 DEF WaiterRecord, WaiterSteps
        <4>2. waiter' = [waiter EXCEPT ![w] = r]
          BY <3>1, <1>0 DEF CreateNotified
        <4> QED BY <1>1, <3>1, <1>0, <4>1, <4>2, OwnRecordStep DEF CreateNotified, At
      <3>2. CASE Woken(w)
        <4> DEFINE r == [waiter[w] EXCEPT !.pc = "poll"]
        <4>1. r \in WaiterRecord /\ r.pc = "poll" /\ r.tenant = t
          BY <1>0 DEF WaiterRecord, WaiterSteps
        <4>2. waiter' = [waiter EXCEPT ![w] = r]
          BY <3>2, <1>0 DEF Woken
        <4> QED BY <1>1, <3>2, <1>0, <4>1, <4>2, OwnRecordStep DEF Woken, At
      <3> QED BY <1>6, <3>1, <3>2
    <2>2. UNCHANGED <<closedUpTo, drainedUpTo>>
      BY <2>1 DEF FenceStep, At
    <2> QED BY <2>1, <2>2, QuietFenceStep
  <1>7. CASE CheckActive(w)
    <2>1. /\ FenceFrame(w) /\ waiter[w].pc = "check"
          /\ waiter'[w].pc = IF sessions[t] = {} THEN "drained" ELSE "await"
      <3> DEFINE p == IF sessions[t] = {} THEN "drained" ELSE "await"
                 r == [waiter[w] EXCEPT !.pc = p]
      <3>1. r \in WaiterRecord /\ r.pc = p /\ r.tenant = t
        BY <1>0 DEF WaiterRecord, WaiterSteps
      <3>2. waiter' = [waiter EXCEPT ![w] = r]
        BY <1>7, <1>0 DEF CheckActive
      <3> QED BY <1>1, <1>7, <1>0, <3>1, <3>2, OwnRecordStep DEF CheckActive, At
    <2>2. UNCHANGED closedUpTo
      BY <2>1 DEF FenceStep, At
    <2>3. CASE UNCHANGED drainedUpTo
      BY <2>1, <2>2, <2>3, QuietFenceStep
    <2>4. CASE drainedUpTo' # drainedUpTo
      <3>1. drainedUpTo' = [drainedUpTo EXCEPT ![t] = Later(@, fencedAt[w])] /\ sessions[t] = {}
        BY <2>1, <2>4 DEF FenceStep
      <3> QED BY <2>1, <2>2, <3>1, DrainedStep
    <2> QED BY <2>3, <2>4
  <1> QED BY <1>2, <1>3, <1>4, <1>5, <1>6, <1>7 DEF FenceStep, CancelStep

LEMMA FenceEndKeeps ==
  ASSUME Inv, NEW w \in Waiters, FenceTimeout(w) \/ FenceReturn(w) PROVE Inv'
PROOF
  <1> USE GatewayAssumption, SessionsAssumption
  <1>1. FenceFrame(w) /\ waiter'[w].pc \in {"timeout", "idle"}
    <2>1. waiter \in [Waiters -> WaiterRecord] /\ waiter[w] \in WaiterRecord /\ cancelled \subseteq Conns
      BY DEF Inv, TypeOK, SessionsTypeOK, WaiterRecord
    <2>2. CASE FenceTimeout(w)
      <3> DEFINE r == [waiter[w] EXCEPT !.pc = "timeout"]
      <3>1. r \in WaiterRecord /\ r.pc = "timeout" /\ r.tenant = waiter[w].tenant
        BY <2>1 DEF WaiterRecord, WaiterSteps
      <3>2. waiter' = [waiter EXCEPT ![w] = r]
        BY <2>1, <2>2 DEF FenceTimeout, WaitTimeout
      <3> QED BY <2>1, <2>2, <3>1, <3>2, OwnRecordStep DEF FenceTimeout, WaitTimeout, At, fenceVars
    <2>3. CASE FenceReturn(w)
      <3>1. IdleWaiter \in WaiterRecord /\ IdleWaiter.pc = "idle"
        BY DEF WaiterRecord, WaiterSteps, IdleWaiter
      <3> QED BY <2>1, <2>3, <3>1, OwnRecordStep DEF FenceReturn, Return, fenceVars
    <2> QED BY <2>2, <2>3
  <1>2. UNCHANGED <<closedUpTo, drainedUpTo>>
    BY DEF FenceTimeout, FenceReturn, fenceVars
  <1> QED BY <1>1, <1>2, QuietFenceStep

-----------------------------------------------------------------------------
(* The theorems.                                                           *)

\* One case per action of Next.
LEMMA NextKeepsInv == ASSUME Inv, [Next]_vars PROVE Inv'
PROOF
  <1>1. CASE \E c \in Conns : Resolve(c) \/ ConnStep(c) \/ ClientMoves(c)
    <2>1. PICK c \in Conns : Resolve(c) \/ ConnStep(c) \/ ClientMoves(c)
      BY <1>1
    <2>2. CASE Resolve(c)
      BY <2>2, ResolveStep
    <2>3. CASE ActivateMongodb(c) \/ GiveUp(c)
      BY <2>3, MoveSessionlessStep DEF ActivateMongodb, GiveUp, ConnAt
    <2>4. CASE OpenSession(c)
      <3>1. CASE TryOpen(c, Inst(c), Limit(c)) /\ Goto(c, "opened")
        BY <2>4, <3>1, OpenStep DEF OpenSession, TryOpen
      <3>2. CASE Goto(c, "closed") /\ UNCHANGED sessionVars
        BY <2>4, <3>2, MoveSessionlessStep DEF OpenSession
      <3> QED BY <2>4, <3>1, <3>2 DEF OpenSession
    <2>5. CASE OpenPendingSession(c)
      BY <2>5, OpenStep DEF OpenPendingSession, OpenPending
    <2>6. ASSUME NEW pc \in Passed, conn[c].pc \in Holding, CheckedGoto(c, pc) PROVE Inv'
      BY <2>6, PassStep, CloseStep DEF CheckedGoto
    <2>7. CASE CheckRegistered(c) \/ CheckCounted(c) \/ RecheckStartup(c) \/ FinishStartup(c)
      BY <2>6, <2>7 DEF CheckRegistered, CheckCounted, RecheckStartup, FinishStartup, ConnAt,
                        Passed, Holding, Tunnelling
    <2>8. CASE AdmitPostgres(c)
      <3>1. conn[c].pc = "rechecked"
        BY <2>8 DEF AdmitPostgres, ConnAt
      <3>2. CASE Close(c)
        BY <3>1, <3>2, CloseStep DEF Holding, Tunnelling
      <3>3. CASE Authenticate(c, Inst(c), Limit(c)) /\ Goto(c, "admitted") /\ UNCHANGED <<storeVars, fenceVars>>
        <4>1. /\ conn' \in [Conns -> [pc : ConnSteps, kind : Kinds, target : Targets]]
              /\ \A d \in Conns : conn'[d].target = conn[d].target
              /\ \A d \in Conns \ {c} : conn'[d] = conn[d]
              /\ conn'[c].pc = "admitted"
          BY <3>3 DEF Goto, Inv, TypeOK, ConnSteps
        <4>2. UNCHANGED <<sessions, entry, lastEntry, cancelled, waiter>> /\ authenticated' \in SUBSET Conns
          BY <3>3 DEF Authenticate, Inv, TypeOK, SessionsTypeOK
        <4>3. TypeOK' /\ EntriesMatchSessions'
          BY <3>3, <4>1, <4>2, StoreStands DEF Inv, TypeOK, SessionsTypeOK, fenceVars, EntriesMatchSessions
        <4>4. FencesAreOld'
          BY <3>3, <4>2, StoreStands DEF Inv, FencesAreOld, AboveFences, TypeOK, fenceVars, storeVars
        <4>5. TargetsAreSnapshots'
          BY <3>1, <3>3, <4>1 DEF Inv, TargetsAreSnapshots, Resolved, Inst, Rev, storeVars
        <4>6. HoldersAreRegistered' /\ Barrier'
          BY <3>1, <3>3, <4>1, <4>2
             DEF Inv, HoldersAreRegistered, Barrier, Passed, Holding, Tunnelling, At, Inst, Rev, fenceVars
        <4> QED BY <3>3, <4>3, <4>4, <4>5, <4>6, StoreStands DEF Inv
      <3> QED BY <2>8, <3>2, <3>3 DEF AdmitPostgres
    <2>9. CASE Disconnect(c) \/ ObserveCancelled(c)
      BY <2>9, CloseStep DEF Disconnect, ObserveCancelled, Holding, Tunnelling
    <2>10. CASE ClientStalls(c) \/ ClientResumes(c)
      BY <2>10, TunnelStep DEF ClientStalls, ClientResumes, ConnAt, Passed, Holding, Tunnelling
    <2> QED BY <2>1, <2>2, <2>3, <2>4, <2>5, <2>7, <2>8, <2>9, <2>10 DEF ConnStep, ClientMoves
  <1>2. CASE \E w \in Waiters : \/ \E i \in Instances : Pin(w, i) \/ \E b \in BOOLEAN : Fence(w, i, b)
                                \/ FenceStep(w) \/ FenceTimeout(w) \/ FenceReturn(w)
    <2>1. ASSUME NEW w \in Waiters, NEW i \in Instances, Pin(w, i) PROVE Inv'
      BY <2>1, StartFenceStep DEF Pin, PinRoutesFenced
    <2>2. ASSUME NEW w \in Waiters, NEW i \in Instances, NEW b \in BOOLEAN, Fence(w, i, b) PROVE Inv'
      BY <2>2, StartFenceStep DEF Fence, FenceRoutes
    <2> QED BY <1>2, <2>1, <2>2, FenceStepKeeps, FenceEndKeeps
  <1>3. CASE Publish
    <2>1. PICK i \in Instances : \/ \E m \in Metadata : \/ Upsert(i, m)
                                                        \/ UpsertFenced(i, m)
                                                        \/ UpsertPreservingFence(i, m)
                                                        \/ OpenRoutes(i, m)
                                 \/ Remove(i)
      BY <1>3 DEF Publish
    <2>2. StoreInv' /\ Stamps(i)
      BY <2>1, InvGivesStoreInv, UpsertStep, UpsertFencedStep, OpenRoutesStep, RemoveStep
         DEF UpsertPreservingFence
    <2>3. UNCHANGED <<sessionVars, conn, fenceVars>>
      BY <1>3 DEF Publish
    <2> QED BY <2>2, <2>3, PublishStep
  <1>4. CASE UNCHANGED vars
    <2>1. UNCHANGED <<storeVars, sessionVars, conn, fenceVars>>
      BY <1>4 DEF vars, fenceVars
    <2>2. TypeOK' /\ EntriesMatchSessions'
      BY <2>1, StoreStands DEF Inv, TypeOK, SessionsTypeOK, sessionVars, fenceVars, EntriesMatchSessions
    <2>3. FencesAreOld'
      BY <2>1 DEF Inv, FencesAreOld, AboveFences, sessionVars, fenceVars, storeVars
    <2>4. TargetsAreSnapshots' /\ HoldersAreRegistered' /\ Barrier'
      BY <2>1 DEF Inv, TargetsAreSnapshots, Resolved, HoldersAreRegistered, Barrier, At, Inst, Rev,
                  sessionVars, fenceVars, storeVars
    <2> QED BY <2>1, <2>2, <2>3, <2>4, StoreStands DEF Inv
  <1> QED BY <1>1, <1>2, <1>3, <1>4 DEF Next

THEOREM InvHolds == Spec => []Inv
  BY InitInv, NextKeepsInv, PTL DEF Spec

\* Every variable keeps its type.
THEOREM TypeCorrect == Spec => []TypeOK
  <1>1. Inv => TypeOK
    BY DEF Inv
  <1> QED BY <1>1, InvHolds, PTL

\* The registry holds an entry exactly for the tenants with a registered
\* connection (gateway/sessions.rs insert and Drop): cancel_and_wait, which waits
\* for the entry to go, waits for the connections and for nothing else.
THEOREM EntriesExact == Spec => []EntriesMatchSessions
  <1>1. Inv => EntriesMatchSessions
    BY DEF Inv
  <1> QED BY <1>1, InvHolds, PTL

\* Once a fence's cancel() has returned, no connection resolved before the fence
\* is running un-cancelled (server/sessions.rs fence, gateway/resolver.rs
\* finish_route).
THEOREM FenceSafety == Spec => []FenceIsABarrier
  <1>1. Inv => FenceIsABarrier
    <2> SUFFICES ASSUME Inv, NEW c \in Conns, conn[c].pc \in Tunnelling, c \notin cancelled
                 PROVE  Rev(c) > closedUpTo[Inst(c)]
      BY DEF FenceIsABarrier
    <2>1. Rev(c) \in Nat /\ closedUpTo[Inst(c)] \in Nat
      BY DEF Inv, TypeOK, Targets, Rev, TargetsAreSnapshots, Resolved, Tunnelling
    <2>2. ~(Rev(c) <= closedUpTo[Inst(c)])
      BY DEF Inv, Barrier, Passed, Holding, Tunnelling
    <2> QED BY <2>1, <2>2
  <1> QED BY <1>1, InvHolds, PTL

\* When fence_and_wait() answers true, no connection resolved before its fence is
\* left past its first route check (gateway/sessions.rs cancel_and_wait).
THEOREM DrainSafety == Spec => []DrainedIsQuiet
  <1>1. Inv => DrainedIsQuiet
    BY DEF Inv, Barrier, DrainedIsQuiet
  <1> QED BY <1>1, InvHolds, PTL

\* A connection is only ever established on the metadata that is published at
\* that instant (gateway/resolver.rs finish_route, state.rs route_is_current).
THEOREM EstablishedOnCurrentRoute == Spec => EstablishedIsCurrent
PROOF
  <1>1. ASSUME Inv, Next, NEW c \in Conns, conn'[c].pc \in Tunnelling, conn[c].pc \notin Tunnelling
        PROVE  /\ Inst(c) \notin fenced
               /\ instances[Inst(c)] = conn[c].target.meta
               /\ RouteEligible(instances[Inst(c)])
    <2>1. conn[c].pc \in Holding /\ Current(c)
      <3>1. conn'[c].pc \in Tunnelling /\ conn[c].pc \notin Tunnelling
        BY <1>1
      <3>2. conn \in [Conns -> [pc : ConnSteps, kind : Kinds, target : Targets]]
        BY <1>1 DEF Inv, TypeOK
      <3>3. conn' # conn
        BY <3>1
      <3>4. PICK d \in Conns : Resolve(d) \/ ConnStep(d) \/ ClientMoves(d)
        BY <1>1, <3>3 DEF Next, Pin, Fence, FenceStep, FenceTimeout, FenceReturn, Publish
      <3>5. \A pc : Goto(d, pc) => conn'[d].pc = pc /\ \A e \in Conns \ {d} : conn'[e].pc = conn[e].pc
        BY <3>2 DEF Goto
      <3>6. CASE Resolve(d)
        <4>1. \E target \in Lookup : \E pc \in {"scram", "resolved"} :
                conn' = [conn EXCEPT ![d].target = target, ![d].pc = pc]
          BY <3>6 DEF Resolve
        <4> QED BY <3>1, <3>2, <4>1 DEF Tunnelling
      <3>7. CASE ConnStep(d) \/ ClientMoves(d)
        <4>1. \/ CheckCounted(d) \/ FinishStartup(d)
              \/ conn[d].pc \in Tunnelling /\ \E pc \in Tunnelling : Goto(d, pc)
              \/ \E pc \in ConnSteps \ Tunnelling : Goto(d, pc)
          BY <3>7 DEF ConnStep, ActivateMongodb, OpenSession, OpenPendingSession, CheckRegistered,
                      RecheckStartup, AdmitPostgres, ObserveCancelled, ClientMoves, GiveUp, Disconnect,
                      ClientStalls, ClientResumes, ConnAt, CheckedGoto, Close, ConnSteps, Tunnelling
        <4>2. CASE \E pc \in ConnSteps \ Tunnelling : Goto(d, pc)
          BY <3>1, <3>5, <4>2
        <4>3. CASE CheckCounted(d) \/ FinishStartup(d)
          <5>1. /\ conn[d].pc \in {"checked", "admitted"}
                /\ \E pc \in {"startup", "established", "closed"} : Goto(d, pc) /\ (pc # "closed" => Current(d))
            BY <4>3 DEF CheckCounted, FinishStartup, CheckedGoto, Close, ConnAt
          <5> QED BY <3>1, <3>5, <5>1 DEF Holding, Tunnelling
        <4>4. CASE conn[d].pc \in Tunnelling /\ \E pc \in Tunnelling : Goto(d, pc)
          BY <3>1, <3>5, <4>4
        <4> QED BY <4>1, <4>2, <4>3, <4>4
      <3> QED BY <3>4, <3>6, <3>7
    <2> QED BY <1>1, <2>1 DEF Inv, TargetsAreSnapshots, Resolved, Holding, Tunnelling, Current, RouteIsCurrent
  <1>2. Inv /\ [Next]_vars =>
          [\A c \in Conns : (conn'[c].pc \in Tunnelling /\ conn[c].pc \notin Tunnelling) =>
             /\ Inst(c) \notin fenced
             /\ instances[Inst(c)] = conn[c].target.meta
             /\ RouteEligible(instances[Inst(c)])]_vars
    BY <1>1
  <1> QED BY <1>2, InvHolds, PTL DEF Spec, EstablishedIsCurrent
=============================================================================
