-------------------------- MODULE RouteStoreProofs --------------------------
(***************************************************************************)
(* The route table is sound, pins hold and revisions are fresh for every   *)
(* set of instances, keys, passwords and metadata.                         *)
(***************************************************************************)
EXTENDS RouteStore, TLAPS

\* The conjunction the methods of the store preserve together.
StoreInv == StoreTypeOK /\ RoutesAreSound /\ PinnedStaysFenced /\ RevisionsAreFresh

\* What every method does to the stamps: it issues one new revision, gives it to
\* one instance (or forgets that instance), and touches nothing of the others.
Stamps(i) ==
  /\ nextRevision' = nextRevision + 1
  /\ revisions' \in [Instances -> Nat]
  /\ revisions'[i] \in {0, nextRevision + 1}
  /\ \A j \in Instances \ {i} : /\ revisions'[j] = revisions[j]
                                /\ instances'[j] = instances[j]
                                /\ j \in fenced' <=> j \in fenced

LEMMA InitStore == StoreInit => StoreInv
  BY StoreAssumption
  DEF StoreInit, StoreInv, StoreTypeOK, RoutesAreSound, PinnedStaysFenced, RevisionsAreFresh,
      Known, Keys

\* An instance that has been given a revision, fenced or unpublished.
LEMMA HiddenStep ==
  ASSUME StoreInv, NEW i \in Instances, BumpRouteRevision(i), RemoveRoutesFor(i),
         instances' \in [Instances -> Metadata \cup {NoMetadata}],
         fenced' \in SUBSET Instances, pinned' \in SUBSET Instances,
         instances'[i] \in Metadata,
         \A j \in Instances \ {i} : /\ instances'[j] = instances[j]
                                    /\ j \in fenced' <=> j \in fenced
                                    /\ j \in pinned' <=> j \in pinned,
         i \in pinned' => i \in fenced'
  PROVE  StoreInv' /\ Stamps(i)
PROOF
  <1> USE StoreAssumption
  <1>1. StoreTypeOK' /\ Stamps(i)
    <2>1. routes' \in [Keys -> Instances \cup {NoInstance}]
      BY DEF StoreInv, StoreTypeOK, RemoveRoutesFor, WithoutRoutes
    <2>2. passwordRoutes' \in [Passwords -> SUBSET Instances]
      BY DEF StoreInv, StoreTypeOK, RemoveRoutesFor, WithoutPassword
    <2>3. nextRevision' \in Nat /\ Stamps(i)
      BY DEF StoreInv, StoreTypeOK, Stamps, BumpRouteRevision
    <2> QED BY <2>1, <2>2, <2>3 DEF StoreTypeOK, Stamps
  <1>2. RoutesAreSound'
    BY DEF StoreInv, StoreTypeOK, RoutesAreSound, Known, RemoveRoutesFor, WithoutRoutes,
           WithoutPassword, RouteEligible
  <1>3. PinnedStaysFenced'
    BY DEF StoreInv, StoreTypeOK, PinnedStaysFenced, Known
  <1>4. RevisionsAreFresh'
    BY DEF StoreInv, StoreTypeOK, RevisionsAreFresh, Known, BumpRouteRevision
  <1> QED BY <1>1, <1>2, <1>3, <1>4 DEF StoreInv

\* An unpinned instance published with eligible metadata.
LEMMA PublishedStep ==
  ASSUME StoreInv, NEW i \in Instances, NEW m \in Metadata, BumpRouteRevision(i),
         PublishRoutes(i, m), RouteEligible(m),
         instances' = [instances EXCEPT ![i] = m],
         fenced' = fenced \ {i}, pinned' \in SUBSET Instances,
         \A j \in Instances \ {i} : j \in pinned' <=> j \in pinned,
         i \notin pinned'
  PROVE  StoreInv' /\ Stamps(i)
PROOF
  <1> USE StoreAssumption
  <1>1. StoreTypeOK' /\ Stamps(i)
    BY DEF StoreInv, StoreTypeOK, Stamps, BumpRouteRevision, PublishRoutes, WithoutRoutes
  <1>2. RoutesAreSound'
    <2>1. ASSUME NEW k \in Keys, routes'[k] # NoInstance
          PROVE  /\ instances'[routes'[k]] # NoMetadata
                 /\ routes'[k] \notin fenced'
                 /\ RouteEligible(instances'[routes'[k]])
                 /\ instances'[routes'[k]].key = k
      <3>1. CASE k = m.key
        BY <2>1, <3>1 DEF StoreInv, StoreTypeOK, PublishRoutes, WithoutRoutes
      <3>2. CASE k # m.key
        <4>1. routes'[k] = routes[k] /\ routes[k] # i /\ routes[k] # NoInstance
          BY <2>1, <3>2 DEF StoreInv, StoreTypeOK, PublishRoutes, WithoutRoutes
        <4>2. routes[k] \in Instances
          BY <4>1 DEF StoreInv, StoreTypeOK
        <4> QED BY <4>1, <4>2 DEF StoreInv, StoreTypeOK, RoutesAreSound, Known
      <3> QED BY <3>1, <3>2
    <2>2. ASSUME NEW p \in Passwords, NEW j \in passwordRoutes'[p]
          PROVE  /\ instances'[j] # NoMetadata
                 /\ j \notin fenced'
                 /\ RouteEligible(instances'[j])
                 /\ instances'[j].password = p
      <3>1. CASE j = i
        BY <2>2, <3>1 DEF StoreInv, StoreTypeOK, PublishRoutes
      <3>2. CASE j # i
        <4>1. j \in passwordRoutes[p] /\ j \in Instances
          BY <2>2, <3>2 DEF StoreInv, StoreTypeOK, PublishRoutes
        <4> QED BY <4>1, <3>2 DEF StoreInv, StoreTypeOK, RoutesAreSound, Known
      <3> QED BY <3>1, <3>2
    <2> QED BY <2>1, <2>2 DEF RoutesAreSound, Known, RouteEligible
  <1>3. PinnedStaysFenced'
    BY DEF StoreInv, StoreTypeOK, PinnedStaysFenced, Known
  <1>4. RevisionsAreFresh'
    BY DEF StoreInv, StoreTypeOK, RevisionsAreFresh, Known, BumpRouteRevision
  <1> QED BY <1>1, <1>2, <1>3, <1>4 DEF StoreInv

LEMMA UpsertUnderStep ==
  ASSUME StoreInv, NEW i \in Instances, NEW m \in Metadata, NEW pins \in SUBSET Instances,
         UpsertUnder(i, m, pins), pinned' = pins,
         \A j \in Instances \ {i} : j \in pins <=> j \in pinned
  PROVE  StoreInv' /\ Stamps(i)
PROOF
  <1> USE StoreAssumption
  <1>1. CASE i \notin pins /\ RouteEligible(m)
    BY <1>1, PublishedStep DEF UpsertUnder, StoreInv, StoreTypeOK
  <1>2. CASE ~(i \notin pins /\ RouteEligible(m))
    <2>1. /\ instances' \in [Instances -> Metadata \cup {NoMetadata}]
          /\ instances'[i] \in Metadata
          /\ fenced' \in SUBSET Instances
          /\ \A j \in Instances \ {i} : /\ instances'[j] = instances[j]
                                        /\ j \in fenced' <=> j \in fenced
          /\ i \in pins => i \in fenced'
      BY DEF UpsertUnder, StoreInv, StoreTypeOK
    <2> QED BY <1>2, <2>1, HiddenStep DEF UpsertUnder
  <1> QED BY <1>1, <1>2

LEMMA UpsertStep ==
  ASSUME StoreInv, NEW i \in Instances, NEW m \in Metadata, Upsert(i, m)
  PROVE  StoreInv' /\ Stamps(i)
  BY UpsertUnderStep DEF Upsert, StoreInv, StoreTypeOK

LEMMA UpsertFencedStep ==
  ASSUME StoreInv, NEW i \in Instances, NEW m \in Metadata, UpsertFenced(i, m)
  PROVE  StoreInv' /\ Stamps(i)
  <1>1. /\ instances' \in [Instances -> Metadata \cup {NoMetadata}]
        /\ instances'[i] \in Metadata
        /\ fenced' \in SUBSET Instances
        /\ pinned' \in SUBSET Instances
        /\ i \in fenced'
        /\ \A j \in Instances \ {i} : /\ instances'[j] = instances[j]
                                      /\ j \in fenced' <=> j \in fenced
                                      /\ j \in pinned' <=> j \in pinned
    BY DEF UpsertFenced, StoreInv, StoreTypeOK
  <1> QED BY <1>1, HiddenStep DEF UpsertFenced

LEMMA OpenRoutesStep ==
  ASSUME StoreInv, NEW i \in Instances, NEW m \in Metadata, OpenRoutes(i, m)
  PROVE  StoreInv' /\ Stamps(i)
  <1>1. pinned \ {i} \in SUBSET Instances
    BY DEF StoreInv, StoreTypeOK
  <1> QED BY <1>1, UpsertUnderStep DEF OpenRoutes

LEMMA FenceExistingStep ==
  ASSUME StoreInv, NEW i \in Instances, FenceExisting(i),
         pinned' = pinned \/ pinned' = pinned \cup {i}
  PROVE  StoreInv' /\ Stamps(i)
  <1>1. /\ instances' \in [Instances -> Metadata \cup {NoMetadata}]
        /\ instances'[i] \in Metadata
        /\ fenced' \in SUBSET Instances
        /\ pinned' \in SUBSET Instances
        /\ i \in fenced'
        /\ \A j \in Instances \ {i} : /\ instances'[j] = instances[j]
                                      /\ j \in fenced' <=> j \in fenced
                                      /\ j \in pinned' <=> j \in pinned
    BY DEF FenceExisting, Known, StoreInv, StoreTypeOK
  <1> QED BY <1>1, HiddenStep DEF FenceExisting

LEMMA RemoveStep ==
  ASSUME StoreInv, NEW i \in Instances, Remove(i)
  PROVE  StoreInv' /\ Stamps(i)
PROOF
  <1> USE StoreAssumption
  <1>1. StoreTypeOK' /\ Stamps(i)
    BY DEF Remove, StoreInv, StoreTypeOK, Stamps, RemoveRoutesFor, WithoutRoutes, WithoutPassword
  <1>2. RoutesAreSound'
    BY DEF Remove, StoreInv, StoreTypeOK, RoutesAreSound, Known, RemoveRoutesFor, WithoutRoutes,
           WithoutPassword, RouteEligible
  <1>3. PinnedStaysFenced'
    BY DEF Remove, StoreInv, StoreTypeOK, PinnedStaysFenced, Known
  <1>4. RevisionsAreFresh'
    BY DEF Remove, StoreInv, StoreTypeOK, RevisionsAreFresh, Known
  <1> QED BY <1>1, <1>2, <1>3, <1>4 DEF StoreInv

\* Every method of the store keeps the table sound and stamps its change.
LEMMA StoreNextStep ==
  ASSUME StoreInv, StoreNext
  PROVE  StoreInv' /\ \E i \in Instances : Stamps(i)
PROOF
  <1>1. PICK i \in Instances :
          \/ \E m \in Metadata : \/ Upsert(i, m)
                                 \/ UpsertFenced(i, m)
                                 \/ UpsertPreservingFence(i, m)
                                 \/ OpenRoutes(i, m)
          \/ FenceRoutes(i)
          \/ PinRoutesFenced(i)
          \/ Remove(i)
    BY DEF StoreNext
  <1>2. StoreInv' /\ Stamps(i)
    BY <1>1, UpsertStep, UpsertFencedStep, OpenRoutesStep, FenceExistingStep, RemoveStep
       DEF UpsertPreservingFence, FenceRoutes, PinRoutesFenced
  <1> QED BY <1>2

\* The three invariants of the route table hold in every behaviour of the store.
THEOREM StoreSafety ==
  StoreSpec => [](RoutesAreSound /\ PinnedStaysFenced /\ RevisionsAreFresh)
PROOF
  <1>1. StoreInit => StoreInv
    BY InitStore
  <1>2. StoreInv /\ [StoreNext]_storeVars => StoreInv'
    <2> SUFFICES ASSUME StoreInv, [StoreNext]_storeVars PROVE StoreInv'
      OBVIOUS
    <2>1. CASE StoreNext
      BY <2>1, StoreNextStep
    <2>2. CASE UNCHANGED storeVars
      BY <2>2 DEF storeVars, StoreInv, StoreTypeOK, RoutesAreSound, PinnedStaysFenced,
                  RevisionsAreFresh, Known, RouteEligible
    <2> QED BY <2>1, <2>2
  <1>3. StoreInv => RoutesAreSound /\ PinnedStaysFenced /\ RevisionsAreFresh
    BY DEF StoreInv
  <1> QED BY <1>1, <1>2, <1>3, PTL DEF StoreSpec
=============================================================================
