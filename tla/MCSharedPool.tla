---------------------------- MODULE MCSharedPool ----------------------------
(***************************************************************************)
(* SharedPool with two tenants in a pool of three units of disk.  At first *)
(* one tenant has a unit and the other is still to be created.             *)
(***************************************************************************)
EXTENDS SharedPool

CONSTANTS a, b

MCTenants == {a, b}

MCInit == Init /\ row[a].disk = 1 /\ row[b] = NoRow
MCSpec == MCInit /\ [][Next]_vars /\ Fairness
=============================================================================
