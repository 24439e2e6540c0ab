--------------------------- MODULE MCGatewayRoutes --------------------------
(* One tenant, connections of every kind, and fences racing publications. *)
EXTENDS GatewayRoutes, TLC

Meta(blocked, pw) ==
  [running |-> TRUE, wanted |-> TRUE, blocked |-> blocked, key |-> <<"u", "d">>,
   password |-> pw, limit |-> 1, endpoint |-> "a"]

MCMetadata == {Meta(FALSE, "p"), Meta(TRUE, NoPassword)}

LiveMetadata == {Meta(FALSE, "p")}

ConnSymmetry == Permutations(Conns)

MCUsers == {"u"}
MCDatabases == {"d"}
MCPasswords == {"p"}
=============================================================================
