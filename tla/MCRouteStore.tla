---------------------------- MODULE MCRouteStore ----------------------------
(* Two instances whose metadata may carry the same username, database or    *)
(* password, each of them eligible, stopped, or blocked by the disk limit.  *)
EXTENDS RouteStore

Meta(run, wanted, blocked, db, pw) ==
  [running |-> run, wanted |-> wanted, blocked |-> blocked, key |-> <<"u", db>>,
   password |-> pw, limit |-> 1, endpoint |-> "a"]

MCMetadata == {Meta(TRUE, TRUE, FALSE, "d1", "p"), Meta(TRUE, TRUE, FALSE, "d2", "p"),
               Meta(TRUE, TRUE, FALSE, "d1", NoPassword),
               Meta(TRUE, TRUE, TRUE, "d1", NoPassword), Meta(FALSE, TRUE, FALSE, "d2", "p"),
               Meta(TRUE, FALSE, FALSE, "d2", NoPassword)}

MCUsers == {"u"}
MCDatabases == {"d1", "d2"}
MCPasswords == {"p"}
=============================================================================
