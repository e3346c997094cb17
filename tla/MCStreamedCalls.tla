--------------------------- MODULE MCStreamedCalls ---------------------------
(***************************************************************************)
(* An instance of StreamedCalls for TLC: a tool that reads and a mutable   *)
(* one that writes; a restricted reader, an ops agent, and an agent that   *)
(* no policy names.  The second gateway.yaml turns OIDC on and gives the   *)
(* reader more, the third takes everything from ops, the fourth turns      *)
(* access control off.                                                     *)
(***************************************************************************)
EXTENDS StreamedCalls, TLC

CONSTANTS reader, ops, guest

read == [raw |-> "list", qualified |-> "pg.list", mutable |-> FALSE]
write == [raw |-> "sql", qualified |-> "pg.sql", mutable |-> TRUE]

TwoTools == {read, write}

Acl(r, o) == (reader :> r) @@ (ops :> o) @@ (guest :> {})

Policies ==
  << [enabled |-> TRUE, oidc |-> FALSE, mutableAllowed |-> {ops},
      permissions |-> Acl({"pg.list"}, {"*"})],
     [enabled |-> TRUE, oidc |-> TRUE, mutableAllowed |-> {ops, guest},
      permissions |-> Acl({"list", "pg.sql"}, {"*"})],
     [enabled |-> TRUE, oidc |-> TRUE, mutableAllowed |-> {reader},
      permissions |-> Acl({"list"}, {"pg.list"})],
     [enabled |-> FALSE, oidc |-> TRUE, mutableAllowed |-> {},
      permissions |-> Acl({}, {})] >>
==============================================================================
