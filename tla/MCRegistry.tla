------------------------------ MODULE MCRegistry ------------------------------
(***************************************************************************)
(* An instance of Registry for TLC, whose characters are whole words.      *)
(* Both servers offer `search'; pg also has a tool whose name looks like   *)
(* the one the gateway composes for the tool of docs.                      *)
(***************************************************************************)
EXTENDS Registry, TLC

Words == {"pg", "docs", "search", ".", "_"}

pg == <<"pg">>
docs == <<"docs">>
search == <<"search">>
dotted == <<"docs", ".", "search">>

TwoServers == {pg, docs}

OwnIds == [s \in Servers |-> s]

LookalikeOffers == (pg :> {<<search, dotted>>}) @@ (docs :> {<<search>>})
===============================================================================
