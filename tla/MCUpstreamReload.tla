--------------------------- MODULE MCUpstreamReload ---------------------------
(***************************************************************************)
(* An instance of UpstreamReload for TLC: `pg' moves and changes, `gh'     *)
(* comes and goes, `adhoc' is known to the API alone.  The third file has  *)
(* an invalid guardrail.                                                   *)
(***************************************************************************)
EXTENDS UpstreamReload, TLC

CONSTANTS pg, gh, adhoc, u1, u2

At(u, n) == [url |-> u, rest |-> n]

Files ==
  << (pg :> At(u1, 1)) @@ (gh :> NoServer) @@ (adhoc :> NoServer),
     (pg :> At(u1, 2)) @@ (gh :> At(u2, 1)) @@ (adhoc :> NoServer),
     (pg :> At(u2, 2)) @@ (gh :> NoServer) @@ (adhoc :> NoServer),
     (pg :> At(u2, 1)) @@ (gh :> NoServer) @@ (adhoc :> NoServer) >>

Adhoc == At(u1, 3)
===============================================================================
