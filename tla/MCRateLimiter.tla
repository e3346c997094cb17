---------------------------- MODULE MCRateLimiter ----------------------------
(***************************************************************************)
(* An instance of RateLimiter for TLC: a call costs two units, so rates of *)
(* half a token occur; one tool never regains tokens.                      *)
(***************************************************************************)
EXTENDS RateLimiter, TLC

CONSTANTS t1, t2

TheRates == (Agent :> 3) @@ (t1 :> 1) @@ (t2 :> 0)

TheCapacities == (Agent :> 5) @@ (t1 :> 4) @@ (t2 :> 2)
===============================================================================
