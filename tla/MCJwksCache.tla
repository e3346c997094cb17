----------------------------- MODULE MCJwksCache -----------------------------
(***************************************************************************)
(* Instances of JwksCache for TLC; requests and keys are interchangeable.  *)
(***************************************************************************)
EXTENDS JwksCache, TLC

JwksSymmetry == Permutations(Requests) \union Permutations(Kids)
==============================================================================
