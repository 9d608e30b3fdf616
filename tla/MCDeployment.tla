----------------------------- MODULE MCDeployment -----------------------------
(* Instances of Deployment for TLC. *)
EXTENDS Deployment, TLC

CONSTANTS a, b, d1, k1, k2, t1, t2

Symmetric == Permutations({a, b}) \cup Permutations({k1, k2}) \cup Permutations({t1, t2})
=============================================================================
