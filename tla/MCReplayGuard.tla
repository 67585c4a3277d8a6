---------------------------- MODULE MCReplayGuard ---------------------------
(* Two instances, one of them with a clock that is ahead, room for two keys *)
(* and four keys: with room for one, the claim whose transaction prunes a   *)
(* row would take its place, and three keys would never exceed the bound.   *)
EXTENDS ReplayGuard, TLC

CONSTANTS k1, k2, k3, k4, f1, f2

Requests == {<<k1, f1>>, <<k1, f2>>, <<k2, f1>>, <<k3, f1>>, <<k4, f1>>}

(* The keys that come with one fingerprint are interchangeable.             *)
Symmetry == Permutations({k2, k3, k4})
=============================================================================
