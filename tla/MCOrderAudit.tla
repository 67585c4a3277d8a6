---------------------------- MODULE MCOrderAudit ----------------------------
(* Two audits of one trade whose orders ask for three units.                 *)
EXTENDS OrderAudit, TLC

CONSTANTS a, b

AuditorSymmetry == Permutations({a, b})
=============================================================================
