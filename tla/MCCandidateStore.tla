-------------------------- MODULE MCCandidateStore --------------------------
(* Two interchangeable symbols whose setups outlive the cooldown, and room  *)
(* for one terminal candidate.                                              *)
EXTENDS CandidateStore, TLC

Symmetry == Permutations(Symbol)
=============================================================================
