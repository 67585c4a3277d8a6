-------------------------- MODULE MCSignalPipeline --------------------------
(* A small instance: two symbols that do not fit into the account together. *)
EXTENDS SignalPipeline

Margins == [s \in Symbol |-> 1]

Symmetry == Permutations(Symbol)
=============================================================================
