-------------------------- MODULE MCExecutionWorker -------------------------
(* ExecutionWorker with every command of one signal, so that commands are  *)
(* interchangeable.                                                        *)
EXTENDS ExecutionWorker, TLC

CONSTANT s1

OneSignal == [c \in Command |-> s1]

Symmetry == Permutations(Command)
=============================================================================
