---------------------------- MODULE MCAzureMachine ----------------------------
(* Model checking of AzureMachine: shells, names and addresses are             *)
(* interchangeable.                                                            *)
EXTENDS AzureMachine, TLC

Interchangeable == Permutations(Command) \cup Permutations(Name) \cup Permutations(Address)
================================================================================
