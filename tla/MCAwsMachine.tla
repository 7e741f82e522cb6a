----------------------------- MODULE MCAwsMachine -----------------------------
(* Model checking of AwsMachine: names, instances and volumes are              *)
(* interchangeable.                                                            *)
EXTENDS AwsMachine, TLC

Interchangeable == Permutations(Name) \cup Permutations(Instance) \cup Permutations(Volume)
================================================================================
