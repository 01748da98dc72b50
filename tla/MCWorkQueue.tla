---------------------------- MODULE MCWorkQueue ----------------------------
(***************************************************************************)
(* Instances of WorkQueue for TLC.  Nodes, items and slots are            *)
(* interchangeable.                                                         *)
(***************************************************************************)
EXTENDS WorkQueue, TLC

Symmetry == Permutations(Items) \cup Permutations(Slots) \cup Permutations(Nodes)
============================================================================
