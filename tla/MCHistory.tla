------------------------------ MODULE MCHistory ------------------------------
(* An instance of History for TLC.                                          *)
EXTENDS History, TLC

CONSTANTS r1, r2, s1, a, b

MCIds == {r1, r2, s1}
MCAutomationOf == r1 :> a @@ r2 :> a @@ s1 :> b
MCCap == a :> 1 @@ b :> 1 @@ All :> 2
MCMaxPurges == a :> 1 @@ b :> 0

Symmetry == Permutations(Procs) \cup Permutations({r1, r2})
=============================================================================
