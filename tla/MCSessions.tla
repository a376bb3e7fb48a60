------------------------------ MODULE MCSessions ------------------------------
(* Symmetry for Sessions. *)
EXTENDS Sessions, TLC

Symmetry == Permutations(Processes) \cup Permutations(Tokens)
==============================================================================
