------------------------------ MODULE MCCatalogue ------------------------------
(* Two shapes of template and four loads for Catalogue and Migrations. *)
EXTENDS Migrations, TLC

CONSTANTS f1, f2

SmallShapes == {[pattern |-> {f1}, fields |-> {f1, f2}, required |-> {f1}],
                [pattern |-> {f2}, fields |-> {f1, f2}, required |-> {f1, f2}]}

SmallLoads == {{"template", "family", "item"}, {"family", "item", "reference"}, {"part"}, {"migration", "item"}}

Symmetry == Permutations(Workers) \cup Permutations(Templates) \cup Permutations(Sources) \cup Permutations(Items)
==============================================================================
