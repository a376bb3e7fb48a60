----------------------------- MODULE MCConcurrent -----------------------------
(* ConcurrentWorkflow on small instances; the sizes are in the .cfg files. *)
EXTENDS Repairs, TLC

\* Workers, and the identifiers of one table, are interchangeable.
Symmetry == Permutations(Workers) \cup Permutations(Requests)
                \cup Permutations(Interventions) \cup Permutations(Occurrences)

==============================================================================
