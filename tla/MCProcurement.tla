---------------------------- MODULE MCProcurement -----------------------------
EXTENDS PurchaseViews, TLC

CONSTANTS s1, s2, a1, a2

\* a1 has a preferred supplier, a2 is put out to both.
MCRows == [a \in Articles |-> IF s2 \in Suppliers THEN <<s1, s2>> ELSE <<s1>>]
MCDirect == Articles \cap {a1}

Symmetry == Permutations(Requests) \cup Permutations(Orders) \cup Permutations(Workers)
=============================================================================
