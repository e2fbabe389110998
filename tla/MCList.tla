------------------------------- MODULE MCList -------------------------------
(***************************************************************************)
(* Values for List's constants.                                            *)
(***************************************************************************)
EXTENDS List, TLC

CONSTANTS a, b, n1, n2, n3, n4, h1, h2

\* Indices and handles are interchangeable, and so are the items.
Symmetry ==
    Permutations({n1, n2, n3, n4}) \cup Permutations({h1, h2})
        \cup Permutations({a, b})

\* No function reads what the last call returned: states that differ in nothing
\* else have the same successors.  The properties judge call and value in the
\* step that writes them.
StateView == <<node, list, crashed>>
=============================================================================
