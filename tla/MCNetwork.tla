----------------------------- MODULE MCNetwork -----------------------------
(* Networks for TLC.                                                       *)
EXTENDS Network, TLC

CONSTANTS a, b, c, d

Both(x, y, cost) == (<<x, y>> :> cost) @@ (<<y, x>> :> cost)

\* a - b - c
Line == [links |-> Both(a, b, 2) @@ Both(b, c, 2), crashers |-> {a, b, c},
         crashes |-> 1, delays |-> 1, losses |-> 2]

\* The direct link of a and c is dearer than the way through b.
Triangle == [links |-> Both(a, b, 1) @@ Both(b, c, 1) @@ Both(a, c, 3), crashers |-> {b, c},
             crashes |-> 1, delays |-> 0, losses |-> 1]

\* The triangle, with a neighbor that times out although it runs.
LateTriangle == [Triangle EXCEPT !.crashes = 0, !.delays = 1, !.losses = 0]

\* A triangle, and a router hung on one of its corners that dies.
Pendant == [links |-> Both(a, b, 1) @@ Both(b, c, 1) @@ Both(a, c, 1) @@ Both(a, d, 1),
            crashers |-> {d}, crashes |-> 1, delays |-> 0, losses |-> 0]

PendantNetwork == {Pendant}

SmallNetworks == {Line, Triangle, LateTriangle}
=============================================================================
