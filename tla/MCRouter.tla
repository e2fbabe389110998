------------------------------ MODULE MCRouter ------------------------------
(***************************************************************************)
(* Instances of Router for TLC.                                            *)
(***************************************************************************)
EXTENDS Router, TLC

CONSTANTS self, n1, n2, s1, d

TwoNeighbors == <<n1, n2>>
OneNeighbor == <<n1>>

Links == n1 :> 1 @@ n2 :> 3
OneLink == n1 :> 1
LinkAndStranger == n1 :> 2 @@ s1 :> 0

-----------------------------------------------------------------------------
\* Routes: every neighbor knows itself, the router and d, and its cost to d varies.
RouteDatagrams ==
    { [from |-> w, body |-> w :> 0 @@ self :> 2 @@ d :> c] : w \in {n1, n2}, c \in {Infinity, 1, 3} }

\* The loop: the neighbor and a stranger know d.  The stranger is nearer, and its list
\* is longer than there is room for; the cost that the neighbor announces does not fit
\* into 32 bits when the link is added.
StrangerDatagrams ==
    { [from |-> s1, body |-> s1 :> 0 @@ d :> 1],
      [from |-> n1, body |-> n1 :> 0 @@ d :> 3] }

\* The races: the neighbor knows d.
OneDatagram == { [from |-> n1, body |-> n1 :> 0 @@ d :> 1] }

=============================================================================
