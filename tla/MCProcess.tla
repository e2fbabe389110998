----------------------------- MODULE MCProcess -----------------------------
(* Command lines of up to one neighbor too many; the loop is followed for  *)
(* one with two neighbors, behind which there is another router.           *)
EXTENDS Process

CONSTANTS self, n1, n2, x

Pairs == [port : {self, n1, n2, BadPort}, cost : {-1, 0, 1}]

CheapPairs == [port : {self, n1, n2}, cost : {1}]

MCCommandLines ==
    [self : {self, BadPort}, pairs : UNION {[1..k -> Pairs] : k \in 0..2}, complete : BOOLEAN]
        \cup [self : {self}, pairs : UNION {[1..k -> CheapPairs] : k \in 3..4}, complete : {TRUE}]

MCNeighborInfo == <<n1, n2>>

Via(n) == [cost |-> 2, next_hop |-> n]

MCChanges ==
    { [id |-> x, entry |-> e] : e \in {NoRoute, Via(n1), Via(n2)} }
        \cup { [id |-> n1, entry |-> e] : e \in {NoRoute, Via(n2)} }
=============================================================================
