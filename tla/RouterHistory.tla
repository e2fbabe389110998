---------------------------- MODULE RouterHistory ----------------------------
(***************************************************************************)
(* Router with a history variable: what every sender last announced.  The  *)
(* program does not keep the vectors it receives, only the table computed  *)
(* from them; the history says what the table must agree with.             *)
(***************************************************************************)
EXTENDS Router

VARIABLE heard    \* heard[w][id]: the last cost w announced for id, Infinity if none

HInit == Init /\ heard = [w \in Senders |-> [id \in Ports |-> Infinity]]

Announced(w, body) ==
    [heard EXCEPT ![w] = [id \in Ports |-> IF id \in DOMAIN body THEN body[id] ELSE @[id]]]

\* Of the actions enabled while main is about to handle a message, only the
\* handler of the message takes it back to the head of the loop.
HNext ==
    /\ Next
    /\ heard' = IF Hearing(msginfo.from) /\ pc' = "loop"
                THEN Announced(msginfo.from, msginfo.body)
                ELSE heard

hvars == <<vars, heard>>

HSpec == HInit /\ [][HNext]_hvars

\* A route costs what its next hop last announced plus the link to the next hop
\* (the link alone for the next hop itself), whatever the order in which the
\* messages of the neighbors and their timeouts were handled: better news about
\* a route, worse news, a loss and a revival all leave no stale cost behind.
RouteIsLastHeard ==
    \A id \in known :
        LET w == table[id].next_hop IN
        w # NoPort =>
            IF id = w
            THEN table[id].cost = initial_cost[w]
            ELSE /\ heard[w][id] # Infinity
                 /\ table[id].cost = initial_cost[w] + heard[w][id]

Promise == INSTANCE RouteTable WITH
    listed <- known,
    hop <- [id \in Ports |-> table[id].next_hop]

\* The table's stored costs are never out of step with what was announced: the
\* router picks, keeps and drops next hops like one that kept every announcement
\* and worked each cost out afresh (process_distance_pair, purge_neighbor).
ImplementsRouteTable == Promise!Spec

=============================================================================
