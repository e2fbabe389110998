----------------------------- MODULE RouteTable -----------------------------
(***************************************************************************)
(* What the routing table of a router stands for: a router that keeps the  *)
(* last announcement of everyone it hears, stores no costs, and works out  *)
(* what a route costs whenever it compares two.  Its state is the choice   *)
(* of a next hop for every destination.                                    *)
(***************************************************************************)
EXTENDS Integers

CONSTANTS
    Ports,          \* the routers
    NoPort,         \* no router
    Self,           \* the router that keeps the table
    Neighbors,      \* those it has a link to
    Senders,        \* those it may hear from
    initial_cost,   \* the cost of the link to each sender
    Datagrams       \* what they may announce: [from, body]

VARIABLES
    listed,    \* the destinations it keeps a route for
    hop,       \* the next hop of each
    heard      \* the last cost each sender announced for each destination

vars == <<listed, hop, heard>>

Infinity == -1

\* What the route to id through w costs by the announcements h.
Cost(h, w, id) ==
    IF id = w THEN initial_cost[w]
    ELSE IF h[w][id] = Infinity THEN Infinity
    ELSE initial_cost[w] + h[w][id]

\* By the announcements h the route to id through w beats the present one.
Better(h, w, id) ==
    /\ Cost(h, w, id) # Infinity
    /\ hop[id] # NoPort => Cost(h, w, id) < Cost(h, hop[id], id)

Init ==
    /\ listed = {Self} \cup Neighbors
    /\ hop = [id \in Ports |-> IF id \in Neighbors THEN id ELSE NoPort]
    /\ heard = [w \in Senders |-> [id \in Ports |-> Infinity]]

\* d.from announces d.body, and some of what is new is listed.  A route changes
\* hands only for a better one, and is given up when its next hop gives it up.
Hear(d, new) ==
    LET w == d.from
        said == {id \in DOMAIN d.body : id # Self /\ id \in listed \cup new}
    IN  /\ listed' = listed \cup new
        /\ heard' = [heard EXCEPT ![w] =
                        [id \in Ports |-> IF id \in DOMAIN d.body THEN d.body[id] ELSE @[id]]]
        /\ hop' = [id \in Ports |->
                    CASE id \in said /\ hop[id] = w /\ Cost(heard', w, id) = Infinity -> NoPort
                      [] id \in said /\ hop[id] # w /\ Better(heard', w, id) -> w
                      [] OTHER -> hop[id]]

\* Nothing was heard from w for too long.
Lose(w) ==
    /\ hop' = [id \in Ports |-> IF hop[id] = w THEN NoPort ELSE hop[id]]
    /\ UNCHANGED <<listed, heard>>

Next ==
    \/ \E d \in Datagrams : \E new \in SUBSET (DOMAIN d.body \ listed) : Hear(d, new)
    \/ \E w \in Senders : Lose(w)

Spec == Init /\ [][Next]_vars
=============================================================================
