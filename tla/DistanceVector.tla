--------------------------- MODULE DistanceVector ---------------------------
(***************************************************************************)
(* The routing table of one router and what the functions of router.c do   *)
(* to it: process_distance_pair, purge_neighbor, what send_to_neighbors    *)
(* reads from it, and the set-up done by init_neighbors.  The module has   *)
(* no state of its own; Router and Network run these operators.            *)
(*                                                                         *)
(* A table maps every port to the part of "struct router" that the         *)
(* algorithm uses, [cost, next_hop].  The fields id and acknowledged are   *)
(* left out: the first is the index, the second only silences a printf.    *)
(* The list known_routers is the set of ports on it; its order decides     *)
(* which of several new ports are admitted when there is room for only     *)
(* some of them, and that choice is left open (Admitted).                  *)
(***************************************************************************)
EXTENDS Integers, FiniteSets

CONSTANTS
    Ports,         \* the routers' ids (UDP ports)
    NoPort,        \* the 0 that stands for "no router"
    MAX_ROUTERS,   \* capacity of the message buffer and of known_routers
    INT_MAX        \* largest int32_t (scaled down for model checking)

ASSUME PortsAssumption == IsFiniteSet(Ports) /\ NoPort \notin Ports

ASSUME LimitsAssumption == MAX_ROUTERS \in Nat \ {0} /\ INT_MAX \in Nat \ {0}

\* Variant: an infinite cost is read back as an unsigned number.
Infinity_unsigned == 2 * INT_MAX + 1

\* What the code writes for an infinite cost.
Infinity == -1

Costs == (-INT_MAX - 1) .. INT_MAX

Entry == [cost : Costs, next_hop : Ports \cup {NoPort}]

\* A zero-initialised element of all_routers.
BlankEntry == [cost |-> 0, next_hop |-> NoPort]

\* No route: the two assignments that always go together.
NoRoute == [cost |-> Infinity, next_hop |-> NoPort]

-----------------------------------------------------------------------------
(* process_distance_pair, for one pair (id, dw_xy) of a message that        *)
(* neighbor sent over a link of cost link.                                  *)

\* int32_t addition: the sum of two int32_t wraps around at most once.
Add32(a, b) ==
    LET s == a + b IN
    IF s > INT_MAX THEN s - 2 * (INT_MAX + 1)
    ELSE IF s < -INT_MAX - 1 THEN s + 2 * (INT_MAX + 1)
    ELSE s

\* Variant: the sum is not confined to 32 bits.
RouteVia_wide(neighbor, link, dw_xy) ==
    [cost |-> link + dw_xy, next_hop |-> neighbor]

RouteVia(neighbor, link, dw_xy) ==
    [cost |-> Add32(link, dw_xy), next_hop |-> neighbor]

\* The entry of a router heard of for the first time.
learned_entry(neighbor, link, dw_xy) ==
    IF dw_xy = Infinity THEN NoRoute ELSE RouteVia(neighbor, link, dw_xy)

\* The sender itself: the link is taken if it is better than the present route.
direct_entry(curr, neighbor, link) ==
    IF curr.cost > link \/ curr.cost = Infinity
    THEN [cost |-> link, next_hop |-> neighbor]
    ELSE curr

\* Variant: a lost route keeps its next hop.
same_hop_entry_keeps_hop(curr, neighbor, link, dw_xy) ==
    IF dw_xy # Infinity THEN RouteVia(neighbor, link, dw_xy)
    ELSE [curr EXCEPT !.cost = Infinity]

\* Variant: bad news from the next hop itself is not believed.
same_hop_entry_optimistic(curr, neighbor, link, dw_xy) ==
    IF dw_xy # Infinity /\ curr.cost > Add32(link, dw_xy)
    THEN RouteVia(neighbor, link, dw_xy)
    ELSE curr

\* A route through the sender follows what the sender says, for better or worse.
same_hop_entry(curr, neighbor, link, dw_xy) ==
    IF dw_xy # Infinity THEN RouteVia(neighbor, link, dw_xy) ELSE NoRoute

\* Variant: a route of equal cost replaces the present one.
other_hop_entry_flaps(curr, neighbor, link, dw_xy) ==
    IF dw_xy # Infinity /\ (curr.cost >= Add32(link, dw_xy) \/ curr.cost = Infinity)
    THEN RouteVia(neighbor, link, dw_xy)
    ELSE curr

\* No route, or a route through another neighbor, yields to a cheaper one.
other_hop_entry(curr, neighbor, link, dw_xy) ==
    IF dw_xy # Infinity /\ (curr.cost > Add32(link, dw_xy) \/ curr.cost = Infinity)
    THEN RouteVia(neighbor, link, dw_xy)
    ELSE curr

\* The entry of a router that was known already.
updated_entry(curr, id, neighbor, link, dw_xy) ==
    IF id = neighbor THEN direct_entry(curr, neighbor, link)
    ELSE IF curr.next_hop = neighbor THEN same_hop_entry(curr, neighbor, link, dw_xy)
    ELSE other_hop_entry(curr, neighbor, link, dw_xy)

\* Variant: the test against MAX_ROUTERS is off by one.
Admitted_one_more(known, ids) ==
    { new \in SUBSET (ids \ known) :
        /\ new # {} => Cardinality(known) + Cardinality(new) - 1 <= MAX_ROUTERS
        /\ new # ids \ known => Cardinality(known) + Cardinality(new) > MAX_ROUTERS }

\* The sets of new ports that a message about the ports ids may add to the
\* list: each was appended while ListCount < MAX_ROUTERS, and one that was
\* ignored met a full list.
Admitted(known, ids) ==
    { new \in SUBSET (ids \ known) :
        /\ new # {} => Cardinality(known) + Cardinality(new) - 1 < MAX_ROUTERS
        /\ new # ids \ known => Cardinality(known) + Cardinality(new) >= MAX_ROUTERS }

\* The loop of handle_received_data over the pairs of a message.  The pairs
\* of a message have distinct ids, so each touches an entry of its own.
process_pairs(table, known, new, neighbor, link, msg) ==
    [id \in DOMAIN table |->
        IF id \in DOMAIN msg /\ id \in known
        THEN updated_entry(table[id], id, neighbor, link, msg[id])
        ELSE IF id \in DOMAIN msg /\ id \in new
        THEN learned_entry(neighbor, link, msg[id])
        ELSE table[id]]

\* Variant: only the neighbor's own entry is reset.
purge_neighbor_only(table, known, neighbor) ==
    [id \in DOMAIN table |->
        IF id = neighbor /\ table[id].next_hop = neighbor THEN NoRoute ELSE table[id]]

\* purge_neighbor: every listed route through the neighbor is lost.
purge_neighbor(table, known, neighbor) ==
    [id \in DOMAIN table |->
        IF id \in known /\ table[id].next_hop = neighbor THEN NoRoute ELSE table[id]]

\* Variant: a route is also told to the neighbor it leads through.
told_cost_unpoisoned(table, id, neighbor) == table[id].cost

\* What neighbor is told of id: infinity if the route leads through it.
told_cost(table, id, neighbor) ==
    IF table[id].next_hop = neighbor THEN Infinity ELSE table[id].cost

\* send_to_neighbors, for one neighbor: every listed router.
vector(table, known, neighbor) == [id \in known |-> told_cost(table, id, neighbor)]

\* init_neighbors: the router itself at cost 0, each neighbor over its link.
init_table(self, neighbors, initial_cost) ==
    [id \in Ports |->
        IF id = self THEN [cost |-> 0, next_hop |-> NoPort]
        ELSE IF id \in neighbors THEN [cost |-> initial_cost[id], next_hop |-> id]
        ELSE BlankEntry]

=============================================================================
