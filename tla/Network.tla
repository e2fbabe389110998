------------------------------ MODULE Network ------------------------------
(***************************************************************************)
(* Several router processes that send each other vectors over UDP.  Each   *)
(* handles a tick, a datagram and a timeout as router.c does (module       *)
(* Router shows how one process gets there); here they are single steps.   *)
(* Datagrams are lost, wait in sockets, and outlive a sender that crashes; *)
(* a router that is started again knows nothing but its command line.      *)
(***************************************************************************)
EXTENDS DistanceVector, Sequences, FiniteSetsExt, Functions

CONSTANTS
    Networks,      \* the networks: [links, crashers, crashes, delays, losses]
    ChannelBound   \* bound: datagrams of one sender waiting at one receiver

\* A network has links, [<<a, b>> |-> cost], the same in both directions; routers
\* that may crash; and bounds on crashes, on neighbors that time out although they
\* run, and on lost datagrams.
ASSUME NetworkAssumption ==
    /\ \A nw \in Networks :
          /\ DOMAIN nw.links \subseteq Ports \X Ports
          /\ \A l \in DOMAIN nw.links :
                /\ l[1] # l[2]
                /\ <<l[2], l[1]>> \in DOMAIN nw.links
                /\ nw.links[<<l[2], l[1]>>] = nw.links[l]
                /\ nw.links[l] \in 1..INT_MAX
          /\ nw.crashers \subseteq Ports
          /\ nw.crashes \in Nat /\ nw.delays \in Nat /\ nw.losses \in Nat
    /\ ChannelBound \in Nat \ {0}

VARIABLES
    network,     \* the network
    up,          \* the routers that run
    table,       \* all_routers of each router
    known,       \* known_routers of each router
    down,        \* the neighbors each router has marked down
    net,         \* datagrams under way from one router to another, oldest first
    crashes,     \* crashes so far
    delays,      \* late datagrams so far
    losses       \* datagrams lost so far

vars == <<network, up, table, known, down, net, crashes, delays, losses>>

link_cost == network.links

Links == DOMAIN link_cost

Neighbors(r) == {n \in Ports : <<r, n>> \in Links}

initial_cost(r) == [n \in Neighbors(r) |-> link_cost[<<r, n>>]]

InitialTable(r) == init_table(r, Neighbors(r), initial_cost(r))

Init ==
    /\ network \in Networks
    /\ up = Ports
    /\ table = [r \in Ports |-> InitialTable(r)]
    /\ known = [r \in Ports |-> {r} \cup Neighbors(r)]
    /\ down = [r \in Ports |-> {}]
    /\ net = [l \in Links |-> <<>>]
    /\ crashes = 0
    /\ delays = 0
    /\ losses = 0

-----------------------------------------------------------------------------
(* What one router does.                                                   *)

\* Two seconds have passed: send_to_neighbors.  A datagram to a router that does
\* not run, or whose socket is full, is lost.
Tick(r) ==
    /\ r \in up
    /\ net' = [l \in Links |->
                  IF l[1] = r /\ l[2] \in up /\ Len(net[l]) < ChannelBound
                  THEN Append(net[l], vector(table[r], known[r], l[2]))
                  ELSE net[l]]
    /\ UNCHANGED <<network, up, table, known, down, crashes, delays, losses>>

\* handle_received_data for the oldest datagram from n.
Receive(r, n) ==
    /\ r \in up
    /\ net[<<n, r>>] # <<>>
    /\ LET msg == Head(net[<<n, r>>]) IN
       \E new \in Admitted(known[r], DOMAIN msg) :
          /\ table' = [table EXCEPT ![r] =
                          process_pairs(@, known[r], new, n, initial_cost(r)[n], msg)]
          /\ known' = [known EXCEPT ![r] = @ \cup new]
    /\ down' = [down EXCEPT ![r] = @ \ {n}]
    /\ net' = [net EXCEPT ![<<n, r>>] = Tail(@)]
    /\ UNCHANGED <<network, up, crashes, delays, losses>>

\* purge_neighbor: nothing was heard from n for five seconds.  Either n does not
\* run and left nothing behind, or its datagrams are late.
NeighborTimeout(r, n) ==
    /\ r \in up
    /\ n \notin down[r]
    /\ \/ n \notin up /\ net[<<n, r>>] = <<>> /\ UNCHANGED delays
       \/ n \in up /\ delays < network.delays /\ delays' = delays + 1
    /\ table' = [table EXCEPT ![r] = purge_neighbor(@, known[r], n)]
    /\ down' = [down EXCEPT ![r] = @ \cup {n}]
    /\ UNCHANGED <<network, up, known, net, crashes, losses>>

-----------------------------------------------------------------------------
(* What happens to them.                                                   *)

\* The network loses a datagram.
Lose(l) ==
    /\ net[l] # <<>>
    /\ losses < network.losses
    /\ losses' = losses + 1
    /\ net' = [net EXCEPT ![l] = Tail(@)]
    /\ UNCHANGED <<network, up, table, known, down, crashes, delays>>

\* The process ends, and its socket with what waited there.  Its variables are
\* those it will start with.
Crash(r) ==
    /\ r \in up \cap network.crashers
    /\ crashes < network.crashes
    /\ crashes' = crashes + 1
    /\ up' = up \ {r}
    /\ table' = [table EXCEPT ![r] = InitialTable(r)]
    /\ known' = [known EXCEPT ![r] = {r} \cup Neighbors(r)]
    /\ down' = [down EXCEPT ![r] = {}]
    /\ net' = [l \in Links |-> IF l[2] = r THEN <<>> ELSE net[l]]
    /\ UNCHANGED <<network, delays, losses>>

Restart(r) ==
    /\ r \notin up
    /\ up' = up \cup {r}
    /\ UNCHANGED <<network, table, known, down, net, crashes, delays, losses>>

Next ==
    \/ \E r \in Ports : Tick(r) \/ Crash(r) \/ Restart(r)
    \/ \E l \in Links : Receive(l[2], l[1]) \/ NeighborTimeout(l[1], l[2]) \/ Lose(l)

Spec == Init /\ [][Next]_vars

\* Routers go on ticking, what waits in a socket is read, and a neighbor that is
\* silent for good times out.  Nobody promises that a router is started again.
Fairness ==
    /\ \A r \in Ports : WF_vars(Tick(r))
    /\ \A r, n \in Ports : WF_vars(<<n, r>> \in Links /\ Receive(r, n))
    /\ WF_vars(\E l \in Links : l[2] \notin up /\ NeighborTimeout(l[1], l[2]))

FairSpec == Spec /\ Fairness

-----------------------------------------------------------------------------
(* Properties                                                              *)

TypeOK ==
    /\ network \in Networks
    /\ up \subseteq Ports
    /\ table \in [Ports -> [Ports -> Entry]]
    /\ known \in [Ports -> SUBSET Ports]
    /\ \A r \in Ports : down[r] \subseteq Neighbors(r)
    /\ \A l \in Links : Len(net[l]) <= ChannelBound

\* What the theorems about one router assume of the datagrams it gets
\* (HonestCosts in Router): a sender announces itself at cost 0, and every cost it
\* announces is infinite or can be added to the link.  With the links of a
\* network taken together below INT_MAX this holds as long as costs do not count
\* up, which is what announcing infinity to the next hop is for.
MessagesHonest ==
    \A l \in Links : \A i \in DOMAIN net[l] :
        LET msg == net[l][i] IN
        /\ l[1] \in DOMAIN msg /\ msg[l[1]] = 0
        /\ \A id \in DOMAIN msg :
              msg[id] = Infinity \/ msg[id] \in 0..(INT_MAX - link_cost[l])

\* The length of a shortest path from x to y in which only routers of alive take
\* part, by Bellman and Ford; Infinity if there is none.
Distance ==
    [nw \in Networks, alive \in SUBSET Ports, x \in Ports, y \in Ports |->
        LET D[k \in 0..Cardinality(Ports), z \in Ports] ==
                IF z = y THEN 0
                ELSE IF k = 0 THEN Infinity
                ELSE LET next == {n \in alive : <<z, n>> \in DOMAIN nw.links /\ D[k - 1, n] # Infinity}
                     IN  IF next = {} THEN Infinity
                         ELSE Min({nw.links[<<z, n>>] + D[k - 1, n] : n \in next})
        IN  IF {x, y} \subseteq alive THEN D[Cardinality(Ports), x] ELSE Infinity]

\* The routers that run agree with the network as it is.
Settled ==
    \A r \in up : \A id \in known[r] : table[r][id].cost = Distance[network, up, r, id]

\* On a line and on a triangle, whatever was lost, delayed or restarted before, the
\* routers come to know the shortest paths, and of what cannot be reached that it
\* cannot be.  It is no promise for every network: see CostsAreOfPaths.
Converges == <>[]Settled

\* The costs of all links, in both directions.
BothWays == FoldFunction(+, 0, link_cost)

\* "The only real effect this causes is one cycle may not update its routes as
\* fast but as soon as another neighbor sends its routing table to the current
\* process, these values would be updated and corrected" (designdoc.txt, on what
\* follows the loss of a link).  If so, a cost may for a cycle be that of a path
\* which no longer exists, but never more than all links together: that is a loop,
\* and what a router of the loop is sent next raises its cost instead of correcting
\* it.  Where a router hangs on a corner of a triangle and dies, the code gets there.
CostsAreOfPaths ==
    \A r \in Ports : \A id \in known[r] : 2 * table[r][id].cost <= BothWays

\* The distance when all routers run.
Far(r, d) == IF r = d THEN 0 ELSE Distance[network, Ports, r, d]

\* The link from r to n is the beginning of a shortest path to d.
Toward(r, n, d) ==
    /\ <<r, n>> \in Links
    /\ Far(r, d) # Infinity /\ Far(n, d) # Infinity
    /\ Far(r, d) = link_cost[<<r, n>>] + Far(n, d)

\* The network has no cycles: seen from d, all neighbors of a router but the
\* one on its way to d are behind it.  Distances fit a cost.
Forest ==
    /\ \A r, d \in Ports : Far(r, d) \in {Infinity} \cup 0..INT_MAX
    /\ \A r, n, d \in Ports :
          <<r, n>> \in Links /\ (r = d \/ \E m \in Ports \ {n} : Toward(r, m, d))
             => Toward(n, r, d)

\* Announcing infinity to the next hop is enough where there is only one way from a
\* router to another: no route ever leads elsewhere or has another cost, whatever
\* is lost, late or out of date, and whoever crashes and starts again.
RoutesTakeTheOnlyWay ==
    Forest =>
        \A r \in Ports : \A id \in known[r] :
            LET e == table[r][id]
            IN  \/ e = NoRoute
                \/ e.cost = Far(r, id) /\ (r = id \/ Toward(r, e.next_hop, id))

\* On a line and on a triangle, two neighbors never go on sending what is for d to each other.
TwoLoopsDissolve ==
    \A x, y, d \in Ports :
        []<>~(table[x][d].next_hop = y /\ table[y][d].next_hop = x)
=============================================================================
