------------------------------ MODULE Startup ------------------------------
(***************************************************************************)
(* main before and after its loop: the command line, the resources taken   *)
(* one after the other, any of which may be refused, and what the ways out *)
(* give back.  The loop itself is module Router; Process puts the sends of *)
(* the loop in between.                                                    *)
(***************************************************************************)
EXTENDS CommandLine, SequencesExt

MAX_NEIGHBORS == MAX_ROUTERS - 1

VARIABLES
    pc,             \* where main is
    argv,           \* the command line
    i,              \* the neighbor a loop is at
    routers,        \* known_routers, in order
    table,          \* all_routers: cost and next_hop
    neighbor_info,  \* the ids in neighbor_info
    addrinfo,       \* self.addrinfo: which address of the router, 0 for NULL
    fd,             \* self.fd
    free_fd,        \* the lowest descriptor not in use: less than 3 if the program
                    \* was started with a standard stream closed
    held            \* resources taken and not given back

vars == <<pc, argv, i, routers, table, neighbor_info, addrinfo, fd, free_fd, held>>

neighbor_count == Len(argv.pairs)

\* Resources: the list, the ring, the socket, and the address structs.
OwnAddress(k) == [of |-> "self", nr |-> k]
NeighborAddress(k) == [of |-> "neighbor", nr |-> k]
List == [of |-> "list", nr |-> 0]
Ring == [of |-> "ring", nr |-> 0]
Socket == [of |-> "socket", nr |-> 0]

Init ==
    /\ pc = "arguments"
    /\ argv \in CommandLines
    /\ i = 1
    /\ routers = <<>>
    /\ table = [id \in Ports |-> BlankEntry]
    /\ neighbor_info = <<>>
    /\ addrinfo = 0
    /\ fd = 0
    /\ free_fd \in 0..3
    /\ held = {}

-----------------------------------------------------------------------------
\* argc is even, and there are 1..MAX_NEIGHBORS neighbors; then ListCreate.
CheckArguments ==
    /\ pc = "arguments"
    /\ IF argv.complete /\ neighbor_count \in 1..MAX_NEIGHBORS
       THEN pc' = "self" /\ held' = held \cup {List}
       ELSE pc' = "exit" /\ UNCHANGED held
    /\ UNCHANGED <<argv, i, routers, table, neighbor_info, addrinfo, fd, free_fd>>

\* Variant: the list is forgotten.
ReturnEarly_leak ==
    /\ pc' = "exit"
    /\ UNCHANGED held

\* return -1 before there is anything but the list.
ReturnEarly ==
    /\ pc' = "exit"
    /\ held' = held \ {List}

\* init_neighbors: the router itself.
InitSelf ==
    /\ pc = "self"
    /\ IF argv.self \in Ports
       THEN /\ table' = [table EXCEPT ![argv.self] = [cost |-> 0, next_hop |-> NoPort]]
            /\ routers' = Append(routers, argv.self)
            /\ pc' = "neighbors"
            /\ UNCHANGED held
       ELSE /\ ReturnEarly
            /\ UNCHANGED <<table, routers>>
    /\ UNCHANGED <<argv, i, neighbor_info, addrinfo, fd, free_fd>>

\* Variant: the next hop is left for the first message to fill in.
NeighborEntry_unrouted(pair) == [cost |-> pair.cost, next_hop |-> NoPort]

NeighborEntry(pair) == [cost |-> pair.cost, next_hop |-> pair.port]

\* Go round a loop over the neighbors, or on to the next part.
NextNeighbor(next) ==
    IF i < neighbor_count
    THEN i' = i + 1 /\ UNCHANGED pc
    ELSE i' = 1 /\ pc' = next

\* init_neighbors: neighbor i.  It may have been listed before, and it may be the
\* router itself: its entry is overwritten.
InitNeighbor ==
    /\ pc = "neighbors"
    /\ LET pair == argv.pairs[i] IN
       IF pair.port \in Ports
       THEN table' = [table EXCEPT ![pair.port] =
                        IF pair.cost = 0 THEN [@ EXCEPT !.cost = 0] ELSE NeighborEntry(pair)]
       ELSE UNCHANGED table
    /\ LET pair == argv.pairs[i] IN
       IF pair.port \in Ports /\ pair.cost # 0
       THEN /\ neighbor_info' = Append(neighbor_info, pair.port)
            /\ routers' = Append(routers, pair.port)
            /\ NextNeighbor("ring")
            /\ UNCHANGED held
       ELSE /\ ReturnEarly
            /\ UNCHANGED <<i, routers, neighbor_info>>
    /\ UNCHANGED <<argv, addrinfo, fd, free_fd>>

\* io_uring_queue_init: the ring takes the lowest descriptor.
InitRing ==
    /\ pc = "ring"
    /\ \/ /\ pc' = "bind"
          /\ held' = held \cup {Ring}
          /\ free_fd' \in (free_fd + 1)..4
       \/ ReturnEarly /\ UNCHANGED free_fd
    /\ UNCHANGED <<argv, i, routers, table, neighbor_info, addrinfo, fd>>

\* bind_to: the first address that can be bound is kept, and its socket gets the
\* lowest descriptor.  There may be none, or no address at all.
Bind ==
    /\ pc = "bind"
    /\ \/ \E k \in 1..AddressCount :
             /\ addrinfo' = k
             /\ fd' = free_fd
             /\ held' = held \cup {OwnAddress(n) : n \in 1..AddressCount} \cup {Socket}
             /\ pc' = "addresses"
       \/ /\ fd' = -1
          /\ pc' = "cleanup"
          /\ UNCHANGED <<addrinfo, held>>
    /\ UNCHANGED <<argv, i, routers, table, neighbor_info, free_fd>>

\* get_neighbor_netinfo for neighbor i.
LookUpNeighbor ==
    /\ pc = "addresses"
    /\ \/ held' = held \cup {NeighborAddress(i)} /\ NextNeighbor("signals")
       \/ pc' = "cleanup" /\ UNCHANGED <<i, held>>
    /\ UNCHANGED <<argv, routers, table, neighbor_info, addrinfo, fd, free_fd>>

\* init_sig_handler, then uring_init; either may fail.
InitSignals ==
    /\ pc = "signals"
    /\ pc' \in {"requests", "cleanup"}
    /\ UNCHANGED <<argv, i, routers, table, neighbor_info, addrinfo, fd, free_fd, held>>

InitRequests ==
    /\ pc = "requests"
    /\ pc' \in {"loop", "cleanup"}
    /\ UNCHANGED <<argv, i, routers, table, neighbor_info, addrinfo, fd, free_fd, held>>

\* The loop, which ends in cleanup.
Loop ==
    /\ pc = "loop"
    /\ pc' = "cleanup"
    /\ UNCHANGED <<argv, i, routers, table, neighbor_info, addrinfo, fd, free_fd, held>>

\* cleanup_network_fds: freeaddrinfo gives back a struct and those behind it, and
\* does nothing with NULL.
NetworkFds ==
    {NeighborAddress(k) : k \in 1..neighbor_count}
        \cup (IF addrinfo = 0 THEN {} ELSE {OwnAddress(k) : k \in addrinfo..AddressCount})
        \cup (IF fd > 0 THEN {Socket} ELSE {})

Cleanup ==
    /\ pc = "cleanup"
    /\ held' = held \ (NetworkFds \cup {Ring, List})
    /\ pc' = "exit"
    /\ UNCHANGED <<argv, i, routers, table, neighbor_info, addrinfo, fd, free_fd>>

Exited == pc = "exit" /\ UNCHANGED vars

Next ==
    \/ CheckArguments \/ InitSelf \/ InitNeighbor \/ InitRing
    \/ Bind \/ LookUpNeighbor \/ InitSignals \/ InitRequests
    \/ Loop \/ Cleanup \/ Exited

Spec == Init /\ [][Next]_vars

-----------------------------------------------------------------------------
(* Properties                                                              *)

\* A neighbor is listed once and is not the router itself.
Sensible ==
    /\ \A k \in DOMAIN argv.pairs : argv.pairs[k].port # argv.self
    /\ \A k, n \in DOMAIN argv.pairs : argv.pairs[k].port = argv.pairs[n].port => k = n

\* However sensible the command line, what is on known_routers fits the message
\* buffer.
ListFits == Len(routers) <= MAX_ROUTERS

\* Before the last step to the loop, what is in the table and on the lists is what a
\* sensible command line says.
AsConfigured ==
    pc = "requests" /\ Sensible =>
        LET neighbors == ToSet(neighbor_info)
            PairOf(n) == CHOOSE p \in ToSet(argv.pairs) : p.port = n
        IN  /\ Len(neighbor_info) \in 1..MAX_NEIGHBORS /\ Len(neighbor_info) = neighbor_count
            /\ \A n \in neighbors : PairOf(n).cost # 0
            /\ table = init_table(argv.self, neighbors, [n \in neighbors |-> PairOf(n).cost])
            /\ ToSet(routers) = {argv.self} \cup neighbors

\* What Router assumes of its constants and its initial state holds when main
\* gets to its loop: init_neighbors has refused everything that would break it, but
\* for command lines that make no sense, and these do no worse to the list.
RouterMayStart == ListFits /\ AsConfigured

\* "cleanup_network_fds is just a helper function that frees all network info
\* allocated for each neighbor as well as the router's addrinfo, along with its fd"
\* (designdoc.txt).  Whatever fails on the way, everything that was taken is given
\* back at the end, but for the addresses bind_to passed over.  That the socket is
\* closed although cleanup takes descriptor 0 for none rests on the ring coming first.
OnlyKnownLeaks ==
    pc = "exit" => held \subseteq {OwnAddress(k) : k \in 1..(addrinfo - 1)}
=============================================================================
