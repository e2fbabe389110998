# Verification of the poisoned-reverse router

The program (`src/router.c`) is one router of a distance-vector protocol with
poisoned reverse. Each router is a single-threaded process that talks to its
neighbors over UDP and does all its waiting in one io_uring. This directory
holds TLA+ modules that model it, TLC configurations that check them on small
instances and TLAPS proofs for all instances.

## Inventory

| component | source | state | operations |
|---|---|---|---|
| routing table | `router.c` 62-70, 380-496 | `all_routers[]` (cost, next_hop, initial_cost, down, known), `known_routers` | `init_neighbors`, `process_distance_pair`, `handle_received_data`, `purge_neighbor` |
| event loop | `router.c` 498-615 | position in `main`, `running` | one `case` per completion, `sig_handler` |
| requests in flight | `router.c` 219-361 | submission and completion queue, receive request, timers, `msginfo` | `send_to_neighbors`, `prep_recv_from_neighbors`, `arm_neighbor_timer`, `rearm_neighbor_timer`, `prep_neighbor_timers`, `prep_global_timer`, `uring_init` |
| ring queues | `liburing.h` (vendored) | head and tail counters, entries | `io_uring_get_sqe`, the `io_uring_prep_*` functions, `io_uring_submit`, `io_uring_wait_cqe`, `io_uring_cqe_seen` |
| contents of messages | `router.c` 219-265 | `msg_buf[MAX_ROUTERS]` | `send_to_neighbors` |
| network | several processes, UDP | datagrams under way | a tick, a datagram or a timeout at one router; loss, delay, crash and restart |
| list operations | `list_adders.c`, `list_movers.c`, `list_removers.c` | head, tail, cursor, size, `prev` and `next` of nodes | `ListCreate` ... `ListConcat`, `ListFree`, `ListSearch` |
| list allocator | `list_alloc.c` | two arenas, two index tables, their free lists | `newList`, `newNode`, `destroyList`, `destroyNode`, growing and shrinking |
| start-up and cleanup | `router.c` 93-192, 363-378, 459-553, 608-614 | `neighbor_info`, descriptors, address lists | `bind_to`, `network_init`, `init_neighbors`, `cleanup_network_fds` |
| printing | `router.c` 194-216 | none | `print_distance_table` |

How they interact: `main` takes one completion at a time from the ring and runs
its handler to the end; handlers change the routing table (walking
`known_routers` with the list library) and put new requests into the submission
queue, which `io_uring_submit` hands to the kernel. The kernel completes
requests, timers expire and SIGINT arrives between any two steps of `main`.
`msginfo` is shared by `main` and the one outstanding `recvmsg`, `msg_buf` by all
sends, `running` by `main` and the signal handler.

What is hard, and what would make it correct:

* **Timers against messages.** A neighbor's timer is armed, restarted by every
  message, and may fire while a message is queued. Every neighbor that is up must
  have exactly one timer on its way, every other none.
* **Receive requests.** There must always be exactly one: none makes the router
  deaf, two let the kernel overwrite a message before it is read.
* **Submission failures.** One result of `io_uring_submit` is not looked at.
* **SIGINT** at any instruction, with an ignored result of `io_uring_wait_cqe`.
* **The table** keeps one cost per destination, computed from vectors that are
  not kept. It must agree with what the next hops last said and must never lead
  through a dead neighbor.
* **Capacities**: ten list entries, a fixed submission queue, a completion queue
  that can be too small, 32-bit costs.
* **One message buffer** for the sends to all neighbors.
* **Across routers**: convergence, counting to infinity, loops, restarts.
* **The rings**: counters that wrap around, entries that keep the fields of the
  request before, a consumer and a producer that share memory.
* **Start-up**: six resources, each of which may be refused.
* **The list library**: every handle is an index into a table that moves when
  the arena grows or shrinks.

`PROJECT.json` lists each hazard at its line with the properties that cover it.

## Plan

1. *(done)* `DistanceVector`, `Router`, `RouterHistory`: the event loop of one
   router, and what its table must agree with.
2. *(done)* `RouteTable`, the abstract promise of the table, which the router is
   shown and proved to implement.
3. *(done)* `Network`: several routers that exchange vectors.
4. *(done)* `Broadcast`: the one message buffer. `Startup`: the ways in and out.
   `Process`: both in one process.
5. *(done)* `RingSpec`, two queues, and `Ring`, the counters and entries that
   implement them.
6. *(done)* `ListSpec`, `List`, `ListAlloc`, with memory that may be refused.
7. *(done)* Proofs about the router (`RouterProofs`, `RouterHistoryProofs`), the
   rings (`RingProofs`), the sends (`BroadcastProofs`), start-up (`StartupProofs`)
   and the allocator (`ListAllocProofs`).
8. *(done)* Proofs about the lists (`ListProofs`), which implement sequences, and
   about networks without cycles (`NetworkProofs`).
9. What could still be modelled: `List` on top of `ListAlloc`.

## Modules

| module | role |
|---|---|
| `DistanceVector` | operators: the table and what each function of `router.c` makes of it |
| `Router` | state machine: one process, its ring and its surroundings; all properties of one router |
| `RouteTable` | abstract state machine: a table that keeps announcements and no costs |
| `RouterHistory` | `Router` with a history variable `heard`, what each sender last announced; implements `RouteTable` |
| `Network` | state machine: several routers, their datagrams, loss, delay, crash and restart |
| `Broadcast` | state machine: `send_to_neighbors` write by write, and sends that are executed late |
| `CommandLine` | constants: what the user and the system give `main` to start with |
| `Startup` | state machine: `main` before and after its loop |
| `Process` | state machine: composes `Startup` and `Broadcast`, start-up, the sends of the loop and cleanup of one process |
| `RingSpec` | abstract state machine: two queues of requests and completions |
| `Ring` | state machine: counters and entries of `liburing.h`; implements `RingSpec` |
| `ListSpec` | abstract state machine: lists as sequences with a current position |
| `List` | state machine: the functions of `list.h` on linked nodes; implements `ListSpec` |
| `ListAlloc` | state machine: arenas, index tables and free lists of `list_alloc.c` |
| `MCRouter`, `MCRouterHistory`, `MCNetwork`, `MCProcess`, `MCList` | values of the constants for TLC |
| `RouterProofs` | theorems about `Router`: types, links, costs, the requests in flight |
| `RouterHistoryProofs` | theorems about `RouterHistory`; it implements `RouteTable` |
| `NetworkProofs` | theorems about `Network`: types in every network, routes in those without cycles |
| `ListProofs` | walks along links, what each call does to them; theorems about `List`; it implements `ListSpec` |
| `BroadcastProofs`, `StartupProofs` | theorems about `Broadcast` and `Startup` |
| `ListAllocProofs` | sizes, free lists and moves of the arenas; theorems about `ListAlloc` |
| `RingProofs` | arithmetic of the counters; theorems about `Ring`; it implements `RingSpec` |

### How `Router` corresponds to the code

| variable | code |
|---|---|
| `pc` | where `main` is: before `uring_init` (`init`), before the first send, at `while` (`loop`), at or inside `io_uring_wait_cqe` (`wait`, `blocked`), after it with a completion (`handle`) or with none (`null`), past the loop (`exit`), dead after following a null pointer (`crash`) |
| `running` | `running` |
| `table`, `known`, `down` | `cost` and `next_hop` of `all_routers`, `known_routers` as a set, the `down` flags |
| `sq`, `cq` | requests prepared and not submitted; completions not seen |
| `receiving`, `timer`, `ticking` | requests the kernel holds: `recvmsg`, the five-second timers, the multishot timer |
| `msginfo`, `inbox` | the receive buffer; the socket's queue |

Each `case` of the switch is one action (`MsgReceived`, `GlobalTimeout`,
`NeighborTimeout`, `RearmTimer`, `MsgSent`) that makes every change the handler
makes, up to `io_uring_cqe_seen`. `UringInit` and `FirstSend` are the start-up,
`CheckRunning`, `WaitCqe`, `WakeUp`, `BreakLoop` and `FollowNull` the loop around the
switch, `Sigint` the signal handler. `WaitFails` is `io_uring_wait_cqe` returning an
error for any other reason. `CompleteReceive`, `TimerExpires`, `TimerPosts`,
`GlobalTimerFires` and `Deliver` are the kernel, the clock and the network,
modelled from what the code relies on.

Abstractions:

* A handler is atomic. What could come between two of its instructions commutes
  with it: the kernel only appends completions, and SIGINT only clears `running`,
  which a handler reads nowhere. (A completion may fall between those of two sends
  of one handler; the sends' completions are only reported, so their place in the
  queue does not matter.)
* Time is not modelled. A timer may expire whenever it is armed, so every order
  of ticks, timeouts and messages is possible, including orders that need a very
  late message.
* The kernel's answer to a timer update follows the state of the timer: it runs
  (success), its callback is executing (`-EALREADY`), it has gone (`-ENOENT`).
* A submission takes all requests or none. A send completes at once (`Broadcast`
  is about those that do not).
* A completion that finds the queue of `CqEntries` full is kept by the kernel and
  delivered in order, so `cq` holds it all the same (`Ring` shows that); the one
  effect that is left is that a multishot timer ends there.
* A message names each port once, and every port is in the table's range. The
  order of its pairs only decides which new ports still find room; `Admitted`
  leaves that open.
* The neighbors of the configuration are distinct and not the router itself
  (`Startup` shows what else the program lets through).

`RouteTable` keeps, for every sender, what it last announced, and for every
destination a next hop, and no costs: a cost is worked out from the announcements
whenever two routes are compared. The program keeps the costs and no
announcements. `RouterHistory` maps `known_routers` and the `next_hop` fields to it.

### How `Network`, `Broadcast`, `Startup` and `Process` correspond to the code

`Network` uses the operators of `DistanceVector` for every router. Its actions
are whole handlers: `Tick` is `send_to_neighbors`, `Receive` is
`handle_received_data`, `NeighborTimeout` is `purge_neighbor`. How one process
gets to run them is the subject of `Router`. UDP keeps the order of two
datagrams between the same two sockets (they are on one host). A crash takes the
socket with it; datagrams already in other sockets stay. A neighbor times out
when it does not run and nothing it sent is left, or, `delays` times, although it
runs.

`Broadcast` follows the two loops of `send_to_neighbors` (lines 223-264): the ids
are written once, the costs once per neighbor, each followed by a submission. `meant`
is what the buffer should say, `last` what the kernel sent.

`Startup` has one action per step of `main` that may fail or that takes
something, and the set `held` of what was taken. `init_neighbors` works through
the command line pair by pair, and an early return leaves what was done.

`Process` joins the two: start-up fills the table and the list that the sends of the
loop read and the loop changes, and cleanup follows whenever `main` leaves the loop
between two completions. Its loop does steps for one command line only, that of
the constants of `Broadcast` (`Followed`); start-up and cleanup are followed for all.

### How `Ring` corresponds to the code

`sq` and `cq` are the structs of the same name; the counters are unsigned
integers of `Width` values. `io_uring_get_sqe`, the `prep` functions with
`io_uring_sqe_set_data64`, `io_uring_wait_cqe`, `io_uring_for_each_cqe` and
`io_uring_cqe_seen` are the functions of `liburing.h`. `io_uring_submit` is in the repository only
as the compiled library `liburing.a`, without source, and is modelled by what its
callers rely on, like the kernel (`Complete`, `Flush`). The entry a request is written to
is the real one, with the fields the router sets; fields that share memory are
one field. The mapping to `RingSpec` reads each queue from its head counter to
its tail counter, and what the kernel keeps back comes behind the second.

### How the list modules correspond to the code

`List` has one action per function of `list.h`. `node` and `list` are the structs
that an index or a handle leads to; index 0 is `NULL`; `call` and `value` are the
last call and what it returned (for `ListFree`, the items passed to `itemFree`, in
order); `crashed` is set when the code follows a null pointer, and nothing
happens afterwards. `newNode` and `newList` are any index not in use, as the
allocator promises. The refinement mapping reads a list from its head along the
`next` links and looks up where the cursor is. `ListSpec` describes each call on
that sequence, with one awkward corner, which is the code's: a list that was empty
when another was appended to it has items and no current one. Additions next to
the current item then fail, removal and search find nothing, and moving the
cursor is the only way to crash. After a search without a match it promises no more
than that the current position stays or goes to the end: the code does the one and
its description says the other (see below). The comparator of `ListSearch` is equality with
an item. Callers are assumed to pass lists that exist, and two different lists
to `ListConcat`.

`ListAlloc` keeps each arena as a record: the slots, the table, both free lists,
the counter. A pointer is a slot number, null or `Stale`; a realloc moves the
arena or does not, both are tried. `held` is not in the code: it is what callers
were given and did not return. The code is there twice, for lists and nodes, and
the operators once. `fault` is set when null or a stale pointer is followed; that
is undefined in C, so no step is modelled after it. `refused` says where
`calloc`, `malloc` or `realloc` returned null; the functions of the arenas notice
and return -1, and `newList` and `newNode` do not look at that.

## Runs

| run | instance | shows |
|---|---|---|
| `loop` | 1 neighbor, and a nearer router that is not on the command line; one cost overflows, and there are more ports than room; submissions, receives, timers and waits fail at will, and the tick may end | `TypeOK`; `TimerAccounting`; `ReceiveAccounting`; `SqeAvailable` (no full queue); `KnownBound`; `ShutdownCompletes`; `NeverDeaf`; `SilentNeighborPurged`; `DownNeighborRecovers`; `StrangerStopsRouter` |
| `routes` | 2 neighbors announcing cost 1, 3 or infinity for a common destination, no ticks; submissions fail at will | `CqeValid` (no missing completion, and none followed after SIGINT); `RoutesUseLiveLinks`; `RouteIsLastHeard`; `RouteConsistency`; `SwitchOnlyIfCheaper`; `ImplementsRouteTable` |
| `network` | 3 routers in a line, or in a triangle with one dear link; crash, loss or delay | `MessagesHonest`; `RoutesTakeTheOnlyWay`; `Converges`; `TwoLoopsDissolve`; `TypeOK` |
| `process` | every command line of up to 2 pairs over 3 good and one bad port and 3 costs, and those of 3 and 4 pairs with cost 1; the sends of a router with 2 neighbors and a router behind them, 2 of them late | `LockedIn`; `IdsIntact`; `RouterMayStart` (with `ListFits`); `OnlyKnownLeaks` |
| `rings` | 2 entries in each ring, 4 kinds of requests, counters modulo 4 | `HeldStable`; `CleanRequests`; `ImplementsRingSpec`; `BacklogDelivered`; `TypeOK` |
| `lists` | 2 lists, 4 nodes, 2 items | `WellLinked`; `ImplementsListSpec`; `LossesAreKnown`; `TypeOK` |
| `arenas` | at most 2 lists and 7 nodes at a time, memory refused once | `HandlesFind`; `FreeListsAccount`; `OnlyGrowthFaults`; `OnlyRefusalFaults`; `TypeOK` |
| `rearm_race` | 1 neighbor | violates `RearmRaceIgnored`, see below |
| `wait_fails` | 1 neighbor | violates `EveryWaitGetsCqe`, see below |
| `shutdown_hangs` | 1 silent neighbor, nine ticks | violates `CtrlCExits`, see below |
| `counting` | a triangle and a router on one of its corners that may die | violates `CostsAreOfPaths`, see below |
| `arena_regrowth` | at most 1 list and 7 nodes | violates `IndexLeadsToStruct`, see below |

In the runs of the router SIGINT is always possible, deadlock is checked, and the
program's end is the stuttering action `Exited`. In the runs of the list library
deadlock is not checked: a program that crashed does stop.

Bounds of the router's runs: `InboxBound` = 1 datagram waits in the socket
(another one is in `msginfo`, so two messages can be on their way), `TickBound` =
1 tick is waiting. A second tick would repeat a send, which changes no table, but
many of them fill the completion queue and end the timer. That is not left out:
in `loop` the completion queue is scaled down to `CqEntries` = 4, the least
`RingAssumption` admits, so that other completions fill it and one tick finds it full
(the state is reachable with `Faults` = {} too); in `shutdown_hangs` the queue has
the real eight entries and `TickBound` is 9. `shutdown_hangs` has no datagrams: a
neighbor that is silent from the start is all it needs. In `routes` `TickBound` is 0:
ticks do not touch the table, and without them two neighbors with three costs each
fit. Messages, timeouts and revivals are not bounded in number. `INT_MAX` is scaled
down to 3 or 7; in `loop` the link and the cost the neighbor announces have a sum that
overflows. There are three places for the four ports that can become known, one way or
another.

Two neighbors are the least with which a route can change hands, or a later send of
`send_to_neighbors` can fail after an earlier one. `routes` has both, with its timers,
receives and failing submissions, and checks what the table says. That the
requests in flight add up is checked with one neighbor and proved for every
number of them.

Bounds of `network`: `ChannelBound` = 1 datagram waits at each end of each link
(vectors are absolute, so a second one would only overrule the first), and each
network has its own bounds on crashes, losses and delays. The line has one of
each and one more loss. In the triangle a crash, a restart with old vectors about
and a loss meet a route that can go either way around. The third network is the
triangle with a late neighbor instead of a crash. Three routers are the least
with an indirect route, with a loop of two, and with a cycle of links. The line is
the network without cycles that `RoutesTakeTheOnlyWay` speaks of (`Forest` is true
of it and of no triangle). `Converges`, `MessagesHonest` and `TwoLoopsDissolve` are
checked for these networks and not promised for every one: `counting` has a fourth
router, which is the least with which costs go round a triangle without end.

Bounds of the others. `process`: two late sends are the least of which one can
overtake the other; `Changes` lets every entry but the router's own gain, lose and
change its route between two ticks; `MAX_ROUTERS` = 4 lets three neighbors fit and not
four; `AddressCount` = 2, so that the socket may take the second address. `rings`: each queue is full with two entries,
and a `Width` of 4 makes the counters go round several times within one fill and
drain. Four nodes let an inner node of a list be added and removed, two nodes follow
two others in `ListConcat`, and a list of three be freed beside another. Nodes,
handles and items are symmetric. `MCList` leaves `call` and `value` out of the
fingerprint of a state, because no function reads them. Seven nodes take the arena
of nodes from 3 slots to 6 and 12 and back, and let it grow a second time with a
table that is already large enough; two lists take the other arena from 1 to 2
and back. Memory is refused at most once, at any place.

Every property of a passing run has a variant of the code (the definitions named *Variant* next to
the real ones) under which its run reports it violated.

### Fairness

`Router`: `main` is scheduled, the kernel completes a receive when a datagram is
there, posts the completion of an expired timer and keeps the multishot timer
firing until it ends. That it does not end is not assumed: each liveness property of `loop`
says what it promises if it did (`TickEnded`). A receive or a wait may fail at any
time and never has to. The timers of `Watched` neighbors expire if they stay armed; in the
model a restarted timer stays armed, so this also lets the timer of a talking
neighbor expire some time. `SilentNeighborPurged` speaks of silent neighbors only
and is not affected. Datagrams and SIGINT are never assumed to come, and faults
never to stop.

`Network`: a router that runs goes on ticking, what waits in a socket is read,
and a neighbor that is silent for good times out; `Router` is where this comes
from. Nothing is assumed of crashes, losses and delays, and a router that crashed
need not be started again. Their number is bounded, which is what convergence
needs: it is promised to networks that are left alone long enough.

`Ring`: `main` goes on waiting for completions, reading and giving back, as its
loop does, and enters the kernel when the ring is empty, which is when the kernel
delivers what it kept back.

### The rearm race

`router.c:589` tolerates `-EALREADY` "because that just means the timer fired
before the cancel went through". `-EALREADY` is the answer only while the timer's
callback is executing. In the counterexample of `rearm_race` a datagram is
received, then its sender's timer fires and posts its completion behind the
datagram's. `handle_received_data` still finds the neighbor up and updates a
timer that is gone; the answer is `-ENOENT`, and the router exits.

### The tick that ends, and shutdown without it

The global timer is a multishot request: io_uring ends it when a completion of it
does not fit the completion queue, and says so in the flags of the last one. The
`GLOBAL_TIMEOUT` case (`router.c:571`) does not look at them, and designdoc.txt
100-101 says the timer "does not need to be rearmed". The queue has twice the
2 + 2 * `neighbor_count` entries, rounded up; for one neighbor it is full after
eight completions, sixteen seconds of ticks in which `main` is stopped in a `printf`
to a terminal that does not scroll. It then runs on and never sends its vector
again.

readme.md:25-26 says that Ctrl-C makes the program clean up and exit. If SIGINT
interrupts `io_uring_wait_cqe`, or comes before `running` is tested, it does. Between
line 554 and the moment `main` blocks at 555 it sets the flag and wakes nobody; the
next completion ends the loop, and the tick is what provides it. `ShutdownCompletes`
says so as long as there is a tick. In `shutdown_hangs` the tick ends first: the
neighbor is down and silent, no timer is left, and `main` waits for ever (until a
second Ctrl-C). `NeverDeaf`, `DownNeighborRecovers`, `SilentNeighborPurged` and
`StrangerStopsRouter` rest on the tick in the same way and say so: it is the tick
that submits again what an unnoticed failure at line 568 left in the queue.

### The wait that fails

Line 555 ignores what `io_uring_wait_cqe` returns; on an error `cqe` is null. For SIGINT
the test of `running` behind it is enough, whenever the signal comes: `CqeValid`,
proved for all instances. Any other failure leaves `running` set: `-EINTR` after the
process was stopped and continued (Ctrl-Z and `fg`) or a debugger was attached, or
another error of `io_uring_enter`. Line 557 then reads through the null pointer.
`WaitFails` models it for runs whose `Faults` have "wait"; `wait_fails` shows the way to
`FollowNull`, where the process dies (undefined in C).

### What the network and the sends do beyond the runs

* Costs that count up (`counting`). On the line and on the triangle poisoned reverse
  suffices. Hang a fourth router on a corner of the triangle and let it die: its
  neighbor takes a route from one of the other two that leads through itself, costs
  go round the triangle and rise without end. designdoc.txt 653-655 says that a router
  "may not update its routes as fast" and that the next vector corrects it; here the
  next vector raises the cost, beyond all links together (`CostsAreOfPaths`). Without
  cycles nothing of the kind can happen in a network of any size: that is proved
  (`NetworkProofs`).
* Overflow. Two link costs whose sum exceeds `INT_MAX` make a negative cost, which
  every router prefers; designdoc.txt 659-661 only speaks of a single link cost
  that does not fit.
  `loop` has such a sum, and the theorems that need honest costs say so.
* Late sends. `LockedIn` is about sends executed during their submission. One that
  waits for room in the socket is executed after the buffer was filled for the
  next neighbor, and carries that neighbor's vector, poisoned for the wrong router,
  although designdoc.txt 346-348 says the data is "locked in" by then. `IdsIntact` is
  what is left, and `process` has such sends: the ids are right, whenever it is sent,
  because the list only grows at its end.
* Start-up. `bind_to` keeps the address it could bind, and
  `cleanup_network_fds` frees from there: the addresses before it are lost.
  `OnlyKnownLeaks` says that nothing else is. `cleanup_network_fds` takes descriptor 0
  for no socket; the socket never has it, because `io_uring_queue_init` comes first
  and takes the lowest free one (`InitRing`).

### The list library

None of these are reached by the router, which creates one list, appends to it
and frees it at the end.

* `arena_regrowth`: the loop at `list_alloc.c:280` looks up every index up to the
  size of the arena, used or not. After the arena shrank, a free index still
  points into the memory that was given back, and the loop writes there.
  `OnlyGrowthFaults` shows that this is the only way the allocator goes wrong, in
  either arena, as long as memory can be had.
* `OnlyRefusalFaults` lists what a refusal adds: an arena that could not grow, so
  that the next struct is at null; and one that could not shrink, was filled and
  emptied again and shrank then, with a free list of slots nothing moved to.
* `ListFree` ("Delete list and free all nodes", `list_removers.c:70`) does not destroy
  the last but one of two or more nodes. `LossesAreKnown` says where nodes are lost:
  there, and in `ListAdd` and `ListInsert`, which do not give back the node they took
  when they fail; no other call loses one.
* Without a match `ListSearch` does not move the cursor; `list_movers.c:170-172` says
  "the current pointer is left at the end of the list". `ListSpec` admits both, so
  that `ImplementsListSpec` vouches for neither.
* `ListSpec` has the rest, since `List` implements it: `ListConcat` onto an empty list makes `ListNext` dereference a null pointer
  (`list_movers.c:105`).

## Proofs

The theorems hold for all values of the constants that the named assumptions of
the modules admit: every set of ports, neighbor list, set of messages and bound
(`PortsAssumption`, `LimitsAssumption`, `ConfigAssumption`, `DatagramsAssumption`,
`RingAssumption`), every number of addresses and every set of command lines
(`StartupAssumption`), every list of neighbors and number of late sends
(`BroadcastAssumption`), every size of the rings that divides the range of their
counters (`RingSizes`; in the code both are powers of two), all smallest sizes of
the arenas but 0, any number of structs in use and memory refused at any of the
three places (`SmallestSizes`, `RefusedPlaces`), every finite set of nodes and every set of
handles and items (`FiniteNodes`, `NullIsNothing`), every set of networks with
positive 32-bit links that are the same in both directions, any number of crashes,
losses and late datagrams, and sockets of any capacity (`NetworkAssumption`).

### Types, links and costs (`RouterProofs`, `RouterHistoryProofs`)

* `TypeCorrect`. `TypeOK` is not inductive: a handler that reads `msginfo` or the
  port of a completion needs to know that they are a datagram and a sender's.
  `TypeInv` adds that to the type of the completion queue.
* `LiveLinks` (`RoutesUseLiveLinks`). `LiveInv` adds that ports off the list have
  no next hop, because `purge_neighbor` only visits the list.
* `KnownBounded` (`KnownBound`) follows from the test against `MAX_ROUTERS` and
  the cardinality of unions; the base case is `MAX_NEIGHBORS` = `MAX_ROUTERS` - 1.
* `CqeAlwaysValid` (`CqeValid`): `main` handles only completions that are there, and
  goes on with `running` set and a null `cqe` only if "wait" is among the `Faults`. It
  is inductive; `Sigint` is why, because it clears `running` in the step that leaves the
  wait. What happens with "wait" is the run `wait_fails`.
* `ConsistentRoutes`, `SwitchesOnlyIfCheaper` and `RoutesAreLastHeard` assume
  `HonestCosts`: positive links, announced costs that are infinite or can be
  added to the link within 32 bits, 0 for the sender itself. The code checks none
  of this, and with costs that wrap around they fail. The invariant
  `ConsistentInv` adds that the router knows itself; `HeardInv` joins it with
  `LiveInv`. `MessagesHonest` is the assumption seen from where the datagrams come
  from: the run `network` checks it, and it is proved for networks without cycles.
* `ImplementsTable` (`ImplementsRouteTable`): the refinement. `StoredCost` reads
  `RouteIsLastHeard` as "the stored cost is what `RouteTable` works out", `PairsChoose`
  shows for one message that the branches of `process_distance_pair` choose the next
  hop `RouteTable` chooses, and `ImplementStep` that every other step is `Lose` or a
  stutter. It needs `HeardInv`: with a stale cost the comparison would go wrong.

`RoutingSteps` reduces each of the route invariants to the two handlers that
change the table, and `ReceiveOk` and `TimeoutEffect` say what those do.

### Requests in flight (`RouterProofs`)

`TimersAccounted`, `ReceiveAccounted` and `SqeAlwaysAvailable` are proved from one
invariant, `AccountingInv`, on top of `TypeInv`. None of the three is inductive
alone: whether a handler finds room in the submission queue depends on how much
was left there, and what is left there depends on where `main` is. `AccountingInv`
therefore says, for each kind of request and each sender, that what is prepared,
held by the kernel and completed adds up to what there should be, and
bounds what the last submission can have left behind. It holds for any datagrams,
honest or not, and whatever system calls fail. The proofs rest on lemmas that
count the elements of a sequence with a given type and port (`CountConcat`,
`CountAppend`, ...).

### The rings (`RingProofs`)

The counters are read modulo `Width` and the entries modulo the size of the ring,
and a queue is the window of entries from the head counter on. The lemmas up to
`SlotsApart` are the arithmetic: why the difference of two counters that have
wrapped around is still the number of entries between them, and why two counters
less than a ring apart do not share an entry; this is where it is needed that the
size divides `Width`. `Push` and `Pop` then say what a write behind the tail or a
step of the head does to the window. `RingInv` adds to `TypeOK` that no ring holds more
than it has room for and that only requests of the router are queued; `HeldStable`
and `CleanRequests` (`FilledClean`: the fields the router sets overrule whatever
the entry held) are part of it. `ImplementsQueues` is the refinement: initial
states and steps map to those of `RingSpec`, an empty submission and a flush of
nothing to stuttering.

### Sends and start-up (`BroadcastProofs`, `StartupProofs`)

* `AlwaysLockedIn` and `IdsAlwaysIntact`. `SentInv` says what the buffer holds at
  each point of the two loops, and that every late send still names the first
  routers of a list that has only grown since.
* `RouterAlwaysMayStart`, `ListAlwaysFits`, `OnlyKnownLeaksEver`. `StartInv` says
  for each point of `main` how many pairs of the command line have been entered
  (`EnteredUpTo`) and what may be held (`Holding`); nothing is assumed of the
  command line but, in `RouterMayStart`, that it is `Sensible`.
  The theorems are about `Startup` by itself; in `process` the same formulas are checked
  of a process whose loop runs (`Process` defines them as `Main!RouterMayStart` and
  `Main!OnlyKnownLeaks`). `AlwaysLockedIn` and `IdsAlwaysIntact` are about `Broadcast` by
  itself.

### The allocator (`ListAllocProofs`)

All five properties of the run `arenas` are proved: `TypeCorrect`,
`HandlesAlwaysFind`, `FreeListsAlwaysAccount`, `GrowthFaultsOnly`,
`RefusalFaultsOnly`. The invariant, `AllocInv`, says of each arena that is allocated
(`ArenaInv`):

* its size is the smallest size doubled some times, and its table's size is the
  arena's doubled some times (`Doublings`). Without it `nodeMemDecrease` could meet an odd
  size, and the table that `nodeMemIncrease` does not enlarge could be too small for
  the arena it enlarges;
* indices in use and slots in use lead to each other (`Located`), and the list of
  free indices holds the others, each once (`Lists`);
* the list of free slots begins with exactly those, each once, and a pointer to
  released memory comes next if anything does (`Begins`). `FreeListsAccount` alone is
  not inductive: of what follows the free slots it says nothing;
* behind the free indices that the arena has room for, the table points nowhere
  (`Nowhere`). So when an arena is full and growing it does not fault, the indices in
  use are exactly the low ones (`FullArena`), and `nodeMemIncrease` tells every struct
  the index it had already;
* until a reduction is refused, more than half of it is in use and every slot was
  written (`Tight`).

`TakenInv`, `ReturnedInv`, `DoubledInv` and `HalvedInv` show that each operation keeps
`ArenaInv`. For `HalvedInv`, `RankOrder` and `RankOnto` show that the structs in use are
numbered from 1 without a gap, so that the copying loop moves each to a slot of its
own. The two action properties follow from `NextLeaves`: the invariant leaves no
other way for `newNode` or `destroyNode` to meet null or a stale pointer. That the
first of them is met is what the run `arena_regrowth` shows.

### The lists (`ListProofs`)

All four properties of the run `lists` are proved: `TypeCorrect`,
`AlwaysWellLinked`, `OnlyKnownLosses`, and the refinement, `ImplementsSequences`. The
invariant, `ListInv`, says that every live list *is* the sequence of its nodes
(`IsList`): a walk along `next` from the head to null that meets no node twice, with
the `prev` links, the tail, the size and the cursor agreeing with it; and that two
lists share no node. `WellLinked` alone is not inductive: it does not say that the
walk ends, and a list of all nodes whose last one leads back to the first satisfies
it. The proof goes in four layers:

* *Walks.* `Chain` is a recursive function. `OneSolution` shows that it is the only
  one that takes its steps (two that differ would differ first somewhere), and
  `ChainIsWalk` that a walk is what it computes. From then on `Chain` is not
  unfolded.
* *Links.* `Inserted`, `Removed` and `Concatenated` say which fields a call writes, and
  their lemmas that a walk with a node more, a node less, or followed by another
  walk comes of it. Every function of `list_adders.c` and `list_removers.c`
  is shown to write those fields in each of its branches (first, last, only, inner
  node); those of `list_movers.c` write the cursor only.
* *Frames.* `Outcome` sums up what any call does: it turns some lists into one list of
  known nodes or into nothing, leaves all others alone, and loses known nodes.
  `OutcomeKeepsInv` gets `ListInv` and `LossIsKnown` from that, once for all calls.
* *Promises.* One lemma per function (`AddImplements`, `RemoveImplements`, ...) compares
  what it returns and where the cursor is with `ListSpec`; `StepImplements` joins them.

### Networks without cycles (`NetworkProofs`)

`TypeCorrect` holds in every network; `TypeInv` adds to `TypeOK` that datagrams hold
32-bit costs, since tables are filled from them.

The other theorems are about networks in which there is one way at most between two
routers (`Forest`), however many routers, crashes, restarts, late and lost datagrams:
`OnlyWays` (`RoutesTakeTheOnlyWay`), `HonestWithoutCycles` (`MessagesHonest`) and
`NeverLoops` (`TwoLoopsDissolve`, in the stronger form that every next hop is closer to
the destination, `HopsAreCloser`: there is never a loop, of two routers or of more, to
dissolve, and no fairness is needed for it). `RoutesTakeTheOnlyWay` is not
inductive: a router believes what datagrams say, and they may have been sent long
ago by a router that crashed since. `ForestInv` adds that whatever is under way from `n`
to `r` announces nothing but `n` itself, destinations to which `n` is on the way from
`r`, at their true cost, and infinities. `RightVector` is where poisoned reverse
matters: `n` tells a cost only to those who are not its next hop, and without cycles
these are all behind it. `RightPair` shows that each branch of
`process_distance_pair` makes a right entry of it. `Unlisted` adds that ports off the
list have no next hop.

`Forest` says in terms of `Distance` what it is to have no cycles, and that distances fit
32 bits. `Distance` is a recursive function that the proofs never unfold, so they do
not show which graphs satisfy `Forest`; TLC evaluates it in the run `network`, whose
line does.

### Only model-checked

* Everything under fairness, which is out of the prover's reach: the properties of
  the run `loop`, `Converges`, `BacklogDelivered`, and `TwoLoopsDissolve` in networks
  with cycles.
* `MessagesHonest` in networks with cycles. It holds on the triangles of the run and
  not on every network (`counting`), so there is no general theorem to prove.
* What the runs that expect a violation show.

## Not modelled

* Printing and the build.
* An id outside 30000..40000 in a message (`router.c:450`): it is reported and then
  used as an index all the same. The models have only ports of the table.
* What a second timer for the same neighbor does, when a neighbor is listed
  twice: `Startup` shows that the program lets it through, `Router` assumes it away.
* Node pointers: `List` has no addresses and `ListAlloc` no links, so that a function of
  the list library could keep a pointer across a call that moves the arena and no
  property would tell. None does; that was checked by reading only.
* What the router does not use of `liburing.h`: other requests, polling by the
  kernel, large entries, buffer rings.
