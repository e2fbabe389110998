--------------------------- MODULE StartupProofs ---------------------------
(***************************************************************************)
(* main before and after its loop, for every set of command lines, every   *)
(* number of addresses and every resource that may be refused.             *)
(***************************************************************************)
EXTENDS Startup, SequenceTheorems, TLAPS

-----------------------------------------------------------------------------
(* The inductive invariant: what the first m neighbors of the command line   *)
(* have become, and what has been taken, at each place of main.              *)

Pairs == [port : Ports \cup {BadPort}, cost : Costs]

TypeInv ==
    /\ pc \in {"arguments", "self", "neighbors", "ring", "bind", "addresses", "signals",
               "requests", "loop", "cleanup", "exit"}
    /\ argv \in CommandLines
    /\ routers \in Seq(Ports) /\ neighbor_info \in Seq(Ports)
    /\ table \in [Ports -> Entry]
    /\ free_fd \in 0..4

Port(k) == argv.pairs[k].port

FirstPorts(m) == {Port(k) : k \in 1..m}

\* init_neighbors has entered the router itself and the first m neighbors.
EnteredUpTo(m) ==
    /\ argv.self \in Ports
    /\ Len(neighbor_info) = m /\ Len(routers) = m + 1
    /\ \A k \in 1..m : /\ neighbor_info[k] = Port(k) /\ Port(k) \in Ports
                       /\ argv.pairs[k].cost # 0
    /\ ToSet(neighbor_info) = FirstPorts(m)
    /\ ToSet(routers) = {argv.self} \cup FirstPorts(m)
    /\ Sensible =>
          /\ table[argv.self] = [cost |-> 0, next_hop |-> NoPort]
          /\ \A k \in 1..m : table[Port(k)] = NeighborEntry(argv.pairs[k])
          /\ \A id \in Ports \ ({argv.self} \cup FirstPorts(m)) : table[id] = BlankEntry

Entering ==
    /\ pc \in {"arguments", "self"} =>
          /\ routers = <<>> /\ neighbor_info = <<>> /\ i = 1
          /\ table = [id \in Ports |-> BlankEntry]
    /\ pc \in {"self", "neighbors", "ring", "bind", "addresses", "signals", "requests", "loop"} =>
          neighbor_count \in 1..MAX_NEIGHBORS
    /\ pc = "neighbors" => i \in 1..neighbor_count /\ EnteredUpTo(i - 1)
    /\ pc \in {"ring", "bind", "addresses", "signals", "requests", "loop"} =>
          EnteredUpTo(neighbor_count)

\* All that may be held once the socket is bound.
BoundHeld ==
    {List, Ring, Socket} \cup {OwnAddress(k) : k \in 1..AddressCount}
        \cup {NeighborAddress(k) : k \in 1..neighbor_count}

Holding ==
    /\ pc \in {"arguments", "self", "neighbors", "ring", "bind"} => addrinfo = 0 /\ fd = 0
    /\ pc = "arguments" => held = {}
    /\ pc \in {"self", "neighbors", "ring"} => held = {List}
    /\ pc = "bind" => held = {List, Ring} /\ i = 1 /\ free_fd # 0
    /\ pc = "ring" => i = 1
    /\ pc = "addresses" => i \in 1..neighbor_count
    /\ pc \in {"addresses", "signals", "requests", "loop"} =>
          addrinfo \in 1..AddressCount /\ fd \in 1..4 /\ held \subseteq BoundHeld
    /\ pc = "cleanup" =>
          \/ addrinfo \in 1..AddressCount /\ fd \in 1..4 /\ held \subseteq BoundHeld
          \/ addrinfo = 0 /\ fd = -1 /\ held \subseteq {List, Ring}

StartInv == TypeInv /\ Entering /\ Holding /\ ListFits /\ OnlyKnownLeaks

-----------------------------------------------------------------------------
\* The command line.
LEMMA ArgvType ==
    ASSUME TypeInv
    PROVE  /\ argv.self \in Ports \cup {BadPort} /\ argv.pairs \in Seq(Pairs)
           /\ neighbor_count \in Nat
           /\ \A k \in 1..neighbor_count : /\ argv.pairs[k] \in Pairs
                                           /\ argv.pairs[k].cost \in Costs
<1>1. argv.self \in Ports \cup {BadPort} /\ argv.pairs \in Seq(Pairs)
  BY StartupAssumption DEF TypeInv, Pairs
<1>2. \A k \in 1..neighbor_count : argv.pairs[k] \in Pairs
  BY <1>1 DEF neighbor_count
<1> QED
  BY <1>1, <1>2 DEF neighbor_count, Pairs

LEMMA StartInit == Init => StartInv
<1> SUFFICES ASSUME Init PROVE StartInv
  OBVIOUS
<1>1. BlankEntry \in Entry
  BY LimitsAssumption DEF BlankEntry, Entry, Costs
<1>2. TypeInv
  BY <1>1 DEF Init, TypeInv
<1>3. ListFits /\ OnlyKnownLeaks
  BY LimitsAssumption DEF Init, ListFits, OnlyKnownLeaks
<1> QED
  BY <1>2, <1>3 DEF Init, StartInv, Entering, Holding

\* What the command line means does not change.
LEMMA ArgvSame ==
    ASSUME UNCHANGED argv
    PROVE  /\ neighbor_count' = neighbor_count
           /\ \A k : Port(k)' = Port(k)
           /\ \A m : FirstPorts(m)' = FirstPorts(m)
           /\ Sensible' <=> Sensible
           /\ BoundHeld' = BoundHeld
  BY DEF neighbor_count, Port, FirstPorts, Sensible, BoundHeld

LEMMA ArgumentsStep == ASSUME StartInv, CheckArguments PROVE StartInv'
<1>1. /\ TypeInv /\ Entering /\ Holding /\ pc = "arguments" /\ pc' \in {"self", "exit"}
      /\ UNCHANGED <<argv, i, routers, table, neighbor_info, addrinfo, fd, free_fd>>
      /\ held = {} /\ addrinfo = 0 /\ fd = 0
  BY DEF StartInv, CheckArguments, Holding
<1>2. pc' = "self" => neighbor_count \in 1..MAX_NEIGHBORS /\ held' = {List}
  BY <1>1 DEF CheckArguments
<1>3. pc' = "exit" => held' = {}
  BY <1>1 DEF CheckArguments
<1>4. TypeInv'
  BY <1>1 DEF TypeInv
<1>5. Entering'
  BY <1>1, <1>2, ArgvSame DEF Entering
<1>6. Holding' /\ OnlyKnownLeaks'
  BY <1>1, <1>2, <1>3 DEF Holding, OnlyKnownLeaks
<1> QED
  BY <1>1, <1>4, <1>5, <1>6 DEF StartInv, ListFits

LEMMA SelfStep == ASSUME StartInv, InitSelf PROVE StartInv'
<1>1. /\ TypeInv /\ Entering /\ Holding /\ pc = "self" /\ held = {List}
      /\ UNCHANGED <<argv, i, neighbor_info, addrinfo, fd, free_fd>> /\ addrinfo = 0 /\ fd = 0
      /\ routers = <<>> /\ neighbor_info = <<>> /\ i = 1
      /\ table = [id \in Ports |-> BlankEntry]
      /\ neighbor_count \in 1..MAX_NEIGHBORS
  BY DEF StartInv, InitSelf, Holding, Entering
<1>2. CASE argv.self \notin Ports
  <2>1. pc' = "exit" /\ held' = {} /\ UNCHANGED <<routers, table>>
    BY <1>1, <1>2 DEF InitSelf, ReturnEarly
  <2> QED
    BY <1>1, <2>1 DEF StartInv, TypeInv, Entering, Holding, ListFits, OnlyKnownLeaks
<1>3. CASE argv.self \in Ports
  <2>1. /\ pc' = "neighbors" /\ held' = held /\ routers' = Append(routers, argv.self)
        /\ table' = [table EXCEPT ![argv.self] = [cost |-> 0, next_hop |-> NoPort]]
    BY <1>3 DEF InitSelf
  <2>2. routers' = <<argv.self>>
    BY <1>1, <2>1
  <2>3. /\ table' \in [Ports -> Entry]
        /\ table'[argv.self] = [cost |-> 0, next_hop |-> NoPort]
        /\ \A id \in Ports \ {argv.self} : table'[id] = BlankEntry
    BY <1>1, <1>3, <2>1, LimitsAssumption DEF TypeInv, Entry, Costs
  <2>4. TypeInv'
    BY <1>1, <1>3, <2>1, <2>2, <2>3 DEF TypeInv
  <2>5. EnteredUpTo(0)'
    <3>1. 1..0 = {}
      OBVIOUS
    <3>2. FirstPorts(0)' = {}
      BY <3>1 DEF FirstPorts
    <3>3. Len(routers') = 0 + 1 /\ Len(neighbor_info') = 0
      BY <1>1, <2>2
    <3>4. ToSet(routers') = {argv.self} /\ ToSet(neighbor_info') = {}
      BY <1>1, <2>2 DEF ToSet
    <3>5. argv' = argv /\ {argv.self} \cup {} = {argv.self}
      BY <1>1
    <3> QED
      BY <1>3, <2>3, <3>1, <3>2, <3>3, <3>4, <3>5 DEF EnteredUpTo
  <2>6. Entering'
    <3>1. i' - 1 = 0 /\ i' \in 1..neighbor_count
      BY <1>1
    <3> QED
      BY <1>1, <2>1, <2>5, <3>1, ArgvSame DEF Entering
  <2>7. Holding' /\ OnlyKnownLeaks' /\ ListFits'
    BY <1>1, <2>1, <2>2, LimitsAssumption DEF Holding, OnlyKnownLeaks, ListFits
  <2> QED
    BY <2>4, <2>6, <2>7 DEF StartInv
<1> QED
  BY <1>2, <1>3

LEMMA NeighborStep == ASSUME StartInv, InitNeighbor PROVE StartInv'
<1>1. /\ TypeInv /\ Entering /\ Holding /\ ListFits /\ pc = "neighbors" /\ held = {List}
      /\ UNCHANGED <<argv, addrinfo, fd, free_fd>> /\ addrinfo = 0 /\ fd = 0
      /\ i \in 1..neighbor_count /\ EnteredUpTo(i - 1)
      /\ neighbor_count \in 1..MAX_NEIGHBORS
  BY DEF StartInv, InitNeighbor, Holding, Entering
<1> DEFINE pair == argv.pairs[i]
<1>2. pair \in Pairs
  BY <1>1, ArgvType
<1>3. table' \in [Ports -> Entry]
  <2> DEFINE p == pair.port
             c == pair.cost
  <2>1. c \in Costs /\ 0 \in Costs /\ table \in [Ports -> Entry]
    BY <1>1, <1>2, LimitsAssumption DEF Pairs, Costs, TypeInv
  <2>2. p \in Ports => [cost |-> c, next_hop |-> p] \in Entry
    BY <2>1 DEF Entry
  <2>3. p \in Ports => [table[p] EXCEPT !.cost = 0] \in Entry
    BY <2>1 DEF Entry
  <2>4. table' = IF p \in Ports
                 THEN [table EXCEPT ![p] = IF c = 0 THEN [table[p] EXCEPT !.cost = 0]
                                                    ELSE [cost |-> c, next_hop |-> p]]
                 ELSE table
    BY <2>1 DEF InitNeighbor, NeighborEntry
  <2> HIDE DEF p, c
  <2> QED
    BY <2>1, <2>2, <2>3, <2>4
<1>4. CASE ~(pair.port \in Ports /\ pair.cost # 0)
  <2>1. pc' = "exit" /\ held' = {} /\ UNCHANGED <<i, routers, neighbor_info>>
    BY <1>1, <1>4 DEF InitNeighbor, ReturnEarly
  <2> QED
    BY <1>1, <1>3, <2>1 DEF StartInv, TypeInv, Entering, Holding, ListFits, OnlyKnownLeaks
<1>5. CASE pair.port \in Ports /\ pair.cost # 0
  <2>1. /\ neighbor_info' = Append(neighbor_info, pair.port)
        /\ routers' = Append(routers, pair.port)
        /\ table' = [table EXCEPT ![pair.port] = NeighborEntry(pair)]
        /\ held' = held /\ NextNeighbor("ring")
    BY <1>5 DEF InitNeighbor
  <2>2. PICK m \in Nat : i = m + 1
    <3>1. i - 1 \in Nat /\ i = (i - 1) + 1
      BY <1>1
    <3> QED
      BY <3>1
  <2>3. m = i - 1 /\ EnteredUpTo(m) /\ m + 1 \in 1..neighbor_count /\ pair.port = Port(m + 1)
    BY <1>1, <2>2 DEF Port
  <2>4. TypeInv'
    <3>1. routers' \in Seq(Ports) /\ neighbor_info' \in Seq(Ports)
      BY <1>1, <1>5, <2>1 DEF TypeInv
    <3>2. pc' \in {"neighbors", "ring"}
      BY <1>1, <2>1 DEF NextNeighbor
    <3> QED
      BY <1>1, <1>3, <3>1, <3>2 DEF TypeInv
  <2>5. EnteredUpTo(m + 1)'
    <3>1. /\ routers \in Seq(Ports) /\ Len(routers) = m + 1
          /\ neighbor_info \in Seq(Ports) /\ Len(neighbor_info) = m
      BY <1>1, <2>3 DEF EnteredUpTo, TypeInv
    <3>2. Len(routers') = m + 1 + 1 /\ Len(neighbor_info') = m + 1
      BY <1>5, <2>1, <3>1
    <3>3. FirstPorts(m + 1) = FirstPorts(m) \cup {pair.port}
      <4>1. 1..(m + 1) = 1..m \cup {m + 1}
        BY <2>2
      <4> QED
        BY <2>3, <4>1 DEF FirstPorts
    <3>4. /\ ToSet(routers') = ToSet(routers) \cup {pair.port}
          /\ ToSet(neighbor_info') = ToSet(neighbor_info) \cup {pair.port}
      <4>1. ASSUME NEW s \in Seq(Ports), NEW x \in Ports
            PROVE  ToSet(Append(s, x)) = ToSet(s) \cup {x}
        <5>1. /\ DOMAIN s = 1..Len(s) /\ DOMAIN Append(s, x) = 1..(Len(s) + 1) /\ Len(s) \in Nat
              /\ \A k \in 1..Len(s) : Append(s, x)[k] = s[k]
              /\ Append(s, x)[Len(s) + 1] = x
          OBVIOUS
        <5>2. 1..(Len(s) + 1) = 1..Len(s) \cup {Len(s) + 1}
          BY <5>1
        <5> QED
          BY <5>1, <5>2 DEF ToSet
      <4> QED
        BY <1>5, <2>1, <3>1, <4>1
    <3>5. \A k \in 1..(m + 1) : /\ neighbor_info'[k] = Port(k) /\ Port(k) \in Ports
                                /\ argv.pairs[k].cost # 0
      <4>1. \A k \in 1..m : /\ neighbor_info[k] = Port(k) /\ Port(k) \in Ports
                            /\ argv.pairs[k].cost # 0
        BY <2>3 DEF EnteredUpTo
      <4>2. \A k \in 1..m : neighbor_info'[k] = neighbor_info[k]
        BY <2>1, <3>1
      <4>3. neighbor_info'[m + 1] = pair.port
        BY <2>1, <3>1
      <4>4. 1..(m + 1) = 1..m \cup {m + 1}
        BY <2>2
      <4> QED
        BY <1>5, <2>2, <2>3, <4>1, <4>2, <4>3, <4>4
    <3>6. ASSUME Sensible
          PROVE  /\ table'[argv.self] = [cost |-> 0, next_hop |-> NoPort]
                 /\ \A k \in 1..(m + 1) : table'[Port(k)] = NeighborEntry(argv.pairs[k])
                 /\ \A id \in Ports \ ({argv.self} \cup FirstPorts(m + 1)) : table'[id] = BlankEntry
      <4>1. /\ table[argv.self] = [cost |-> 0, next_hop |-> NoPort]
            /\ \A k \in 1..m : table[Port(k)] = NeighborEntry(argv.pairs[k]) /\ Port(k) \in Ports
            /\ \A id \in Ports \ ({argv.self} \cup FirstPorts(m)) : table[id] = BlankEntry
            /\ argv.self \in Ports
        BY <2>3, <3>6 DEF EnteredUpTo
      <4>2. DOMAIN argv.pairs = 1..neighbor_count /\ neighbor_count \in Nat
        BY <1>1, ArgvType DEF neighbor_count
      <4>3. pair.port # argv.self /\ \A k \in 1..m : Port(k) # pair.port
        <5>1. i \in DOMAIN argv.pairs /\ \A k \in 1..m : k \in DOMAIN argv.pairs /\ k # i
          BY <2>2, <2>3, <4>2
        <5> QED
          BY <3>6, <5>1 DEF Sensible, Port
      <4>4. table'[pair.port] = NeighborEntry(pair) /\ \A id \in Ports : id # pair.port => table'[id] = table[id]
        BY <1>1, <1>5, <2>1 DEF TypeInv
      <4>5. 1..(m + 1) = 1..m \cup {m + 1}
        BY <2>2
      <4>6. \A k \in 1..m : table'[Port(k)] = NeighborEntry(argv.pairs[k])
        BY <4>1, <4>3, <4>4
      <4>7. table'[Port(m + 1)] = NeighborEntry(argv.pairs[m + 1])
        BY <2>2, <2>3, <4>4
      <4>8. \A id \in Ports \ ({argv.self} \cup FirstPorts(m + 1)) : table'[id] = BlankEntry
        BY <3>3, <4>1, <4>4
      <4> QED
        BY <4>1, <4>3, <4>4, <4>5, <4>6, <4>7, <4>8
    <3> QED
      BY <1>1, <2>3, <3>2, <3>3, <3>4, <3>5, <3>6, ArgvSame DEF EnteredUpTo
  <2>6. Entering'
    <3>1. CASE i < neighbor_count
      <4>1. i' = i + 1 /\ pc' = "neighbors"
        BY <1>1, <2>1, <3>1 DEF NextNeighbor
      <4>2. i' - 1 = m + 1 /\ i' \in 1..neighbor_count
        BY <1>1, <2>2, <3>1, <4>1
      <4> QED
        BY <1>1, <2>5, <4>1, <4>2, ArgvSame DEF Entering
    <3>2. CASE ~(i < neighbor_count)
      <4>1. i' = 1 /\ pc' = "ring"
        BY <2>1, <3>2 DEF NextNeighbor
      <4>2. neighbor_count = m + 1
        BY <1>1, <2>2, <3>2
      <4> QED
        BY <1>1, <2>5, <4>1, <4>2, ArgvSame DEF Entering
    <3> QED
      BY <3>1, <3>2
  <2>7. ListFits'
    <3>1. Len(routers') = m + 1 + 1
      BY <2>5 DEF EnteredUpTo
    <3>2. m + 1 <= MAX_ROUTERS - 1
      BY <1>1, <2>2, <2>3, LimitsAssumption DEF MAX_NEIGHBORS
    <3> QED
      BY <2>2, <3>1, <3>2, LimitsAssumption DEF ListFits
  <2>8. Holding' /\ OnlyKnownLeaks'
    BY <1>1, <2>1 DEF NextNeighbor, Holding, OnlyKnownLeaks
  <2> QED
    BY <2>4, <2>6, <2>7, <2>8 DEF StartInv
<1> QED
  BY <1>4, <1>5

LEMMA EnteredSame ==
    ASSUME UNCHANGED <<argv, routers, table, neighbor_info>>
    PROVE  \A m : EnteredUpTo(m)' <=> EnteredUpTo(m)
  BY DEF EnteredUpTo, Port, FirstPorts, Sensible

\* What has been entered stays as it is once the resources are taken.
LEMMA ResourceSteps ==
    ASSUME StartInv,
           InitRing \/ Bind \/ LookUpNeighbor \/ InitSignals \/ InitRequests \/ Loop \/ Cleanup
    PROVE  /\ UNCHANGED <<argv, routers, table, neighbor_info>>
           /\ TypeInv' /\ Entering' /\ ListFits'
<1>1. /\ UNCHANGED <<argv, routers, table, neighbor_info>>
      /\ pc \in {"ring", "bind", "addresses", "signals", "requests", "loop", "cleanup"}
      /\ pc' \in {"bind", "addresses", "signals", "requests", "loop", "cleanup", "exit"}
      /\ pc = "cleanup" => pc' = "exit"
  BY DEF InitRing, Bind, LookUpNeighbor, NextNeighbor, InitSignals, InitRequests, Loop, Cleanup,
         ReturnEarly
<1>2. TypeInv'
  <2>1. free_fd \in 0..4
    BY DEF StartInv, TypeInv
  <2>2. free_fd' \in 0..4
    BY <2>1 DEF InitRing, Bind, LookUpNeighbor, InitSignals, InitRequests, Loop, Cleanup
  <2> QED
    BY <1>1, <2>2 DEF StartInv, TypeInv
<1>3. Entering'
  BY <1>1, ArgvSame, EnteredSame DEF StartInv, Entering
<1> QED
  BY <1>1, <1>2, <1>3 DEF StartInv, ListFits

LEMMA ResourceStep ==
    ASSUME StartInv,
           InitRing \/ Bind \/ LookUpNeighbor \/ InitSignals \/ InitRequests \/ Loop \/ Cleanup
    PROVE  StartInv'
<1>1. /\ UNCHANGED <<argv, routers, table, neighbor_info>>
      /\ TypeInv' /\ Entering' /\ ListFits'
  BY ResourceSteps
<1>2. TypeInv /\ Entering /\ Holding
  BY DEF StartInv
<1>3. neighbor_count' = neighbor_count /\ BoundHeld' = BoundHeld
  BY <1>1, ArgvSame
<1>4. SUFFICES Holding' /\ OnlyKnownLeaks'
  BY <1>1 DEF StartInv
<1>5. CASE InitRing
  <2>1. /\ UNCHANGED <<i, addrinfo, fd>> /\ held = {List} /\ addrinfo = 0 /\ fd = 0 /\ i = 1
        /\ \/ pc' = "bind" /\ held' = {List, Ring} /\ free_fd' \in (free_fd + 1)..4
           \/ pc' = "exit" /\ held' = {}
    BY <1>2, <1>5 DEF InitRing, ReturnEarly, Holding
  <2>2. free_fd \in 0..4
    BY <1>2 DEF TypeInv
  <2>3. pc' = "bind" => free_fd' # 0
    BY <2>1, <2>2
  <2> QED
    BY <2>1, <2>3 DEF Holding, OnlyKnownLeaks
<1>6. CASE Bind
  <2>1. held = {List, Ring} /\ addrinfo = 0 /\ fd = 0 /\ i' = i /\ i = 1
    BY <1>2, <1>6 DEF Bind, Holding
  <2>2. neighbor_count \in Nat /\ 1 \in 1..neighbor_count
    BY <1>2, <1>6 DEF Bind, Entering
  <2>3. CASE pc' = "addresses"
    <3>1. /\ addrinfo' \in 1..AddressCount /\ fd' \in 1..4
          /\ held' \subseteq BoundHeld
      BY <1>2, <1>6, <2>1, <2>3 DEF Bind, BoundHeld, Holding, TypeInv
    <3> QED
      BY <1>1, <1>3, <2>1, <2>2, <2>3, <3>1 DEF Holding, OnlyKnownLeaks
  <2>4. CASE pc' = "cleanup" /\ fd' = -1 /\ UNCHANGED <<addrinfo, held>>
    BY <2>1, <2>4 DEF Holding, OnlyKnownLeaks
  <2> QED
    BY <1>6, <2>3, <2>4 DEF Bind
<1>7. CASE LookUpNeighbor
  <2>1. /\ UNCHANGED <<addrinfo, fd>> /\ addrinfo \in 1..AddressCount /\ fd \in 1..4
        /\ held \subseteq BoundHeld /\ i \in 1..neighbor_count /\ neighbor_count \in Nat
    BY <1>2, <1>7, ArgvType DEF LookUpNeighbor, Holding
  <2>2. held' \subseteq BoundHeld
    BY <1>7, <2>1 DEF LookUpNeighbor, BoundHeld
  <2>3. \/ pc' = "addresses" /\ i' \in 1..neighbor_count
        \/ pc' \in {"signals", "cleanup"}
    BY <1>7, <2>1 DEF LookUpNeighbor, NextNeighbor
  <2> QED
    BY <1>1, <1>3, <2>1, <2>2, <2>3 DEF Holding, OnlyKnownLeaks
<1>8. CASE InitSignals \/ InitRequests \/ Loop
  <2>1. /\ UNCHANGED <<addrinfo, fd, held>> /\ addrinfo \in 1..AddressCount /\ fd \in 1..4
        /\ held \subseteq BoundHeld /\ pc' \in {"requests", "loop", "cleanup"}
    BY <1>2, <1>8 DEF InitSignals, InitRequests, Loop, Holding
  <2> QED
    BY <1>1, <1>3, <2>1 DEF Holding, OnlyKnownLeaks
<1>9. CASE Cleanup
  <2>1. /\ pc' = "exit" /\ UNCHANGED <<addrinfo, fd>>
        /\ held' = held \ (NetworkFds \cup {Ring, List})
    BY <1>9 DEF Cleanup
  <2>2. CASE addrinfo \in 1..AddressCount /\ fd \in 1..4 /\ held \subseteq BoundHeld
    <3>1. ASSUME NEW x \in held'
          PROVE  x \in {OwnAddress(k) : k \in 1..(addrinfo - 1)}
      <4>1. x \in BoundHeld /\ x \notin NetworkFds /\ x # Ring /\ x # List
        BY <2>1, <2>2
      <4>2. x # Socket
        BY <2>2, <4>1 DEF NetworkFds
      <4>3. CASE x \in {OwnAddress(k) : k \in 1..AddressCount}
        <5>1. PICK k \in 1..AddressCount : x = OwnAddress(k)
          BY <4>3
        <5>2. k \notin addrinfo..AddressCount
          BY <2>2, <4>1, <5>1, StartupAssumption DEF NetworkFds
        <5>3. k \in 1..(addrinfo - 1)
          BY <2>2, <5>2, StartupAssumption
        <5> QED
          BY <5>1, <5>3
      <4>4. x \notin {NeighborAddress(k) : k \in 1..neighbor_count}
        BY <4>1 DEF NetworkFds
      <4> QED
        BY <4>1, <4>2, <4>3, <4>4 DEF BoundHeld
    <3> QED
      BY <2>1, <3>1 DEF Holding, OnlyKnownLeaks
  <2>3. CASE addrinfo = 0 /\ fd = -1 /\ held \subseteq {List, Ring}
    <3>1. held' = {}
      BY <2>1, <2>3
    <3> QED
      BY <2>1, <3>1 DEF Holding, OnlyKnownLeaks
  <2> QED
    BY <1>2, <1>9, <2>2, <2>3 DEF Cleanup, Holding
<1> QED
  BY <1>5, <1>6, <1>7, <1>8, <1>9

LEMMA StartStep == StartInv /\ [Next]_vars => StartInv'
<1> SUFFICES ASSUME StartInv, [Next]_vars PROVE StartInv'
  OBVIOUS
<1>1. CASE UNCHANGED vars
  <2>1. UNCHANGED <<pc, argv, i, routers, table, neighbor_info, addrinfo, fd, free_fd, held>>
    BY <1>1 DEF vars
  <2> QED
    BY <2>1, ArgvSame, EnteredSame
       DEF StartInv, TypeInv, Entering, Holding, ListFits, OnlyKnownLeaks
<1> QED
  BY <1>1, ArgumentsStep, SelfStep, NeighborStep, ResourceStep DEF Next, Exited

LEMMA StartInvariance == Spec => []StartInv
  BY StartInit, StartStep, PTL DEF Spec

\* No command line makes known_routers longer than the message buffer, not even
\* one that lists a neighbor twice or the router itself.
THEOREM ListAlwaysFits == Spec => []ListFits
<1>1. StartInv => ListFits
  BY DEF StartInv
<1> QED
  BY <1>1, StartInvariance, PTL

\* Wherever start-up fails and however it ends, nothing stays taken but addresses
\* that bind_to passed over; the socket is closed, since it never has descriptor 0.
THEOREM OnlyKnownLeaksEver == Spec => []OnlyKnownLeaks
<1>1. StartInv => OnlyKnownLeaks
  BY DEF StartInv
<1> QED
  BY <1>1, StartInvariance, PTL

\* A pair of a sensible command line is found by its port.
LEMMA PairFound ==
    ASSUME TypeInv, Sensible, NEW k \in 1..neighbor_count
    PROVE  (CHOOSE p \in ToSet(argv.pairs) : p.port = Port(k)) = argv.pairs[k]
<1>1. DOMAIN argv.pairs = 1..neighbor_count
  BY ArgvType DEF neighbor_count
<1>2. \A p \in ToSet(argv.pairs) : p.port = Port(k) => p = argv.pairs[k]
  BY <1>1 DEF ToSet, Port, Sensible
<1>3. argv.pairs[k] \in ToSet(argv.pairs) /\ argv.pairs[k].port = Port(k)
  BY <1>1 DEF ToSet, Port
<1> QED
  BY <1>2, <1>3

\* main reaches its loop only in a state module Router may start from.
THEOREM RouterAlwaysMayStart == Spec => []RouterMayStart
<1>1. StartInv => AsConfigured
  <2> SUFFICES ASSUME StartInv, pc = "requests", Sensible
               PROVE  AsConfigured
    BY DEF AsConfigured
  <2> DEFINE neighbors == ToSet(neighbor_info)
             PairOf(n) == CHOOSE p \in ToSet(argv.pairs) : p.port = n
             cost == [n \in neighbors |-> PairOf(n).cost]
  <2>1. TypeInv /\ EnteredUpTo(neighbor_count) /\ neighbor_count \in 1..MAX_NEIGHBORS
    BY DEF StartInv, Entering
  <2>2. /\ Len(neighbor_info) = neighbor_count /\ neighbors = FirstPorts(neighbor_count)
        /\ ToSet(routers) = {argv.self} \cup neighbors
    BY <2>1 DEF EnteredUpTo
  <2>3. ASSUME NEW k \in 1..neighbor_count
        PROVE  /\ PairOf(Port(k)) = argv.pairs[k] /\ argv.pairs[k].cost # 0
               /\ Port(k) \in neighbors
               /\ Port(k) # argv.self
               /\ table[Port(k)] = [cost |-> argv.pairs[k].cost, next_hop |-> Port(k)]
    <3>1. PairOf(Port(k)) = argv.pairs[k]
      BY <2>1, PairFound
    <3>2. Port(k) \in neighbors
      BY <2>2 DEF FirstPorts
    <3>3. Port(k) # argv.self
      BY <2>1, ArgvType DEF Sensible, Port, neighbor_count
    <3> QED
      BY <2>1, <3>1, <3>2, <3>3 DEF EnteredUpTo, NeighborEntry, Port
  <2>4. \A n \in neighbors : \E k \in 1..neighbor_count : n = Port(k)
    BY <2>2 DEF FirstPorts
  <2>5. ASSUME NEW n \in neighbors PROVE PairOf(n).cost # 0
    <3>1. PICK k \in 1..neighbor_count : n = Port(k)
      BY <2>4
    <3>2. PairOf(Port(k)).cost = argv.pairs[k].cost /\ argv.pairs[k].cost # 0
      BY <2>3
    <3> HIDE DEF PairOf, neighbors
    <3> QED
      BY <3>1, <3>2
  <2>6. table = init_table(argv.self, neighbors, cost)
    <3>1. table \in [Ports -> Entry]
      BY <2>1 DEF TypeInv
    <3>2. ASSUME NEW id \in Ports
          PROVE  table[id] = IF id = argv.self THEN [cost |-> 0, next_hop |-> NoPort]
                             ELSE IF id \in neighbors THEN [cost |-> cost[id], next_hop |-> id]
                             ELSE BlankEntry
      <4>1. CASE id = argv.self
        BY <2>1, <4>1 DEF EnteredUpTo
      <4>2. CASE id # argv.self /\ id \in neighbors
        <5>1. PICK k \in 1..neighbor_count : id = Port(k)
          BY <2>4, <4>2
        <5>2. cost[id] = argv.pairs[k].cost
          BY <2>3, <4>2, <5>1
        <5>3. table[id] = [cost |-> argv.pairs[k].cost, next_hop |-> id]
          BY <2>3, <5>1
        <5> HIDE DEF cost, neighbors
        <5> QED
          BY <4>2, <5>2, <5>3
      <4>3. CASE id # argv.self /\ id \notin neighbors
        BY <2>1, <2>2, <4>3 DEF EnteredUpTo
      <4> QED
        BY <4>1, <4>2, <4>3
    <3> HIDE DEF cost, neighbors
    <3> QED
      BY <3>1, <3>2 DEF init_table
  <2> QED
    BY <2>1, <2>2, <2>5, <2>6 DEF AsConfigured
<1>2. StartInv => RouterMayStart
  BY <1>1 DEF StartInv, RouterMayStart
<1> QED
  BY <1>2, StartInvariance, PTL

=============================================================================
