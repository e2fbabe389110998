---------------------------- MODULE NetworkProofs ----------------------------
(***************************************************************************)
(* Proofs about Network, for all networks that its assumption admits: any  *)
(* number of routers, and any number of crashes, late and lost datagrams.  *)
(***************************************************************************)
EXTENDS Network, SequenceTheorems, TLAPS

-----------------------------------------------------------------------------
(* Types.                                                                  *)

\* What a datagram may hold.
Vectors == UNION {[ids -> Costs] : ids \in SUBSET Ports}

\* TypeOK says nothing about what is in the datagrams, and a table that was filled
\* from them is one only if they hold costs.
TypeInv == TypeOK /\ net \in [Links -> Seq(Vectors)]

LEMMA LinkType ==
    ASSUME network \in Networks, NEW l \in Links
    PROVE  /\ l[1] \in Ports /\ l[2] \in Ports /\ l[1] # l[2]
           /\ l = <<l[1], l[2]>> /\ <<l[2], l[1]>> \in Links
           /\ link_cost[<<l[2], l[1]>>] = link_cost[l]
           /\ link_cost[l] \in 1..INT_MAX
<1>1. l \in DOMAIN network.links
  BY DEF Links, link_cost
<1>2. l \in Ports \X Ports
  BY <1>1, NetworkAssumption
<1>3. /\ l[1] # l[2] /\ <<l[2], l[1]>> \in DOMAIN network.links
      /\ network.links[<<l[2], l[1]>>] = network.links[l]
      /\ network.links[l] \in 1..INT_MAX
  BY <1>1, NetworkAssumption
<1> QED
  BY <1>2, <1>3 DEF Links, link_cost

\* The other neighbor's view of a link.
LEMMA LinkBack ==
    ASSUME network \in Networks, NEW r, NEW n, <<r, n>> \in Links
    PROVE  /\ r \in Ports /\ n \in Ports /\ r # n /\ <<n, r>> \in Links
           /\ link_cost[<<n, r>>] = link_cost[<<r, n>>]
           /\ link_cost[<<r, n>>] \in 1..INT_MAX
           /\ n \in Neighbors(r) /\ initial_cost(r)[n] = link_cost[<<r, n>>]
<1> DEFINE l == <<r, n>>
<1>1. l \in Links /\ l[1] = r /\ l[2] = n
  OBVIOUS
<1> HIDE DEF l
<1>2. /\ l[1] \in Ports /\ l[2] \in Ports /\ l[1] # l[2] /\ <<l[2], l[1]>> \in Links
      /\ link_cost[<<l[2], l[1]>>] = link_cost[l] /\ link_cost[l] \in 1..INT_MAX
  BY <1>1, LinkType
<1>3. n \in Neighbors(r)
  BY <1>1, <1>2 DEF Neighbors, l
<1> QED
  BY <1>1, <1>2, <1>3 DEF l, initial_cost

\* Each pair of a message changes an entry into an entry, whatever its cost.
LEMMA PairsType ==
    ASSUME NEW t \in [Ports -> Entry], NEW kn, NEW new, NEW n \in Ports,
           NEW link \in Costs, NEW msg \in Vectors
    PROVE  process_pairs(t, kn, new, n, link, msg) \in [Ports -> Entry]
<1>1. \A id \in DOMAIN msg : msg[id] \in Costs
  BY DEF Vectors
<1>2. \A a, b \in Costs : Add32(a, b) \in Costs
  BY LimitsAssumption DEF Add32, Costs
<1>3. ASSUME NEW id \in Ports
      PROVE  process_pairs(t, kn, new, n, link, msg)[id] \in Entry
  <2> DEFINE e == t[id]
             u == updated_entry(e, id, n, link, msg[id])
             v == learned_entry(n, link, msg[id])
  <2>1. NoRoute \in Entry /\ e \in Entry /\ [cost |-> link, next_hop |-> n] \in Entry
    BY LimitsAssumption DEF NoRoute, Infinity, Entry, Costs
  <2>2. id \in DOMAIN msg => RouteVia(n, link, msg[id]) \in Entry
    BY <1>1, <1>2 DEF RouteVia, Entry
  <2>3. id \in DOMAIN msg => u \in Entry /\ v \in Entry
    <3> HIDE DEF e
    <3> QED
      BY <2>1, <2>2
         DEF updated_entry, learned_entry, direct_entry, same_hop_entry, other_hop_entry
  <2>4. process_pairs(t, kn, new, n, link, msg)[id] =
          IF id \in DOMAIN msg /\ id \in kn THEN u
          ELSE IF id \in DOMAIN msg /\ id \in new THEN v
          ELSE e
    BY DEF process_pairs
  <2> HIDE DEF e, u, v
  <2> QED
    BY <2>1, <2>3, <2>4
<1> QED
  BY <1>3 DEF process_pairs

\* What a router is told is a vector.
LEMMA VectorType ==
    ASSUME NEW t \in [Ports -> Entry], NEW kn \in SUBSET Ports, NEW n
    PROVE  vector(t, kn, n) \in Vectors
<1>1. \A id \in kn : told_cost(t, id, n) \in Costs
  BY LimitsAssumption DEF told_cost, Infinity, Entry, Costs
<1>2. vector(t, kn, n) \in [kn -> Costs]
  BY <1>1 DEF vector
<1> QED
  BY <1>2 DEF Vectors

\* A router starts with a table.
LEMMA InitialType ==
    ASSUME network \in Networks, NEW r \in Ports
    PROVE  InitialTable(r) \in [Ports -> Entry]
<1>1. BlankEntry \in Entry /\ [cost |-> 0, next_hop |-> NoPort] \in Entry
  BY LimitsAssumption DEF BlankEntry, Entry, Costs
<1>2. ASSUME NEW n \in Neighbors(r)
      PROVE  [cost |-> initial_cost(r)[n], next_hop |-> n] \in Entry
  <2>1. <<r, n>> \in Links /\ n \in Ports
    BY DEF Neighbors
  <2>2. initial_cost(r)[n] \in 1..INT_MAX
    BY <2>1, LinkBack
  <2>3. 1..INT_MAX \subseteq Costs
    BY LimitsAssumption DEF Costs
  <2> QED
    BY <2>1, <2>2, <2>3 DEF Entry
<1> QED
  BY <1>1, <1>2 DEF InitialTable, init_table


LEMMA TypeInit == Init => TypeInv
<1> SUFFICES ASSUME Init PROVE TypeInv
  OBVIOUS
<1>1. network \in Networks /\ 0 <= ChannelBound
  BY NetworkAssumption DEF Init
<1>2. \A r \in Ports : InitialTable(r) \in [Ports -> Entry]
  BY <1>1, InitialType
<1>3. table \in [Ports -> [Ports -> Entry]]
  BY <1>2 DEF Init
<1>4. known \in [Ports -> SUBSET Ports] /\ \A r \in Ports : down[r] \subseteq Neighbors(r)
  BY DEF Init, Neighbors
<1>5. \A l \in Links : net[l] = <<>>
  BY DEF Init
<1>6. net \in [Links -> Seq(Vectors)] /\ \A l \in Links : Len(net[l]) <= ChannelBound
  BY <1>1, <1>5 DEF Init
<1> QED
  BY <1>1, <1>3, <1>4, <1>6 DEF TypeInv, TypeOK, Init

\* Appending to a socket with room in it, and taking the oldest datagram from one.
LEMMA Channels ==
    ASSUME NEW q \in Seq(Vectors), Len(q) <= ChannelBound
    PROVE  /\ \A v \in Vectors : Len(q) < ChannelBound =>
                 /\ Append(q, v) \in Seq(Vectors) /\ Len(Append(q, v)) <= ChannelBound
           /\ q # <<>> =>
                 /\ Head(q) \in Vectors /\ Tail(q) \in Seq(Vectors)
                 /\ Len(Tail(q)) <= ChannelBound
<1>1. Len(q) \in Nat /\ ChannelBound \in Nat
  BY NetworkAssumption
<1>2. ASSUME NEW v \in Vectors
      PROVE  Append(q, v) \in Seq(Vectors) /\ Len(Append(q, v)) = Len(q) + 1
  OBVIOUS
<1>3. q # <<>> => Head(q) \in Vectors /\ Tail(q) \in Seq(Vectors) /\ Len(Tail(q)) = Len(q) - 1
  BY HeadTailProperties
<1> QED
  BY <1>1, <1>2, <1>3


\* The network stays what it is, and with it what is made from it.
LEMMA SameNetwork ==
    ASSUME network' = network
    PROVE  /\ link_cost' = link_cost /\ Links' = Links
           /\ \A r : Neighbors(r)' = Neighbors(r)
<1>1. link_cost' = link_cost
  BY DEF link_cost
<1>2. Links' = Links
  BY <1>1 DEF Links
<1> QED
  BY <1>1, <1>2 DEF Neighbors

\* A step that leaves the datagrams what they are, or takes or adds one.
LEMMA TypeKept ==
    ASSUME TypeInv, network' = network, up' \subseteq Ports,
           table' \in [Ports -> [Ports -> Entry]], known' \in [Ports -> SUBSET Ports],
           \A r \in Ports : down'[r] \subseteq Neighbors(r),
           net' \in [Links -> Seq(Vectors)],
           \A l \in Links : Len(net'[l]) <= ChannelBound
    PROVE  TypeInv'
<1>1. Links' = Links /\ \A r : Neighbors(r)' = Neighbors(r)
  BY SameNetwork
<1>2. (\A r \in Ports : down[r] \subseteq Neighbors(r))'
  BY <1>1
<1>3. (\A l \in Links : Len(net[l]) <= ChannelBound)'
  BY <1>1
<1>4. (net \in [Links -> Seq(Vectors)])' /\ (network \in Networks)'
  BY <1>1 DEF TypeInv, TypeOK
<1> QED
  BY <1>2, <1>3, <1>4 DEF TypeInv, TypeOK

LEMMA TickType == ASSUME TypeInv, NEW r \in Ports, Tick(r) PROVE TypeInv'
<1>1. /\ network' = network /\ up' = up /\ table' = table /\ known' = known /\ down' = down
      /\ net' = [l \in Links |->
                    IF l[1] = r /\ l[2] \in up /\ Len(net[l]) < ChannelBound
                    THEN Append(net[l], vector(table[r], known[r], l[2]))
                    ELSE net[l]]
  BY DEF Tick
<1>2. table[r] \in [Ports -> Entry] /\ known[r] \in SUBSET Ports
  BY DEF TypeInv, TypeOK
<1>3. \A n : vector(table[r], known[r], n) \in Vectors
  BY <1>2, VectorType
<1>4. ASSUME NEW l \in Links
      PROVE  net'[l] \in Seq(Vectors) /\ Len(net'[l]) <= ChannelBound
  <2>1. net[l] \in Seq(Vectors) /\ Len(net[l]) <= ChannelBound
    BY DEF TypeInv, TypeOK
  <2>2. \A v \in Vectors : Len(net[l]) < ChannelBound =>
           Append(net[l], v) \in Seq(Vectors) /\ Len(Append(net[l], v)) <= ChannelBound
    BY <2>1, Channels
  <2>3. net'[l] = IF l[1] = r /\ l[2] \in up /\ Len(net[l]) < ChannelBound
                  THEN Append(net[l], vector(table[r], known[r], l[2]))
                  ELSE net[l]
    BY <1>1
  <2> QED
    BY <1>3, <2>1, <2>2, <2>3
<1>5. net' \in [Links -> Seq(Vectors)]
  BY <1>1, <1>4
<1>6. \A l \in Links : Len(net'[l]) <= ChannelBound
  BY <1>4
<1>7. /\ up' \subseteq Ports /\ table' \in [Ports -> [Ports -> Entry]]
      /\ known' \in [Ports -> SUBSET Ports] /\ \A n \in Ports : down'[n] \subseteq Neighbors(n)
  BY <1>1 DEF TypeInv, TypeOK
<1> QED
  BY <1>1, <1>5, <1>6, <1>7, TypeKept

\* Taking the oldest datagram of one link.
LEMMA TakenType ==
    ASSUME TypeInv, NEW l \in Links, net[l] # <<>>, net' = [net EXCEPT ![l] = Tail(@)]
    PROVE  /\ Head(net[l]) \in Vectors
           /\ net' \in [Links -> Seq(Vectors)] /\ \A k \in Links : Len(net'[k]) <= ChannelBound
<1>1. net \in [Links -> Seq(Vectors)] /\ \A k \in Links : Len(net[k]) <= ChannelBound
  BY DEF TypeInv, TypeOK
<1>2. net[l] \in Seq(Vectors) /\ Len(net[l]) <= ChannelBound
  BY <1>1
<1>3. Head(net[l]) \in Vectors /\ Tail(net[l]) \in Seq(Vectors) /\ Len(Tail(net[l])) <= ChannelBound
  BY <1>2, Channels
<1>4. \A k \in Links : net'[k] = IF k = l THEN Tail(net[l]) ELSE net[k]
  BY <1>1
<1>5. DOMAIN net' = Links /\ net' = [k \in Links |-> net'[k]]
  BY <1>1
<1>6. \A k \in Links : net'[k] \in Seq(Vectors) /\ Len(net'[k]) <= ChannelBound
  BY <1>1, <1>3, <1>4
<1> QED
  BY <1>3, <1>5, <1>6

LEMMA ReceiveType ==
    ASSUME TypeInv, NEW r, NEW n, <<n, r>> \in Links, Receive(r, n) PROVE TypeInv'
<1> DEFINE msg == Head(net[<<n, r>>])
<1>1. /\ network' = network /\ up' = up /\ net[<<n, r>>] # <<>>
      /\ net' = [net EXCEPT ![<<n, r>>] = Tail(@)]
      /\ down' = [down EXCEPT ![r] = @ \ {n}]
  BY DEF Receive
<1>2. PICK new \in Admitted(known[r], DOMAIN msg) :
         /\ table' = [table EXCEPT ![r] =
                         process_pairs(@, known[r], new, n, initial_cost(r)[n], msg)]
         /\ known' = [known EXCEPT ![r] = @ \cup new]
  BY DEF Receive
<1>3. network \in Networks
  BY DEF TypeInv, TypeOK
<1>4. <<r, n>> \in Links /\ n \in Ports /\ r \in Ports
  BY <1>3, LinkBack
<1>5. initial_cost(r)[n] \in Costs
  <2>1. initial_cost(r)[n] \in 1..INT_MAX
    BY <1>3, <1>4, LinkBack
  <2> QED
    BY <2>1, LimitsAssumption DEF Costs
<1>6. /\ msg \in Vectors
      /\ net' \in [Links -> Seq(Vectors)] /\ \A k \in Links : Len(net'[k]) <= ChannelBound
  BY <1>1, TakenType
<1>7. new \in SUBSET Ports
  BY <1>2, <1>6 DEF Admitted, Vectors
<1> HIDE DEF msg
<1>8. table \in [Ports -> [Ports -> Entry]] /\ known \in [Ports -> SUBSET Ports] /\ table[r] \in [Ports -> Entry]
  BY <1>4 DEF TypeInv, TypeOK
<1>9. process_pairs(table[r], known[r], new, n, initial_cost(r)[n], msg) \in [Ports -> Entry]
  BY <1>4, <1>5, <1>6, <1>8, PairsType
<1>10. table' \in [Ports -> [Ports -> Entry]]
  BY <1>2, <1>8, <1>9
<1>11. known' \in [Ports -> SUBSET Ports]
  BY <1>2, <1>7, <1>8
<1>12. up' \subseteq Ports /\ \A k \in Ports : down'[k] \subseteq Neighbors(k)
  BY <1>1 DEF TypeInv, TypeOK
<1> QED
  BY <1>1, <1>6, <1>10, <1>11, <1>12, TypeKept


LEMMA TimeoutType ==
    ASSUME TypeInv, NEW r, NEW n, <<r, n>> \in Links, NeighborTimeout(r, n) PROVE TypeInv'
<1>1. /\ network' = network /\ up' = up /\ known' = known /\ net' = net
      /\ table' = [table EXCEPT ![r] = purge_neighbor(@, known[r], n)]
      /\ down' = [down EXCEPT ![r] = @ \cup {n}]
  BY DEF NeighborTimeout
<1>2. network \in Networks
  BY DEF TypeInv, TypeOK
<1>3. n \in Neighbors(r) /\ r \in Ports
  BY <1>2, LinkBack
<1>4. table \in [Ports -> [Ports -> Entry]] /\ table[r] \in [Ports -> Entry]
  BY <1>3 DEF TypeInv, TypeOK
<1>5. purge_neighbor(table[r], known[r], n) \in [Ports -> Entry]
  <2>1. NoRoute \in Entry
    BY LimitsAssumption DEF NoRoute, Infinity, Entry, Costs
  <2> QED
    BY <1>4, <2>1 DEF purge_neighbor
<1>6. table' \in [Ports -> [Ports -> Entry]]
  BY <1>1, <1>4, <1>5
<1>7. \A k \in Ports : down[k] \subseteq Neighbors(k)
  BY DEF TypeInv, TypeOK
<1>8. \A k \in Ports : down'[k] \subseteq Neighbors(k)
  BY <1>1, <1>3, <1>7
<1>9. /\ up' \subseteq Ports /\ known' \in [Ports -> SUBSET Ports]
      /\ net' \in [Links -> Seq(Vectors)] /\ \A l \in Links : Len(net'[l]) <= ChannelBound
  BY <1>1 DEF TypeInv, TypeOK
<1> QED
  BY <1>1, <1>6, <1>8, <1>9, TypeKept

LEMMA LoseType == ASSUME TypeInv, NEW l \in Links, Lose(l) PROVE TypeInv'
<1>1. /\ network' = network /\ up' = up /\ table' = table /\ known' = known /\ down' = down
      /\ net[l] # <<>> /\ net' = [net EXCEPT ![l] = Tail(@)]
  BY DEF Lose
<1>2. net' \in [Links -> Seq(Vectors)] /\ \A k \in Links : Len(net'[k]) <= ChannelBound
  BY <1>1, TakenType
<1>3. /\ up' \subseteq Ports /\ table' \in [Ports -> [Ports -> Entry]]
      /\ known' \in [Ports -> SUBSET Ports] /\ \A k \in Ports : down'[k] \subseteq Neighbors(k)
  BY <1>1 DEF TypeInv, TypeOK
<1> QED
  BY <1>1, <1>2, <1>3, TypeKept

LEMMA CrashType == ASSUME TypeInv, NEW r \in Ports, Crash(r) PROVE TypeInv'
<1>1. /\ network' = network /\ up' = up \ {r}
      /\ table' = [table EXCEPT ![r] = InitialTable(r)]
      /\ known' = [known EXCEPT ![r] = {r} \cup Neighbors(r)]
      /\ down' = [down EXCEPT ![r] = {}]
      /\ net' = [l \in Links |-> IF l[2] = r THEN <<>> ELSE net[l]]
  BY DEF Crash
<1>2. /\ network \in Networks /\ up \subseteq Ports /\ table \in [Ports -> [Ports -> Entry]]
      /\ known \in [Ports -> SUBSET Ports] /\ \A k \in Ports : down[k] \subseteq Neighbors(k)
      /\ net \in [Links -> Seq(Vectors)] /\ \A l \in Links : Len(net[l]) <= ChannelBound
  BY DEF TypeInv, TypeOK
<1>3. InitialTable(r) \in [Ports -> Entry]
  BY <1>2, InitialType
<1>4. {r} \cup Neighbors(r) \in SUBSET Ports
  BY DEF Neighbors
<1>5. /\ up' \subseteq Ports /\ table' \in [Ports -> [Ports -> Entry]]
      /\ known' \in [Ports -> SUBSET Ports] /\ \A k \in Ports : down'[k] \subseteq Neighbors(k)
  BY <1>1, <1>2, <1>3, <1>4
<1>6. 0 <= ChannelBound
  BY NetworkAssumption
<1>7. net' \in [Links -> Seq(Vectors)] /\ \A l \in Links : Len(net'[l]) <= ChannelBound
  BY <1>1, <1>2, <1>6
<1> QED
  BY <1>1, <1>5, <1>7, TypeKept

LEMMA TypeStep == TypeInv /\ [Next]_vars => TypeInv'
<1> SUFFICES ASSUME TypeInv, [Next]_vars PROVE TypeInv'
  OBVIOUS
<1>1. ASSUME NEW r \in Ports, Tick(r) PROVE TypeInv'
  BY <1>1, TickType
<1>2. ASSUME NEW r \in Ports, Crash(r) PROVE TypeInv'
  BY <1>2, CrashType
<1>3. ASSUME NEW r \in Ports, Restart(r) PROVE TypeInv'
  <2>1. /\ network' = network /\ up' = up \cup {r} /\ table' = table /\ known' = known
        /\ down' = down /\ net' = net
    BY <1>3 DEF Restart
  <2>2. /\ up' \subseteq Ports /\ table' \in [Ports -> [Ports -> Entry]]
        /\ known' \in [Ports -> SUBSET Ports] /\ \A k \in Ports : down'[k] \subseteq Neighbors(k)
        /\ net' \in [Links -> Seq(Vectors)] /\ \A l \in Links : Len(net'[l]) <= ChannelBound
    BY <2>1 DEF TypeInv, TypeOK
  <2> QED
    BY <2>1, <2>2, TypeKept
<1>4. ASSUME NEW l \in Links, Receive(l[2], l[1]) \/ NeighborTimeout(l[1], l[2]) PROVE TypeInv'
  <2>1. <<l[1], l[2]>> \in Links
    BY LinkType DEF TypeInv, TypeOK
  <2> QED
    BY <1>4, <2>1, ReceiveType, TimeoutType
<1>5. ASSUME NEW l \in Links, Lose(l) PROVE TypeInv'
  BY <1>5, LoseType
<1>6. CASE UNCHANGED vars
  <2>1. /\ network' = network /\ up' = up /\ table' = table /\ known' = known
        /\ down' = down /\ net' = net
    BY <1>6 DEF vars
  <2>2. /\ up' \subseteq Ports /\ table' \in [Ports -> [Ports -> Entry]]
        /\ known' \in [Ports -> SUBSET Ports] /\ \A k \in Ports : down'[k] \subseteq Neighbors(k)
        /\ net' \in [Links -> Seq(Vectors)] /\ \A l \in Links : Len(net'[l]) <= ChannelBound
    BY <2>1 DEF TypeInv, TypeOK
  <2> QED
    BY <2>1, <2>2, TypeKept
<1> QED
  BY <1>1, <1>2, <1>3, <1>4, <1>5, <1>6 DEF Next

LEMMA Typed == Spec => []TypeInv
<1> QED
  BY TypeInit, TypeStep, PTL DEF Spec

\* Tables, lists and sockets are what they are declared to be in every network,
\* and no table ever holds what is not an int32_t.
THEOREM TypeCorrect == Spec => []TypeOK
<1>1. TypeInv => TypeOK
  BY DEF TypeInv
<1> QED
  BY <1>1, Typed, PTL


-----------------------------------------------------------------------------
(* Networks without cycles.  RoutesTakeTheOnlyWay is not inductive: what a  *)
(* router learns it learns from datagrams, and these must be right too,     *)
(* however old they are.  A cost that was true when it was sent is that of  *)
(* the only way for ever; what must be shown is that a router sends it to   *)
(* nobody but the neighbors behind it.  The table cannot say so on its own: *)
(* it is the infinity told to the next hop that makes it so.                *)

\* What may stand in the table of r for id.
RightRoutes(r, id) ==
    {e \in Entry : \/ e = NoRoute
                   \/ e.cost = Far(r, id) /\ (r = id \/ Toward(r, e.next_hop, id))}

\* What may be under way from n to r: n itself, and only what lies behind n.
RightVectors(n, r) ==
    {msg \in Vectors :
        /\ n \in DOMAIN msg /\ msg[n] = 0
        /\ \A id \in DOMAIN msg :
              msg[id] = Infinity \/ (msg[id] = Far(n, id) /\ Toward(r, n, id))}

RightTables ==
    \A r \in Ports :
        /\ r \in known[r] /\ table[r][r] = [cost |-> 0, next_hop |-> NoPort]
        /\ \A id \in known[r] : table[r][id] \in RightRoutes(r, id)

RightMessages ==
    \A l \in Links : \A i \in DOMAIN net[l] : net[l][i] \in RightVectors(l[1], l[2])

ForestInv == TypeInv /\ (Forest => RightTables /\ RightMessages)

\* The same network has the same ways.
LEMMA SameWays ==
    ASSUME network' = network
    PROVE  /\ Forest' <=> Forest
           /\ \A r, id : RightRoutes(r, id)' = RightRoutes(r, id)
           /\ \A n, r : RightVectors(n, r)' = RightVectors(n, r)
<1>1. \A r, d : Far(r, d)' = Far(r, d)
  BY Zenon DEF Far
<1>2. link_cost' = link_cost /\ Links' = Links
  BY SameNetwork
<1>3. \A r, n, d : Toward(r, n, d)' <=> Toward(r, n, d)
  BY <1>1, <1>2 DEF Toward
<1>4. Forest' <=> Forest
  BY <1>1, <1>2, <1>3 DEF Forest
<1>5. \A r, id : RightRoutes(r, id)' = RightRoutes(r, id)
  BY <1>1, <1>3 DEF RightRoutes
<1>6. \A n, r : RightVectors(n, r)' = RightVectors(n, r)
  BY <1>1, <1>3 DEF RightVectors
<1> QED
  BY <1>4, <1>5, <1>6

\* The cost of a way through a neighbor is the sum that the code computes.
LEMMA CostOfTheWay ==
    ASSUME network \in Networks, Forest, NEW r, NEW n, <<n, r>> \in Links, NEW d \in Ports,
           Toward(r, n, d)
    PROVE  /\ Far(n, d) \in 0..(INT_MAX - link_cost[<<n, r>>])
           /\ Add32(initial_cost(r)[n], Far(n, d)) = Far(r, d)
           /\ r # d
<1>1. <<r, n>> \in Links /\ r \in Ports /\ n \in Ports
  BY LinkBack
<1>2. /\ initial_cost(r)[n] = link_cost[<<r, n>>] /\ link_cost[<<n, r>>] = link_cost[<<r, n>>]
      /\ link_cost[<<r, n>>] \in 1..INT_MAX
  BY <1>1, LinkBack
<1>3. /\ Far(r, d) \in 0..INT_MAX /\ Far(n, d) \in 0..INT_MAX
      /\ Far(r, d) = link_cost[<<r, n>>] + Far(n, d)
  BY <1>1 DEF Toward, Forest
<1>4. r # d
  <2>1. Far(r, r) = 0
    BY Zenon DEF Far
  <2>2. Far(r, d) >= 1
    BY <1>2, <1>3
  <2> QED
    BY <2>1, <2>2
<1> DEFINE c == link_cost[<<r, n>>]
           f == Far(n, d)
<1>5. c \in 1..INT_MAX /\ f \in 0..INT_MAX /\ c + f \in 0..INT_MAX /\ INT_MAX \in Nat
  BY <1>2, <1>3, LimitsAssumption
<1> HIDE DEF c, f
<1>6. f \in 0..(INT_MAX - c) /\ Add32(c, f) = c + f
  BY <1>5 DEF Add32
<1> QED
  BY <1>2, <1>3, <1>4, <1>6 DEF c, f

\* The link to a neighbor is the way to it.
LEMMA NeighborsAreClose ==
    ASSUME network \in Networks, Forest, NEW r, NEW n, <<r, n>> \in Links
    PROVE  Toward(r, n, n) /\ Far(r, n) = link_cost[<<r, n>>]
<1>1. r \in Ports /\ n \in Ports /\ <<n, r>> \in Links /\ link_cost[<<r, n>>] \in 1..INT_MAX
  BY LinkBack
<1>2. Toward(r, n, n)
  BY <1>1 DEF Forest
<1>3. Far(r, n) = link_cost[<<r, n>>] + Far(n, n)
  BY <1>2 DEF Toward
<1>4. Far(n, n) = 0
  BY Zenon DEF Far
<1> QED
  BY <1>1, <1>2, <1>3, <1>4

\* What a router sends is right if its table is: whoever is told of a route is
\* not its next hop, so the way from there leads back through the sender.
LEMMA RightVector ==
    ASSUME network \in Networks, Forest, NEW n, NEW r, <<n, r>> \in Links,
           table[n] \in [Ports -> Entry], known[n] \subseteq Ports,
           n \in known[n], table[n][n] = [cost |-> 0, next_hop |-> NoPort],
           \A id \in known[n] : table[n][id] \in RightRoutes(n, id)
    PROVE  vector(table[n], known[n], r) \in RightVectors(n, r)
<1> DEFINE msg == vector(table[n], known[n], r)
<1>1. r \in Ports /\ n \in Ports /\ r # NoPort
  BY LinkBack, PortsAssumption
<1>2. DOMAIN msg = known[n] /\ \A id \in known[n] : msg[id] = told_cost(table[n], id, r)
  BY DEF vector
<1> HIDE DEF msg
<1>3. msg[n] = 0
  BY <1>1, <1>2 DEF told_cost
<1>4. ASSUME NEW id \in known[n], msg[id] # Infinity
      PROVE  msg[id] = Far(n, id) /\ Toward(r, n, id)
  <2> DEFINE e == table[n][id]
  <2>1. e \in Entry /\ e \in RightRoutes(n, id) /\ id \in Ports
    OBVIOUS
  <2>2. msg[id] = IF e.next_hop = r THEN Infinity ELSE e.cost
    BY <1>2 DEF told_cost
  <2> HIDE DEF e
  <2>3. e.next_hop # r /\ msg[id] = e.cost /\ e # NoRoute
    BY <1>4, <2>2 DEF NoRoute
  <2>4. e.cost = Far(n, id) /\ (n = id \/ Toward(n, e.next_hop, id))
    BY <2>1, <2>3 DEF RightRoutes
  <2>5. CASE n = id
    BY <1>1, <2>1, <2>3, <2>4, <2>5 DEF Forest
  <2>6. CASE Toward(n, e.next_hop, id)
    <3>1. <<n, e.next_hop>> \in Links
      BY <2>6 DEF Toward
    <3>2. e.next_hop \in Ports
      BY <3>1, LinkBack
    <3>3. e.next_hop \in Ports \ {r}
      BY <3>2, <2>3
    <3>4. Toward(r, n, id)
      BY <1>1, <2>1, <2>6, <3>3 DEF Forest
    <3> QED
      BY <2>3, <2>4, <3>4
  <2> QED
    BY <2>4, <2>5, <2>6
<1>5. msg \in Vectors
  BY VectorType DEF msg
<1> QED
  BY <1>2, <1>3, <1>4, <1>5 DEF RightVectors, msg


\* A router starts with its links, which are the ways to its neighbors.
LEMMA RightStart ==
    ASSUME network \in Networks, Forest, NEW r \in Ports
    PROVE  /\ InitialTable(r)[r] = [cost |-> 0, next_hop |-> NoPort]
           /\ \A id \in {r} \cup Neighbors(r) : InitialTable(r)[id] \in RightRoutes(r, id)
<1>1. InitialTable(r) \in [Ports -> Entry]
  BY InitialType
<1>2. InitialTable(r)[r] = [cost |-> 0, next_hop |-> NoPort]
  BY DEF InitialTable, init_table
<1>3. Far(r, r) = 0
  BY Zenon DEF Far
<1>4. InitialTable(r)[r] \in RightRoutes(r, r)
  BY <1>1, <1>2, <1>3 DEF RightRoutes
<1>5. ASSUME NEW n \in Neighbors(r)
      PROVE  InitialTable(r)[n] \in RightRoutes(r, n)
  <2>1. <<r, n>> \in Links
    BY DEF Neighbors
  <2>2. r # n /\ n \in Ports /\ initial_cost(r)[n] = link_cost[<<r, n>>]
    BY <2>1, LinkBack
  <2>3. InitialTable(r)[n] = [cost |-> initial_cost(r)[n], next_hop |-> n]
    BY <2>2 DEF InitialTable, init_table
  <2>4. Toward(r, n, n) /\ Far(r, n) = link_cost[<<r, n>>]
    BY <2>1, NeighborsAreClose
  <2> QED
    BY <1>1, <2>2, <2>3, <2>4 DEF RightRoutes
<1> QED
  BY <1>2, <1>4, <1>5

LEMMA ForestInit == Init => ForestInv
<1> SUFFICES ASSUME Init, Forest PROVE RightTables /\ RightMessages
  BY TypeInit DEF ForestInv
<1>1. network \in Networks
  BY DEF Init
<1>2. ASSUME NEW r \in Ports
      PROVE  /\ r \in known[r] /\ table[r][r] = [cost |-> 0, next_hop |-> NoPort]
             /\ \A id \in known[r] : table[r][id] \in RightRoutes(r, id)
  <2>1. table[r] = InitialTable(r) /\ known[r] = {r} \cup Neighbors(r)
    BY DEF Init
  <2> QED
    BY <1>1, <2>1, RightStart
<1>3. \A l \in Links : net[l] = <<>>
  BY DEF Init
<1>4. \A l \in Links : DOMAIN net[l] = {}
  BY <1>3
<1> QED
  BY <1>2, <1>4 DEF RightTables, RightMessages

\* A step after which tables and datagrams are right.
LEMMA RightKept ==
    ASSUME TypeInv', network' = network,
           Forest => \A r \in Ports :
                        /\ r \in known'[r]
                        /\ table'[r][r] = [cost |-> 0, next_hop |-> NoPort]
                        /\ \A id \in known'[r] : table'[r][id] \in RightRoutes(r, id),
           Forest => \A l \in Links : \A i \in DOMAIN net'[l] :
                        net'[l][i] \in RightVectors(l[1], l[2])
    PROVE  ForestInv'
<1>1. /\ Forest' <=> Forest
      /\ \A r, id : RightRoutes(r, id)' = RightRoutes(r, id)
      /\ \A n, r : RightVectors(n, r)' = RightVectors(n, r)
      /\ Links' = Links
  BY SameWays, SameNetwork
<1>2. Forest => RightTables'
  BY <1>1 DEF RightTables
<1>3. Forest => RightMessages'
  BY <1>1 DEF RightMessages
<1> QED
  BY <1>1, <1>2, <1>3 DEF ForestInv

\* The datagrams that are left when the oldest is taken from one link.
LEMMA TakenRight ==
    ASSUME TypeInv, RightMessages, NEW l \in Links, net[l] # <<>>,
           net' = [net EXCEPT ![l] = Tail(@)]
    PROVE  /\ Head(net[l]) \in RightVectors(l[1], l[2])
           /\ \A k \in Links : \A i \in DOMAIN net'[k] :
                 net'[k][i] \in RightVectors(k[1], k[2])
<1>1. net \in [Links -> Seq(Vectors)]
  BY DEF TypeInv
<1> DEFINE q == net[l]
<1>2. q \in Seq(Vectors) /\ q # <<>>
  BY <1>1
<1>3. \A i \in DOMAIN q : q[i] \in RightVectors(l[1], l[2])
  BY DEF RightMessages
<1>4. \A k \in Links : k # l => net'[k] = net[k]
  BY <1>1
<1>5. net'[l] = Tail(q)
  BY <1>1
<1> HIDE DEF q
<1>6. Head(q) = q[1] /\ 1 \in DOMAIN q
  BY <1>2
<1>7. \A i \in DOMAIN Tail(q) : i + 1 \in DOMAIN q /\ Tail(q)[i] = q[i + 1]
  BY <1>2
<1>8. \A k \in Links : \A i \in DOMAIN net'[k] : net'[k][i] \in RightVectors(k[1], k[2])
  <2> SUFFICES ASSUME NEW k \in Links, NEW i \in DOMAIN net'[k]
               PROVE  net'[k][i] \in RightVectors(k[1], k[2])
    OBVIOUS
  <2>1. CASE k = l
    BY <1>3, <1>5, <1>7, <2>1
  <2>2. CASE k # l
    BY <1>4, <2>2 DEF RightMessages
  <2> QED
    BY <2>1, <2>2
<1> QED
  BY <1>3, <1>6, <1>8 DEF q

LEMMA ForestTick == ASSUME ForestInv, NEW r \in Ports, Tick(r) PROVE ForestInv'
<1>1. /\ network' = network /\ table' = table /\ known' = known
      /\ net' = [l \in Links |->
                    IF l[1] = r /\ l[2] \in up /\ Len(net[l]) < ChannelBound
                    THEN Append(net[l], vector(table[r], known[r], l[2]))
                    ELSE net[l]]
  BY DEF Tick
<1>2. TypeInv /\ TypeInv'
  BY TickType DEF ForestInv
<1>3. Forest => \A k \in Ports :
                   /\ k \in known'[k]
                   /\ table'[k][k] = [cost |-> 0, next_hop |-> NoPort]
                   /\ \A id \in known'[k] : table'[k][id] \in RightRoutes(k, id)
  BY <1>1 DEF ForestInv, RightTables
<1>4. ASSUME Forest, NEW l \in Links, NEW i \in DOMAIN net'[l]
      PROVE  net'[l][i] \in RightVectors(l[1], l[2])
  <2>1. RightTables /\ RightMessages /\ network \in Networks
    BY <1>2, <1>4 DEF ForestInv, TypeInv, TypeOK
  <2>2. CASE l[1] = r /\ l[2] \in up /\ Len(net[l]) < ChannelBound
    <3> DEFINE q == net[l]
               v == vector(table[r], known[r], l[2])
    <3>1. <<r, l[2]>> \in Links
      BY <2>1, <2>2, LinkType
    <3>2. /\ table[r] \in [Ports -> Entry] /\ known[r] \subseteq Ports
          /\ r \in known[r] /\ table[r][r] = [cost |-> 0, next_hop |-> NoPort]
          /\ \A id \in known[r] : table[r][id] \in RightRoutes(r, id)
      BY <1>2, <2>1 DEF TypeInv, TypeOK, RightTables
    <3>3. v \in RightVectors(l[1], l[2])
      BY <1>4, <2>1, <2>2, <3>1, <3>2, RightVector
    <3>4. net'[l] = Append(q, v)
      BY <1>1, <2>2
    <3>5. q \in Seq(Vectors) /\ \A j \in DOMAIN q : q[j] \in RightVectors(l[1], l[2])
      BY <1>2, <2>1 DEF TypeInv, RightMessages
    <3>6. i \in DOMAIN Append(q, v)
      BY <3>4
    <3> HIDE DEF q, v
    <3>7. i \in DOMAIN q \/ Append(q, v)[i] = v
      BY <3>5, <3>6
    <3>8. i \in DOMAIN q => Append(q, v)[i] = q[i]
      BY <3>5
    <3> QED
      BY <3>3, <3>4, <3>5, <3>7, <3>8
  <2>3. CASE ~(l[1] = r /\ l[2] \in up /\ Len(net[l]) < ChannelBound)
    <3>1. net'[l] = net[l]
      BY <1>1, <2>3
    <3> QED
      BY <1>4, <2>1, <3>1 DEF RightMessages
  <2> QED
    BY <2>2, <2>3
<1> QED
  BY <1>1, <1>2, <1>3, <1>4, RightKept


\* Handling a right datagram changes a right entry into a right one, and none of
\* them is about the router itself.
LEMMA RightPair ==
    ASSUME network \in Networks, Forest, NEW r, NEW n, <<n, r>> \in Links,
           NEW t \in [Ports -> Entry], NEW kn \in SUBSET Ports, NEW new \in SUBSET Ports,
           NEW msg \in RightVectors(n, r), new \subseteq DOMAIN msg,
           r \in kn, t[r] = [cost |-> 0, next_hop |-> NoPort],
           \A id \in kn : t[id] \in RightRoutes(r, id),
           NEW u, u = process_pairs(t, kn, new, n, initial_cost(r)[n], msg)
    PROVE  /\ u[r] = [cost |-> 0, next_hop |-> NoPort]
           /\ \A id \in kn \cup new : u[id] \in RightRoutes(r, id)
<1> DEFINE link == initial_cost(r)[n]
<1>1. /\ r \in Ports /\ n \in Ports /\ r # n /\ <<r, n>> \in Links
      /\ link = link_cost[<<r, n>>] /\ link \in 1..INT_MAX
  <2>1. <<r, n>> \in Links
    BY LinkBack
  <2> QED
    BY <2>1, LinkBack
<1>2. link \in Costs
  BY <1>1, LimitsAssumption DEF Costs
<1>3. msg \in Vectors /\ DOMAIN msg \subseteq Ports
  BY DEF RightVectors, Vectors
<1>4. u \in [Ports -> Entry]
  BY <1>1, <1>2, <1>3, PairsType
<1>5. \A id \in Ports :
        u[id] = IF id \in DOMAIN msg /\ id \in kn
                THEN updated_entry(t[id], id, n, link, msg[id])
                ELSE IF id \in DOMAIN msg /\ id \in new THEN learned_entry(n, link, msg[id])
                ELSE t[id]
  BY DEF process_pairs
<1>6. ASSUME NEW id \in DOMAIN msg, msg[id] # Infinity
      PROVE  RouteVia(n, link, msg[id]) = [cost |-> Far(r, id), next_hop |-> n]
             /\ Toward(r, n, id) /\ r # id
  <2>1. msg[id] = Far(n, id) /\ Toward(r, n, id) /\ id \in Ports
    BY <1>3, <1>6 DEF RightVectors
  <2>2. Add32(link, Far(n, id)) = Far(r, id) /\ r # id
    BY <2>1, CostOfTheWay
  <2> QED
    BY <2>1, <2>2 DEF RouteVia
<1>7. Toward(r, n, n) /\ Far(r, n) = link
  BY <1>1, NeighborsAreClose
<1> HIDE DEF link
<1>8. r \in DOMAIN msg => msg[r] = Infinity
  BY <1>6
<1>9. u[r] = [cost |-> 0, next_hop |-> NoPort]
  <2>1. t[r].next_hop # n
    BY <1>1, PortsAssumption
  <2>2. r \in DOMAIN msg => updated_entry(t[r], r, n, link, msg[r]) = t[r]
    BY <1>1, <1>8, <2>1 DEF updated_entry, other_hop_entry
  <2> QED
    BY <1>1, <1>5, <2>2
<1>10. ASSUME NEW id \in kn \cup new PROVE u[id] \in RightRoutes(r, id)
  <2> DEFINE e == t[id]
  <2>1. id \in Ports /\ u[id] \in Entry
    BY <1>4
  <2>2. CASE id \notin DOMAIN msg
    BY <1>5, <2>1, <2>2
  <2>3. CASE id \in DOMAIN msg /\ id \in kn
    <3>1. u[id] = updated_entry(e, id, n, link, msg[id])
      BY <1>5, <2>1, <2>3
    <3>2. e \in RightRoutes(r, id)
      BY <2>3
    <3> HIDE DEF e
    <3>3. \/ u[id] \in {e, NoRoute}
          \/ id = n /\ u[id] = [cost |-> link, next_hop |-> n]
          \/ msg[id] # Infinity /\ u[id] = RouteVia(n, link, msg[id])
      BY <3>1 DEF updated_entry, direct_entry, same_hop_entry, other_hop_entry
    <3>4. u[id] = NoRoute => u[id] \in RightRoutes(r, id)
      BY <2>1 DEF RightRoutes
    <3>5. id = n /\ u[id] = [cost |-> link, next_hop |-> n] => u[id] \in RightRoutes(r, id)
      BY <1>7, <2>1 DEF RightRoutes
    <3>6. msg[id] # Infinity /\ u[id] = RouteVia(n, link, msg[id]) => u[id] \in RightRoutes(r, id)
      BY <1>6, <2>1, <2>3 DEF RightRoutes
    <3> QED
      BY <3>2, <3>3, <3>4, <3>5, <3>6
  <2>4. CASE id \in DOMAIN msg /\ id \notin kn
    <3>1. u[id] = learned_entry(n, link, msg[id])
      BY <1>5, <2>1, <2>4
    <3>2. CASE msg[id] = Infinity
      BY <2>1, <3>1, <3>2 DEF learned_entry, RightRoutes
    <3>3. CASE msg[id] # Infinity
      <4>1. u[id] = RouteVia(n, link, msg[id])
        BY <3>1, <3>3 DEF learned_entry
      <4> QED
        BY <1>6, <2>1, <2>4, <3>3, <4>1 DEF RightRoutes
    <3> QED
      BY <3>2, <3>3
  <2> QED
    BY <2>2, <2>3, <2>4
<1> QED
  BY <1>9, <1>10


LEMMA ForestReceive ==
    ASSUME ForestInv, NEW r, NEW n, <<n, r>> \in Links, Receive(r, n) PROVE ForestInv'
<1> DEFINE msg == Head(net[<<n, r>>])
<1>1. /\ network' = network /\ net[<<n, r>>] # <<>>
      /\ net' = [net EXCEPT ![<<n, r>>] = Tail(@)]
  BY DEF Receive
<1>2. PICK new \in Admitted(known[r], DOMAIN msg) :
         /\ table' = [table EXCEPT ![r] =
                         process_pairs(@, known[r], new, n, initial_cost(r)[n], msg)]
         /\ known' = [known EXCEPT ![r] = @ \cup new]
  BY DEF Receive
<1>3. TypeInv /\ TypeInv' /\ network \in Networks
  BY ReceiveType DEF ForestInv, TypeInv, TypeOK
<1>4. r \in Ports /\ n \in Ports
  BY <1>3, LinkBack
<1>5. ASSUME Forest
      PROVE  /\ msg \in RightVectors(n, r)
             /\ \A k \in Links : \A i \in DOMAIN net'[k] :
                   net'[k][i] \in RightVectors(k[1], k[2])
  <2>1. RightMessages
    BY <1>5 DEF ForestInv
  <2> DEFINE l == <<n, r>>
  <2>2. l \in Links /\ l[1] = n /\ l[2] = r
    OBVIOUS
  <2>3. net[l] # <<>> /\ net' = [net EXCEPT ![l] = Tail(@)]
    BY <1>1
  <2> HIDE DEF l
  <2>4. /\ Head(net[l]) \in RightVectors(l[1], l[2])
        /\ \A k \in Links : \A i \in DOMAIN net'[k] :
              net'[k][i] \in RightVectors(k[1], k[2])
    BY <1>3, <2>1, <2>2, <2>3, TakenRight
  <2> QED
    BY <2>2, <2>4 DEF l
<1>6. new \subseteq DOMAIN msg
  BY <1>2 DEF Admitted
<1>7. table \in [Ports -> [Ports -> Entry]] /\ known \in [Ports -> SUBSET Ports]
  BY <1>3 DEF TypeInv, TypeOK
<1>8. \A k \in Ports : k # r => table'[k] = table[k] /\ known'[k] = known[k]
  BY <1>2, <1>7
<1> DEFINE u == process_pairs(table[r], known[r], new, n, initial_cost(r)[n], msg)
<1>9. table'[r] = u /\ known'[r] = known[r] \cup new
  BY <1>2, <1>4, <1>7
<1> HIDE DEF msg
<1>10. ASSUME Forest
       PROVE  \A k \in Ports :
                 /\ k \in known'[k] /\ table'[k][k] = [cost |-> 0, next_hop |-> NoPort]
                 /\ \A id \in known'[k] : table'[k][id] \in RightRoutes(k, id)
  <2>1. \A k \in Ports :
           /\ k \in known[k] /\ table[k][k] = [cost |-> 0, next_hop |-> NoPort]
           /\ \A id \in known[k] : table[k][id] \in RightRoutes(k, id)
    BY <1>10 DEF ForestInv, RightTables
  <2>2. msg \in RightVectors(n, r)
    BY <1>5, <1>10
  <2>3. new \in SUBSET Ports
    BY <1>6, <2>2 DEF RightVectors, Vectors
  <2>4. table[r] \in [Ports -> Entry] /\ known[r] \in SUBSET Ports
    BY <1>4, <1>7
  <2>5. /\ r \in known[r] /\ table[r][r] = [cost |-> 0, next_hop |-> NoPort]
        /\ \A id \in known[r] : table[r][id] \in RightRoutes(r, id)
    BY <1>4, <2>1
  <2>6. /\ u[r] = [cost |-> 0, next_hop |-> NoPort]
        /\ \A id \in known[r] \cup new : u[id] \in RightRoutes(r, id)
    <3> DEFINE t == table[r]
               kn == known[r]
    <3>1. t \in [Ports -> Entry] /\ kn \in SUBSET Ports
      BY <2>4
    <3>2. /\ r \in kn /\ t[r] = [cost |-> 0, next_hop |-> NoPort]
          /\ \A id \in kn : t[id] \in RightRoutes(r, id)
      BY <2>5
    <3>3. u = process_pairs(t, kn, new, n, initial_cost(r)[n], msg)
      OBVIOUS
    <3> HIDE DEF t, kn, u
    <3>4. /\ u[r] = [cost |-> 0, next_hop |-> NoPort]
          /\ \A id \in kn \cup new : u[id] \in RightRoutes(r, id)
      BY <1>3, <1>6, <1>10, <2>2, <2>3, <3>1, <3>2, <3>3, RightPair
    <3> QED
      BY <3>4 DEF kn
  <2> HIDE DEF u
  <2>7. ASSUME NEW k \in Ports
        PROVE  /\ k \in known'[k] /\ table'[k][k] = [cost |-> 0, next_hop |-> NoPort]
               /\ \A id \in known'[k] : table'[k][id] \in RightRoutes(k, id)
    <3>1. CASE k = r
      BY <1>9, <2>5, <2>6, <3>1
    <3>2. CASE k # r
      BY <1>8, <2>1, <3>2
    <3> QED
      BY <3>1, <3>2
  <2> QED
    BY <2>7
<1> QED
  BY <1>1, <1>3, <1>5, <1>10, RightKept

LEMMA ForestTimeout ==
    ASSUME ForestInv, NEW r, NEW n, <<r, n>> \in Links, NeighborTimeout(r, n)
    PROVE  ForestInv'
<1>1. /\ network' = network /\ known' = known /\ net' = net
      /\ table' = [table EXCEPT ![r] = purge_neighbor(@, known[r], n)]
  BY DEF NeighborTimeout
<1>2. TypeInv /\ TypeInv' /\ network \in Networks
  BY TimeoutType DEF ForestInv, TypeInv, TypeOK
<1>3. r \in Ports /\ n \in Ports /\ n # NoPort
  BY <1>2, LinkBack, PortsAssumption
<1>4. table \in [Ports -> [Ports -> Entry]] /\ known \in [Ports -> SUBSET Ports]
  BY <1>2 DEF TypeInv, TypeOK
<1>5. \A k \in Ports : k # r => table'[k] = table[k]
  BY <1>1, <1>4
<1>6. \A id \in Ports : table'[r][id] =
         IF id \in known[r] /\ table[r][id].next_hop = n THEN NoRoute ELSE table[r][id]
  BY <1>1, <1>3, <1>4 DEF purge_neighbor
<1>7. \A k, id : NoRoute \in RightRoutes(k, id)
  BY LimitsAssumption DEF RightRoutes, NoRoute, Infinity, Entry, Costs
<1>8. ASSUME Forest, NEW k \in Ports
      PROVE  /\ k \in known'[k] /\ table'[k][k] = [cost |-> 0, next_hop |-> NoPort]
             /\ \A id \in known'[k] : table'[k][id] \in RightRoutes(k, id)
  <2>1. /\ k \in known[k] /\ table[k][k] = [cost |-> 0, next_hop |-> NoPort]
        /\ \A id \in known[k] : table[k][id] \in RightRoutes(k, id)
    BY <1>8 DEF ForestInv, RightTables
  <2>2. known[k] \subseteq Ports /\ known'[k] = known[k]
    BY <1>1, <1>4
  <2>3. CASE k # r
    BY <1>5, <2>1, <2>2, <2>3
  <2>4. CASE k = r
    <3>1. table[r][r].next_hop # n
      BY <1>3, <2>1, <2>4
    <3> QED
      BY <1>3, <1>6, <1>7, <2>1, <2>2, <2>4, <3>1
  <2> QED
    BY <2>3, <2>4
<1>9. Forest => \A l \in Links : \A i \in DOMAIN net'[l] :
                   net'[l][i] \in RightVectors(l[1], l[2])
  BY <1>1 DEF ForestInv, RightMessages
<1> QED
  BY <1>1, <1>2, <1>8, <1>9, RightKept

LEMMA ForestCrash == ASSUME ForestInv, NEW r \in Ports, Crash(r) PROVE ForestInv'
<1>1. /\ network' = network
      /\ table' = [table EXCEPT ![r] = InitialTable(r)]
      /\ known' = [known EXCEPT ![r] = {r} \cup Neighbors(r)]
      /\ net' = [l \in Links |-> IF l[2] = r THEN <<>> ELSE net[l]]
  BY DEF Crash
<1>2. TypeInv /\ TypeInv' /\ network \in Networks
  BY CrashType DEF ForestInv, TypeInv, TypeOK
<1>3. table \in [Ports -> [Ports -> Entry]] /\ known \in [Ports -> SUBSET Ports]
  BY <1>2 DEF TypeInv, TypeOK
<1>4. \A k \in Ports : k # r => table'[k] = table[k] /\ known'[k] = known[k]
  BY <1>1, <1>3
<1>5. table'[r] = InitialTable(r) /\ known'[r] = {r} \cup Neighbors(r)
  BY <1>1, <1>3
<1>6. ASSUME Forest, NEW k \in Ports
      PROVE  /\ k \in known'[k] /\ table'[k][k] = [cost |-> 0, next_hop |-> NoPort]
             /\ \A id \in known'[k] : table'[k][id] \in RightRoutes(k, id)
  <2>1. CASE k = r
    <3>1. /\ InitialTable(r)[r] = [cost |-> 0, next_hop |-> NoPort]
          /\ \A id \in {r} \cup Neighbors(r) : InitialTable(r)[id] \in RightRoutes(r, id)
      BY <1>2, <1>6, RightStart
    <3> QED
      BY <1>5, <2>1, <3>1
  <2>2. CASE k # r
    BY <1>4, <1>6, <2>2 DEF ForestInv, RightTables
  <2> QED
    BY <2>1, <2>2
<1>7. ASSUME Forest, NEW l \in Links, NEW i \in DOMAIN net'[l]
      PROVE  net'[l][i] \in RightVectors(l[1], l[2])
  <2>1. net'[l] = IF l[2] = r THEN <<>> ELSE net[l]
    BY <1>1
  <2>2. DOMAIN <<>> = {}
    OBVIOUS
  <2>3. net'[l] = net[l]
    BY <1>7, <2>1, <2>2
  <2> QED
    BY <1>7, <2>3 DEF ForestInv, RightMessages
<1> QED
  BY <1>1, <1>2, <1>6, <1>7, RightKept

LEMMA ForestLose == ASSUME ForestInv, NEW l \in Links, Lose(l) PROVE ForestInv'
<1>1. /\ network' = network /\ table' = table /\ known' = known
      /\ net[l] # <<>> /\ net' = [net EXCEPT ![l] = Tail(@)]
  BY DEF Lose
<1>2. TypeInv /\ TypeInv'
  BY LoseType DEF ForestInv
<1>3. Forest => \A k \in Ports :
                   /\ k \in known'[k]
                   /\ table'[k][k] = [cost |-> 0, next_hop |-> NoPort]
                   /\ \A id \in known'[k] : table'[k][id] \in RightRoutes(k, id)
  BY <1>1 DEF ForestInv, RightTables
<1>4. Forest => \A k \in Links : \A i \in DOMAIN net'[k] :
                   net'[k][i] \in RightVectors(k[1], k[2])
  BY <1>1, <1>2, TakenRight DEF ForestInv
<1> QED
  BY <1>1, <1>2, <1>3, <1>4, RightKept

LEMMA ForestStep == ForestInv /\ [Next]_vars => ForestInv'
<1> SUFFICES ASSUME ForestInv, [Next]_vars PROVE ForestInv'
  OBVIOUS
<1>1. ASSUME NEW r \in Ports, Tick(r) PROVE ForestInv'
  BY <1>1, ForestTick
<1>2. ASSUME NEW r \in Ports, Crash(r) PROVE ForestInv'
  BY <1>2, ForestCrash
<1>3. ASSUME network' = network /\ table' = table /\ known' = known /\ net' = net
      PROVE  ForestInv'
  <2>1. TypeInv'
    BY TypeStep DEF ForestInv
  <2> QED
    BY <1>3, <2>1, RightKept DEF ForestInv, RightTables, RightMessages
<1>4. ASSUME NEW r \in Ports, Restart(r) PROVE ForestInv'
  BY <1>3, <1>4 DEF Restart
<1>5. ASSUME NEW l \in Links, Receive(l[2], l[1]) \/ NeighborTimeout(l[1], l[2])
      PROVE  ForestInv'
  <2>1. <<l[1], l[2]>> \in Links
    BY LinkType DEF ForestInv, TypeInv, TypeOK
  <2> QED
    BY <1>5, <2>1, ForestReceive, ForestTimeout
<1>6. ASSUME NEW l \in Links, Lose(l) PROVE ForestInv'
  BY <1>6, ForestLose
<1>7. CASE UNCHANGED vars
  BY <1>3, <1>7 DEF vars
<1> QED
  BY <1>1, <1>2, <1>4, <1>5, <1>6, <1>7 DEF Next

\* The inductive invariant: tables and datagrams are those of the only ways.
THEOREM Invariance == Spec => []ForestInv
<1> QED
  BY ForestInit, ForestStep, PTL DEF Spec


\* A router that is not listed has no route, in any network.
Unlisted == \A r \in Ports : \A id \in Ports \ known[r] : table[r][id] = BlankEntry

LEMMA UnlistedStart ==
    ASSUME NEW r \in Ports, NEW id \in Ports \ ({r} \cup Neighbors(r))
    PROVE  InitialTable(r)[id] = BlankEntry
  BY DEF InitialTable, init_table

LEMMA UnlistedInit == Init => Unlisted
  BY UnlistedStart DEF Init, Unlisted

LEMMA UnlistedStep == TypeInv /\ Unlisted /\ [Next]_vars => Unlisted'
<1> SUFFICES ASSUME TypeInv, Unlisted, [Next]_vars PROVE Unlisted'
  OBVIOUS
<1>1. table \in [Ports -> [Ports -> Entry]] /\ known \in [Ports -> SUBSET Ports]
  BY DEF TypeInv, TypeOK
<1>2. ASSUME network' = network /\ table' = table /\ known' = known PROVE Unlisted'
  BY <1>2 DEF Unlisted
<1>3. ASSUME NEW r \in Ports, Tick(r) \/ Restart(r) PROVE Unlisted'
  BY <1>2, <1>3 DEF Tick, Restart
<1>4. ASSUME NEW r \in Ports, Crash(r) PROVE Unlisted'
  <2>1. /\ table' = [table EXCEPT ![r] = InitialTable(r)]
        /\ known' = [known EXCEPT ![r] = {r} \cup Neighbors(r)]
    BY <1>4 DEF Crash
  <2>2. ASSUME NEW k \in Ports, NEW id \in Ports \ known'[k]
        PROVE  table'[k][id] = BlankEntry
    <3>1. CASE k = r
      <4>1. table'[k] = InitialTable(r) /\ known'[k] = {r} \cup Neighbors(r)
        BY <1>1, <2>1, <3>1
      <4> QED
        BY <2>2, <4>1, UnlistedStart
    <3>2. CASE k # r
      BY <1>1, <2>1, <2>2, <3>2 DEF Unlisted
    <3> QED
      BY <3>1, <3>2
  <2> QED
    BY <2>2 DEF Unlisted
<1>5. ASSUME NEW r, NEW n, Receive(r, n), r \in Ports PROVE Unlisted'
  <2> DEFINE msg == Head(net[<<n, r>>])
  <2>1. PICK new \in Admitted(known[r], DOMAIN msg) :
           /\ table' = [table EXCEPT ![r] =
                           process_pairs(@, known[r], new, n, initial_cost(r)[n], msg)]
           /\ known' = [known EXCEPT ![r] = @ \cup new]
    BY <1>5 DEF Receive
  <2> HIDE DEF msg
  <2>2. ASSUME NEW k \in Ports, NEW id \in Ports \ known'[k]
        PROVE  table'[k][id] = BlankEntry
    <3>1. id \notin known[k] /\ table[k][id] = BlankEntry
      BY <1>1, <1>5, <2>1 DEF Unlisted
    <3>2. CASE k = r
      <4>1. known'[r] = known[r] \cup new
        BY <1>1, <1>5, <2>1
      <4>2. id \notin new /\ id \notin known[r]
        BY <2>2, <3>1, <3>2, <4>1
      <4>3. table'[r][id] = table[r][id]
        BY <1>1, <1>5, <2>1, <4>2 DEF process_pairs
      <4> QED
        BY <3>1, <3>2, <4>3
    <3>3. CASE k # r
      BY <1>1, <2>1, <3>1, <3>3
    <3> QED
      BY <3>2, <3>3
  <2> QED
    BY <2>2 DEF Unlisted
<1>6. ASSUME NEW r, NEW n, NeighborTimeout(r, n), r \in Ports PROVE Unlisted'
  <2>1. known' = known /\ table' = [table EXCEPT ![r] = purge_neighbor(@, known[r], n)]
    BY <1>6 DEF NeighborTimeout
  <2> QED
    BY <1>1, <1>6, <2>1 DEF Unlisted, purge_neighbor
<1>7. ASSUME NEW l \in Links, Receive(l[2], l[1]) \/ NeighborTimeout(l[1], l[2]) \/ Lose(l)
      PROVE  Unlisted'
  <2>1. l[1] \in Ports /\ l[2] \in Ports
    BY LinkType DEF TypeInv, TypeOK
  <2>2. CASE Lose(l)
    BY <1>2, <2>2 DEF Lose
  <2> QED
    BY <1>5, <1>6, <1>7, <2>1, <2>2
<1>8. CASE UNCHANGED vars
  BY <1>2, <1>8 DEF vars
<1> QED
  BY <1>3, <1>4, <1>7, <1>8 DEF Next

-----------------------------------------------------------------------------
(* What follows for networks without cycles.                               *)

\* In a network without cycles no router ever takes another route than the only
\* one there is, or believes in another cost of it, whatever is lost, late or out of
\* date and however often routers crash and start again (told_cost, purge_neighbor
\* and process_distance_pair in router.c).
THEOREM OnlyWays == Spec => []RoutesTakeTheOnlyWay
<1>1. ForestInv => RoutesTakeTheOnlyWay
  BY DEF ForestInv, RightTables, RightRoutes, RoutesTakeTheOnlyWay
<1> QED
  BY <1>1, Invariance, PTL

\* There, what the theorems about one router assume of the datagrams it gets is true:
\* a sender is in its own datagrams at cost 0, and no cost in them overflows when the
\* link is added (handle_received_data).
THEOREM HonestWithoutCycles == Spec => [](Forest => MessagesHonest)
<1>1. ASSUME ForestInv, Forest PROVE MessagesHonest
  <2>1. RightMessages /\ TypeInv /\ network \in Networks
    BY <1>1 DEF ForestInv, TypeInv, TypeOK
  <2>2. ASSUME NEW l \in Links, NEW i \in DOMAIN net[l]
        PROVE  /\ l[1] \in DOMAIN net[l][i] /\ net[l][i][l[1]] = 0
               /\ \A id \in DOMAIN net[l][i] :
                     \/ net[l][i][id] = Infinity
                     \/ net[l][i][id] \in 0..(INT_MAX - link_cost[l])
    <3> DEFINE msg == net[l][i]
    <3>1. msg \in RightVectors(l[1], l[2])
      BY <2>1 DEF RightMessages
    <3> HIDE DEF msg
    <3>2. l[1] \in DOMAIN msg /\ msg[l[1]] = 0 /\ DOMAIN msg \subseteq Ports
      BY <3>1 DEF RightVectors, Vectors
    <3>3. l = <<l[1], l[2]>>
      BY <2>1, LinkType
    <3>4. ASSUME NEW id \in DOMAIN msg, msg[id] # Infinity
          PROVE  msg[id] \in 0..(INT_MAX - link_cost[l])
      <4>1. msg[id] = Far(l[1], id) /\ Toward(l[2], l[1], id) /\ id \in Ports
        BY <3>1, <3>2, <3>4 DEF RightVectors
      <4>2. <<l[1], l[2]>> \in Links /\ link_cost[<<l[1], l[2]>>] = link_cost[l]
        BY <3>3
      <4>3. Far(l[1], id) \in 0..(INT_MAX - link_cost[<<l[1], l[2]>>])
        BY <1>1, <2>1, <4>1, <4>2, CostOfTheWay
      <4> QED
        BY <4>1, <4>2, <4>3
    <3> QED
      BY <3>2, <3>4 DEF msg
  <2> QED
    BY <2>2 DEF MessagesHonest
<1> QED
  BY <1>1, Invariance, PTL

\* Whoever a router sends to is closer to the destination: no routes form a loop.
HopsAreCloser ==
    \A r, n, d \in Ports :
        table[r][d].next_hop = n =>
            Far(r, d) \in 0..INT_MAX /\ Far(n, d) \in 0..INT_MAX /\ Far(n, d) < Far(r, d)

LEMMA OnlyWaysLeadCloser ==
    ASSUME ForestInv, Unlisted, Forest
    PROVE  HopsAreCloser
<1> SUFFICES ASSUME NEW r \in Ports, NEW n \in Ports, NEW d \in Ports,
                    table[r][d].next_hop = n
             PROVE  /\ Far(r, d) \in 0..INT_MAX /\ Far(n, d) \in 0..INT_MAX
                    /\ Far(n, d) < Far(r, d)
  BY DEF HopsAreCloser
<1>1. RightTables /\ network \in Networks
  BY DEF ForestInv, TypeInv, TypeOK
<1>2. Toward(r, n, d)
  <2> DEFINE e == table[r][d]
  <2>1. n # NoPort
    BY PortsAssumption
  <2>2. d \in known[r] /\ r # d
    BY <1>1, <2>1 DEF Unlisted, BlankEntry, RightTables
  <2>3. e \in RightRoutes(r, d) /\ e.next_hop = n
    BY <1>1, <2>2 DEF RightTables
  <2> HIDE DEF e
  <2>4. e # NoRoute
    BY <2>1, <2>3 DEF NoRoute
  <2> QED
    BY <2>2, <2>3, <2>4 DEF RightRoutes
<1>3. <<r, n>> \in Links /\ Far(r, d) = link_cost[<<r, n>>] + Far(n, d)
  BY <1>2 DEF Toward
<1>4. link_cost[<<r, n>>] \in 1..INT_MAX
  BY <1>1, <1>3, LinkBack
<1>5. Far(r, d) \in 0..INT_MAX /\ Far(n, d) \in 0..INT_MAX
  BY <1>2 DEF Forest, Toward
<1> QED
  BY <1>3, <1>4, <1>5

\* In a network without cycles routes never form a loop, of two routers or of more,
\* not even for a while, and whether or not anybody is scheduled fairly: it is what
\* announcing infinity to the next hop is for (told_cost).  With cycles only
\* TwoLoopsDissolve is left of it.
THEOREM NeverLoops == Spec /\ Forest => []HopsAreCloser /\ TwoLoopsDissolve
<1>1. Init /\ Forest => ForestInv /\ Unlisted /\ Forest
  BY ForestInit, UnlistedInit
<1>2. ForestInv /\ Unlisted /\ Forest /\ [Next]_vars => (ForestInv /\ Unlisted /\ Forest)'
  <2> SUFFICES ASSUME ForestInv, Unlisted, Forest, [Next]_vars
               PROVE  ForestInv' /\ Unlisted' /\ Forest'
    OBVIOUS
  <2>1. ForestInv' /\ Unlisted'
    BY ForestStep, UnlistedStep DEF ForestInv
  <2>2. network' = network
    BY DEF Next, vars, Tick, Crash, Restart, Receive, NeighborTimeout, Lose
  <2> QED
    BY <2>1, <2>2, SameWays
<1>3. ForestInv /\ Unlisted /\ Forest => HopsAreCloser
  BY OnlyWaysLeadCloser
<1>4. Spec /\ Forest => []HopsAreCloser
  BY <1>1, <1>2, <1>3, PTL DEF Spec
<1>5. ASSUME NEW x \in Ports, NEW y \in Ports, NEW d \in Ports
      PROVE  []HopsAreCloser
               => []<>~(table[x][d].next_hop = y /\ table[y][d].next_hop = x)
  <2>1. ASSUME HopsAreCloser, table[x][d].next_hop = y, table[y][d].next_hop = x
        PROVE  FALSE
    <3>1. /\ Far(x, d) \in 0..INT_MAX /\ Far(y, d) \in 0..INT_MAX
          /\ Far(y, d) < Far(x, d) /\ Far(x, d) < Far(y, d)
      BY <2>1 DEF HopsAreCloser
    <3> QED
      BY <3>1
  <2>2. HopsAreCloser => ~(table[x][d].next_hop = y /\ table[y][d].next_hop = x)
    BY <2>1
  <2> QED
    BY <2>2, PTL
<1> QED
  BY <1>4, <1>5 DEF TwoLoopsDissolve
=============================================================================
