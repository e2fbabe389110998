------------------------ MODULE RouterHistoryProofs ------------------------
(***************************************************************************)
(* The table agrees with what the next hops last announced, for every      *)
(* configuration whose costs are honest.                                   *)
(***************************************************************************)
EXTENDS RouterHistory, RouterProofs

\* RouteIsLastHeard is inductive together with what RouterProofs shows: a next
\* hop is a sender, and the costs and next hops of the table are consistent.
HeardInv ==
    /\ ConsistentInv
    /\ LiveInv
    /\ heard \in [Senders -> [Ports -> Costs]]
    /\ RouteIsLastHeard

\* The claim of RouteIsLastHeard about one entry e of the port id.
AgreesWith(e, id, h) ==
    LET w == e.next_hop IN
    w # NoPort =>
        IF id = w
        THEN e.cost = initial_cost[w]
        ELSE h[w][id] # Infinity /\ e.cost = initial_cost[w] + h[w][id]

\* One message: every listed entry agrees with the announcements, this message's
\* included.
LEMMA PairsAgree ==
    ASSUME HonestCosts, HeardInv, NEW d \in Datagrams,
           NEW new \in SUBSET DOMAIN d.body, NEW id \in known \cup new, id \in Ports
    PROVE  AgreesWith(process_pairs(table, known, new, d.from, initial_cost[d.from], d.body)[id],
                      id, Announced(d.from, d.body))
<1> DEFINE n == d.from
           link == initial_cost[n]
           e == process_pairs(table, known, new, n, link, d.body)[id]
           h == Announced(n, d.body)
           dw == d.body[id]
<1>1. n \in Senders /\ n # NoPort /\ link \in Nat
  <2>1. n \in Senders
    BY DatagramsAssumption DEF IsDatagram
  <2> QED
    BY <2>1, SendersType, PortsAssumption, ConfigAssumption DEF HonestCosts, Senders
<1>2. table \in [Ports -> Entry] /\ heard \in [Senders -> [Ports -> Costs]]
  BY DEF HeardInv, ConsistentInv, TypeInv, TypeOK
<1>3. /\ \A w \in Senders : w # n => h[w][id] = heard[w][id]
      /\ h[n][id] = IF id \in DOMAIN d.body THEN dw ELSE heard[n][id]
  BY <1>1, <1>2 DEF Announced
<1>4. id \in known /\ table[id].next_hop # NoPort => table[id].next_hop \in Senders
  BY DEF HeardInv, LiveInv, RoutesUseLiveLinks
<1>5. id \in known => AgreesWith(table[id], id, heard)
  BY DEF HeardInv, RouteIsLastHeard, AgreesWith
<1>6. CASE id \notin DOMAIN d.body
  <2>1. e = table[id] /\ id \in known
    BY <1>2, <1>6 DEF process_pairs
  <2> QED
    BY <1>3, <1>4, <1>5, <1>6, <2>1 DEF AgreesWith
<1>7. CASE id \in DOMAIN d.body
  <2>1. dw # Infinity => Add32(link, dw) = link + dw /\ (id = n => dw = 0)
    BY <1>7, HonestSum
  <2>2. dw # Infinity => AgreesWith(RouteVia(n, link, dw), id, h)
    BY <1>1, <1>3, <1>7, <2>1 DEF AgreesWith, RouteVia
  <2>3. AgreesWith(NoRoute, id, h)
    BY DEF AgreesWith, NoRoute
  <2>4. CASE id \notin known
    <3>1. e = learned_entry(n, link, dw)
      BY <1>2, <1>7, <2>4 DEF process_pairs
    <3> QED
      BY <2>2, <2>3, <3>1 DEF learned_entry
  <2>5. CASE id \in known
    <3>1. e = updated_entry(table[id], id, n, link, dw)
      BY <1>2, <1>7, <2>5 DEF process_pairs
    <3>2. table[id].next_hop # n \/ id = n => AgreesWith(table[id], id, h)
      BY <1>3, <1>4, <1>5, <2>5 DEF AgreesWith
    <3>3. id = n => AgreesWith([cost |-> link, next_hop |-> n], id, h)
      BY DEF AgreesWith
    <3> QED
      BY <2>2, <2>3, <3>1, <3>2, <3>3
         DEF updated_entry, direct_entry, same_hop_entry, other_hop_entry
  <2> QED
    BY <2>4, <2>5
<1> QED
  BY <1>6, <1>7

\* Only the handler of a message can take main back to the head of its loop when
\* a message is next in the queue.
LEMMA HearingStep ==
    ASSUME [Next]_vars, NEW n, Hearing(n), pc' = "loop"
    PROVE  MsgReceived
<1>1. pc = "handle" /\ running /\ Head(cq).type = "MSG_RECEIVED"
  BY DEF Hearing
<1>2. /\ ~UringInit /\ ~FirstSend /\ ~CheckRunning /\ ~WaitCqe /\ ~WakeUp /\ ~BreakLoop
      /\ ~FollowNull /\ ~GlobalTimeout /\ ~NeighborTimeout /\ ~RearmTimer /\ ~MsgSent
  BY <1>1 DEF UringInit, FirstSend, CheckRunning, WaitCqe, WakeUp, BreakLoop, FollowNull,
              GlobalTimeout, NeighborTimeout, RearmTimer, MsgSent, Handling
<1>3. /\ ~Kernel /\ ~(\E d \in Datagrams : Deliver(d)) /\ ~Sigint /\ ~WaitFails
      /\ ~UNCHANGED vars
  BY <1>1 DEF Kernel, CompleteReceive, TimerExpires, TimerPosts, GlobalTimerFires, Deliver,
              Sigint, WaitFails, vars, process
<1> QED
  BY <1>2, <1>3 DEF Next, Main, Handlers, Exited

LEMMA HeardInit == ASSUME HonestCosts PROVE HInit => HeardInv
<1> SUFFICES ASSUME HInit PROVE HeardInv
  OBVIOUS
<1>1. ConsistentInv /\ LiveInv
  BY ConsistentInit, LiveInit DEF HInit
<1>2. heard \in [Senders -> [Ports -> Costs]]
  BY LimitsAssumption DEF HInit, Infinity, Costs
<1>3. ASSUME NEW id \in known
      PROVE  AgreesWith(table[id], id, heard)
  <2>1. CASE id = Self
    BY <1>1, <2>1 DEF ConsistentInv, RouteConsistency, AgreesWith
  <2>2. CASE id # Self
    <3>1. id \in Neighbors /\ id \in Ports
      BY <2>2, SendersType DEF HInit, Init
    <3>2. table[id] = [cost |-> initial_cost[id], next_hop |-> id]
      BY <2>2, <3>1 DEF HInit, Init, init_table
    <3> QED
      BY <3>2 DEF AgreesWith
  <2> QED
    BY <2>1, <2>2
<1> QED
  BY <1>1, <1>2, <1>3 DEF HeardInv, RouteIsLastHeard, AgreesWith

LEMMA HeardStep == ASSUME HonestCosts PROVE HeardInv /\ [HNext]_hvars => HeardInv'
<1> SUFFICES ASSUME HeardInv, [HNext]_hvars PROVE HeardInv'
  OBVIOUS
<1>1. [Next]_vars
  BY DEF HNext, hvars
<1>2. /\ ConsistentInv' /\ LiveInv' /\ TypeInv
  BY <1>1, ConsistentStep, LiveStep DEF HeardInv, LiveInv
<1>3. heard' = heard \/ (Hearing(msginfo.from) /\ pc' = "loop"
                        /\ heard' = Announced(msginfo.from, msginfo.body))
  BY DEF HNext, hvars
<1>4. CASE UNCHANGED <<table, known, down>> /\ heard' = heard
  BY <1>2, <1>4 DEF HeardInv, RouteIsLastHeard
<1>5. CASE MsgReceived /\ Head(cq).res # "error"
  <2>1. /\ msginfo \in Datagrams /\ msginfo.from \in Senders
        /\ IsDatagram(msginfo) /\ Head(cq).res = "ok"
    BY <1>2, <1>5, ReceiveOk
  <2>2. PICK new \in Admitted(known, DOMAIN msginfo.body) :
          /\ known' = known \cup new
          /\ table' = process_pairs(table, known, new, msginfo.from,
                                    initial_cost[msginfo.from], msginfo.body)
    BY <1>2, <1>5, ReceiveOk
  <2>3. new \in SUBSET DOMAIN msginfo.body /\ known' \subseteq Ports
    BY <1>2, <2>2 DEF Admitted, LiveInv, TypeInv, TypeOK
  <2>4. Hearing(msginfo.from) /\ pc' = "loop" /\ pc # "loop"
    BY <1>5, <2>1 DEF MsgReceived, Handling, Hearing
  <2>5. heard' = Announced(msginfo.from, msginfo.body)
    BY <2>4 DEF HNext, hvars, vars, process
  <2>6. heard' \in [Senders -> [Ports -> Costs]]
    BY <2>1, <2>5 DEF Announced, IsDatagram, HeardInv
  <2>7. ASSUME NEW id \in known'
        PROVE  AgreesWith(table'[id], id, heard')
    BY <2>1, <2>2, <2>3, <2>5, PairsAgree
  <2> QED
    BY <1>2, <2>6, <2>7 DEF HeardInv, RouteIsLastHeard, AgreesWith
<1>6. CASE NeighborTimeout /\ ~UNCHANGED <<table, known, down>>
  <2>1. heard' = heard
    BY <1>3, <1>6 DEF NeighborTimeout, Handling, Hearing
  <2>2. PICK n \in Senders : table' = purge_neighbor(table, known, n)
    BY <1>2, <1>6, TimeoutEffect
  <2>3. known' = known /\ known \subseteq Ports /\ table \in [Ports -> Entry]
    BY <1>2, <1>6, TimeoutEffect DEF TypeInv, TypeOK
  <2>4. ASSUME NEW id \in known
        PROVE  table'[id] = table[id] \/ table'[id].next_hop = NoPort
    BY <2>2, <2>3 DEF purge_neighbor, NoRoute
  <2> QED
    BY <1>2, <2>1, <2>3, <2>4 DEF HeardInv, RouteIsLastHeard
<1>7. CASE ~UNCHANGED <<table, known, down>> \/ heard' # heard
  <2>1. CASE ~UNCHANGED <<table, known, down>>
    <3>1. MsgReceived => Head(cq).res # "error"
      BY <2>1 DEF MsgReceived
    <3> QED
      BY <1>1, <1>5, <1>6, <2>1, <3>1, RoutingSteps
  <2>2. CASE heard' # heard
    <3>1. MsgReceived /\ Head(cq).res # "error"
      BY <1>1, <1>3, <2>2, HearingStep DEF Hearing
    <3> QED
      BY <1>5, <3>1
  <2> QED
    BY <1>7, <2>1, <2>2
<1> QED
  BY <1>4, <1>7

\* With honest costs every route costs the link to its next hop plus what that
\* next hop announced last, whatever messages and timeouts came in between.
THEOREM RoutesAreLastHeard ==
    ASSUME HonestCosts PROVE HSpec => []RouteIsLastHeard
<1>1. HeardInv => RouteIsLastHeard
  BY DEF HeardInv
<1> QED
  BY <1>1, HeardInit, HeardStep, PTL DEF HSpec

-----------------------------------------------------------------------------
(* The table implements one that keeps announcements instead of costs.      *)

\* A listed route costs what RouteTable works out for it.
LEMMA StoredCost ==
    ASSUME HeardInv, NEW id \in known, table[id].next_hop # NoPort
    PROVE  table[id].cost = Promise!Cost(heard, table[id].next_hop, id)
  BY DEF HeardInv, RouteIsLastHeard, Promise!Cost, Infinity, Promise!Infinity

\* The next hop that one message leaves for id is the one RouteTable chooses.
LEMMA PairsChoose ==
    ASSUME HonestCosts, HeardInv, NEW d \in Datagrams,
           NEW new \in SUBSET (DOMAIN d.body \ known), NEW id \in Ports
    PROVE  LET n == d.from
               h == Announced(n, d.body)
               e == process_pairs(table, known, new, n, initial_cost[n], d.body)[id]
               said == id \in DOMAIN d.body /\ id # Self /\ id \in known \cup new
           IN  e.next_hop = CASE said /\ table[id].next_hop = n
                                 /\ Promise!Cost(h, n, id) = Promise!Infinity -> NoPort
                              [] said /\ table[id].next_hop # n /\ Promise!Better(h, n, id) -> n
                              [] OTHER -> table[id].next_hop
<1> DEFINE n == d.from
           link == initial_cost[n]
           h == Announced(n, d.body)
           e == process_pairs(table, known, new, n, link, d.body)[id]
           dw == d.body[id]
           hop == table[id].next_hop
           said == id \in DOMAIN d.body /\ id # Self /\ id \in known \cup new
<1>1. /\ n \in Senders /\ n # NoPort /\ n # Self /\ link \in Nat
      /\ table \in [Ports -> Entry] /\ heard \in [Senders -> [Ports -> Costs]]
  BY DatagramsAssumption, SendersType, PortsAssumption, ConfigAssumption
     DEF IsDatagram, HonestCosts, Senders, HeardInv, ConsistentInv, TypeInv, TypeOK
<1>2. /\ \A w \in Senders : w # n => h[w][id] = heard[w][id]
      /\ id \in DOMAIN d.body => h[n][id] = dw
  BY <1>1 DEF Announced
<1>3. Promise!Better(h, n, id) <=>
        /\ Promise!Cost(h, n, id) # Infinity
        /\ hop # NoPort => Promise!Cost(h, n, id) < Promise!Cost(h, hop, id)
  BY DEF Promise!Better, Infinity, Promise!Infinity
<1>4. CASE ~said
  <2>1. id = Self => Self \in known /\ Self \notin new /\ (Self \in known \cup new => e = table[Self])
    BY PairsConsistent DEF HeardInv, ConsistentInv
  <2>2. e = table[id]
    BY <1>1, <1>4, <2>1 DEF process_pairs
  <2> QED
    BY <1>4, <2>2
<1>5. CASE said
  <2>1. /\ dw # Infinity => dw \in Nat /\ Add32(link, dw) = link + dw
        /\ id = n => dw = 0
    BY <1>1, <1>5, HonestSum DEF HonestCosts, Infinity
  <2>2. Promise!Cost(h, n, id) = IF dw = Infinity THEN Infinity ELSE link + dw
    BY <1>1, <1>2, <1>5, <2>1 DEF Promise!Cost, Infinity, Promise!Infinity
  <2>3. CASE id \in new
    <3>1. hop = NoPort
      BY <2>3 DEF HeardInv, LiveInv
    <3>2. e = learned_entry(n, link, dw)
      BY <1>1, <1>5, <2>3 DEF process_pairs
    <3>3. e.next_hop = IF dw = Infinity THEN NoPort ELSE n
      BY <3>2 DEF learned_entry, NoRoute, RouteVia
    <3> QED
      BY <1>1, <1>3, <1>5, <2>1, <2>2, <3>1, <3>3 DEF Infinity, Promise!Infinity
  <2>4. CASE id \in known
    <3>1. e = updated_entry(table[id], id, n, link, dw)
      BY <1>1, <1>5, <2>4 DEF process_pairs
    <3>2. hop # NoPort => hop \in Senders /\ table[id].cost = Promise!Cost(heard, hop, id)
      BY <2>4, StoredCost DEF HeardInv, LiveInv, RoutesUseLiveLinks
    <3>3. hop # NoPort /\ hop # n => table[id].cost = Promise!Cost(h, hop, id)
      BY <1>2, <3>2 DEF Promise!Cost
    <3>4. table[id].cost = Infinity <=> hop = NoPort
      BY <1>5, <2>4 DEF HeardInv, ConsistentInv, RouteConsistency
    <3>5. table[id].cost \in Int
      BY <1>1 DEF Entry, Costs
    <3>6. CASE hop = n
      <4>1. e.next_hop = IF dw = Infinity THEN NoPort ELSE n
        <5>1. id = n => dw # Infinity /\ e.next_hop = n
          BY <2>1, <3>1, <3>6 DEF updated_entry, direct_entry, Infinity
        <5>2. id # n => e = same_hop_entry(table[id], n, link, dw)
          BY <3>1, <3>6 DEF updated_entry
        <5> QED
          BY <5>1, <5>2 DEF same_hop_entry, NoRoute, RouteVia
      <4> QED
        BY <1>1, <1>5, <2>1, <2>2, <3>6, <4>1 DEF Infinity, Promise!Infinity
    <3>7. CASE hop # n
      <4> DEFINE better == /\ dw # Infinity
                           /\ table[id].cost = Infinity \/ table[id].cost > link + dw
      <4>1. e.next_hop = IF better THEN n ELSE hop
        <5>1. id = n => e = direct_entry(table[id], n, link)
          BY <3>1 DEF updated_entry
        <5>2. id # n => e = other_hop_entry(table[id], n, link, dw)
          BY <3>1, <3>7 DEF updated_entry
        <5> QED
          BY <1>1, <2>1, <5>1, <5>2 DEF direct_entry, other_hop_entry, RouteVia, Infinity
      <4>2. Promise!Better(h, n, id) <=> better
        BY <1>1, <1>3, <2>1, <2>2, <3>3, <3>4, <3>5, <3>7 DEF Infinity
      <4> QED
        BY <1>5, <3>7, <4>1, <4>2
    <3> QED
      BY <3>6, <3>7
  <2> QED
    BY <1>5, <2>3, <2>4
<1> QED
  BY <1>4, <1>5

LEMMA ImplementInit == HInit => Promise!Init
<1> SUFFICES ASSUME HInit PROVE Promise!Init
  OBVIOUS
<1>1. ASSUME NEW id \in Ports
      PROVE  table[id].next_hop = IF id \in Neighbors THEN id ELSE NoPort
  BY SendersType DEF HInit, Init, init_table, BlankEntry
<1> QED
  BY <1>1 DEF HInit, Init, Promise!Init, Infinity, Promise!Infinity

LEMMA ImplementStep ==
    ASSUME HonestCosts PROVE HeardInv /\ [HNext]_hvars => [Promise!Next]_(Promise!vars)
<1> SUFFICES ASSUME HeardInv, [HNext]_hvars PROVE [Promise!Next]_(Promise!vars)
  OBVIOUS
<1> DEFINE hop == [id \in Ports |-> table[id].next_hop]
<1>1. [Next]_vars /\ TypeInv /\ known \subseteq Ports /\ table \in [Ports -> Entry]
  BY DEF HNext, hvars, HeardInv, LiveInv, TypeInv, TypeOK
<1>2. heard' = heard \/ (Hearing(msginfo.from) /\ pc' = "loop"
                        /\ heard' = Announced(msginfo.from, msginfo.body))
  BY DEF HNext, hvars
<1>3. CASE UNCHANGED <<table, known, down>> /\ heard' = heard
  BY <1>3 DEF Promise!vars
<1>4. CASE MsgReceived /\ Head(cq).res # "error"
  <2>1. /\ msginfo \in Datagrams /\ msginfo.from \in Senders
        /\ IsDatagram(msginfo) /\ Head(cq).res = "ok"
    BY <1>1, <1>4, ReceiveOk
  <2>2. PICK new \in Admitted(known, DOMAIN msginfo.body) :
          /\ known' = known \cup new
          /\ table' = process_pairs(table, known, new, msginfo.from,
                                    initial_cost[msginfo.from], msginfo.body)
    BY <1>1, <1>4, ReceiveOk
  <2>3. new \in SUBSET (DOMAIN msginfo.body \ known)
    BY <2>2 DEF Admitted
  <2>4. Hearing(msginfo.from) /\ pc' = "loop" /\ pc # "loop"
    BY <1>4, <2>1 DEF MsgReceived, Handling, Hearing
  <2>5. heard' = Announced(msginfo.from, msginfo.body)
    BY <2>4 DEF HNext, hvars, vars, process
  <2>6. Promise!Hear(msginfo, new)
    <3>1. hop' = [id \in Ports |-> table'[id].next_hop]
      OBVIOUS
    <3> QED
      BY <2>1, <2>2, <2>3, <2>5, <3>1, PairsChoose DEF Promise!Hear, Announced
  <2> QED
    BY <2>1, <2>3, <2>6 DEF Promise!Next
<1>5. CASE NeighborTimeout /\ ~UNCHANGED <<table, known, down>>
  <2>1. heard' = heard
    BY <1>2, <1>5 DEF NeighborTimeout, Handling, Hearing
  <2>2. PICK n \in Senders : table' = purge_neighbor(table, known, n)
    BY <1>1, <1>5, TimeoutEffect
  <2>3. known' = known
    BY <1>1, <1>5, TimeoutEffect
  <2>4. ASSUME NEW id \in Ports
        PROVE  table'[id].next_hop = IF table[id].next_hop = n THEN NoPort ELSE table[id].next_hop
    <3>1. id \notin known => table[id].next_hop = NoPort
      BY DEF HeardInv, LiveInv
    <3> QED
      BY <1>1, <2>2, <3>1 DEF purge_neighbor, NoRoute
  <2>5. Promise!Lose(n)
    BY <2>1, <2>3, <2>4 DEF Promise!Lose
  <2> QED
    BY <2>2, <2>5 DEF Promise!Next
<1>6. CASE ~UNCHANGED <<table, known, down>> \/ heard' # heard
  <2>1. CASE ~UNCHANGED <<table, known, down>>
    <3>1. MsgReceived => Head(cq).res # "error"
      BY <2>1 DEF MsgReceived
    <3> QED
      BY <1>1, <1>4, <1>5, <2>1, <3>1, RoutingSteps
  <2>2. CASE heard' # heard
    <3>1. MsgReceived
      BY <1>1, <1>2, <2>2, HearingStep
    <3>2. Head(cq).res # "error"
      BY <1>2, <2>2 DEF Hearing
    <3> QED
      BY <1>4, <3>1, <3>2
  <2> QED
    BY <1>6, <2>1, <2>2
<1> QED
  BY <1>3, <1>6

\* With honest costs the table, which keeps no announcements, makes the choices
\* of one that keeps them all and compares nothing but what it works out from
\* them: the stored costs are as good as fresh ones at every message and timeout.
THEOREM ImplementsTable ==
    ASSUME HonestCosts PROVE HSpec => ImplementsRouteTable
<1>1. HInit => Promise!Init
  BY ImplementInit
<1>2. HSpec => [](HeardInv)
  BY HeardInit, HeardStep, PTL DEF HSpec
<1> QED
  BY <1>1, <1>2, ImplementStep, PTL DEF HSpec, ImplementsRouteTable, Promise!Spec

=============================================================================
