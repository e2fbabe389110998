---------------------------- MODULE RouterProofs ----------------------------
(***************************************************************************)
(* Proofs about Router, for every set of ports, every configuration and    *)
(* every set of datagrams that Router's assumptions admit.                 *)
(***************************************************************************)
EXTENDS Router, SequenceTheorems, FiniteSetTheorems, TLAPS

-----------------------------------------------------------------------------
(* What the operators on tables return.                                     *)

\* The sum of two 32-bit costs, wrapped around, is a 32-bit cost.
LEMMA Add32Type ==
    ASSUME NEW a \in Costs, NEW b \in Costs
    PROVE  Add32(a, b) \in Costs
  BY LimitsAssumption DEF Add32, Costs

\* The result of one pair is an entry, whether or not its port was known.
LEMMA EntryType ==
    ASSUME NEW curr \in Entry, NEW id, NEW neighbor \in Ports,
           NEW link \in Costs, NEW dw_xy \in Costs
    PROVE  /\ learned_entry(neighbor, link, dw_xy) \in Entry
           /\ updated_entry(curr, id, neighbor, link, dw_xy) \in Entry
<1>1. RouteVia(neighbor, link, dw_xy) \in Entry
  BY Add32Type DEF RouteVia, Entry
<1>2. NoRoute \in Entry
  BY LimitsAssumption DEF NoRoute, Infinity, Entry, Costs
<1>3. [cost |-> link, next_hop |-> neighbor] \in Entry
  BY DEF Entry
<1>4. learned_entry(neighbor, link, dw_xy) \in Entry
  BY <1>1, <1>2 DEF learned_entry
<1>5. updated_entry(curr, id, neighbor, link, dw_xy) \in Entry
  BY <1>1, <1>2, <1>3 DEF updated_entry, direct_entry, same_hop_entry, other_hop_entry
<1> QED
  BY <1>4, <1>5

\* A message turns a table into a table.
LEMMA ProcessPairsType ==
    ASSUME NEW t \in [Ports -> Entry], NEW kn, NEW new, NEW neighbor \in Ports,
           NEW link \in Costs, NEW msg,
           \A id \in DOMAIN msg : msg[id] \in Costs
    PROVE  process_pairs(t, kn, new, neighbor, link, msg) \in [Ports -> Entry]
<1>1. ASSUME NEW id \in Ports
      PROVE  process_pairs(t, kn, new, neighbor, link, msg)[id] \in Entry
  BY <1>1, EntryType DEF process_pairs
<1> QED
  BY <1>1 DEF process_pairs

\* So does a timeout.
LEMMA PurgeType ==
    ASSUME NEW t \in [Ports -> Entry], NEW kn, NEW neighbor
    PROVE  purge_neighbor(t, kn, neighbor) \in [Ports -> Entry]
<1>1. NoRoute \in Entry
  BY LimitsAssumption DEF NoRoute, Infinity, Entry, Costs
<1> QED
  BY <1>1 DEF purge_neighbor

\* The senders are ports, and their links have a cost.
LEMMA SendersType ==
    /\ neighbor_count \in Nat
    /\ Neighbors \subseteq Senders
    /\ Senders \subseteq Ports \ {Self}
    /\ \A i \in 1..neighbor_count : neighbor_info[i] \in Neighbors
    /\ \A n \in Senders : initial_cost[n] \in Costs
<1>1. neighbor_info \in Seq(Ports \ {Self}) /\ neighbor_count = Len(neighbor_info)
  BY ConfigAssumption DEF neighbor_count
<1>2. DOMAIN neighbor_info = 1..neighbor_count /\ neighbor_count \in Nat
  BY <1>1
<1>3. /\ Neighbors \subseteq Ports \ {Self}
      /\ \A i \in 1..neighbor_count : neighbor_info[i] \in Neighbors
  BY <1>1, <1>2 DEF Neighbors, Range
<1> QED
  BY <1>2, <1>3, ConfigAssumption DEF Senders

-----------------------------------------------------------------------------
(* Type correctness.  A completion says more than its type: a timeout is a   *)
(* sender's, and where a receive has succeeded msginfo holds a datagram.     *)

Requests == [type : RequestTypes, port : Ports \cup {NoPort}]

Completions(m) ==
    { c \in [type : RequestTypes, port : Ports \cup {NoPort}, res : Results] :
        /\ c.type = "NEIGHBOR_TIMEOUT" => c.port \in Senders
        /\ c.type = "MSG_RECEIVED" =>
              c.port = NoPort /\ (c.res = "error" \/ (c.res = "ok" /\ m \in Datagrams)) }

TypeInv == TypeOK /\ cq \in Seq(Completions(msginfo))

\* The second conjunct implies the conjunct of TypeOK about cq, and it outlives a
\* change of msginfo to another datagram.
LEMMA CompletionsSeq ==
    ASSUME NEW m, NEW q \in Seq(Completions(m))
    PROVE  /\ q \in Seq([type : RequestTypes, port : Ports \cup {NoPort}, res : Results])
           /\ \A m2 \in Datagrams : q \in Seq(Completions(m2))
<1>1. Completions(m) \subseteq [type : RequestTypes, port : Ports \cup {NoPort}, res : Results]
  BY DEF Completions
<1>2. \A m2 \in Datagrams : Completions(m) \subseteq Completions(m2)
  BY DEF Completions
<1> QED
  BY <1>1, <1>2, SeqMonotonic

\* What one submission leaves behind is well typed.
LEMMA SubmitType ==
    ASSUME TypeInv, NEW s \in Seq(Requests)
    PROVE  /\ UpdateCompletions(s) \in Seq(Completions(msginfo))
           /\ Outstanding(s) =>
                /\ receiving' \in BOOLEAN
                /\ timer' \in [Senders -> TimerStates]
<1>1. ASSUME Updates(s) # {}
      PROVE  UpdateCompletions(s) \in Seq(Completions(msginfo))
  <2> DEFINE n == CHOOSE n \in Updates(s) : TRUE
  <2>1. n \in Senders
    BY <1>1 DEF Updates
  <2>2. UpdateResult(n) \in Results
    BY <2>1 DEF TypeInv, TypeOK, UpdateResult, Results, TimerStates
  <2>3. Completion("REARM_TIMER", n, UpdateResult(n)) \in Completions(msginfo)
    BY <2>1, <2>2, SendersType, SMTT(30) DEF Completion, Completions, RequestTypes
  <2> QED
    BY <1>1, <2>3 DEF UpdateCompletions
<1>2. ASSUME Updates(s) = {}
      PROVE  UpdateCompletions(s) \in Seq(Completions(msginfo))
  BY <1>2 DEF UpdateCompletions
<1>3. ASSUME Outstanding(s)
      PROVE  receiving' \in BOOLEAN /\ timer' \in [Senders -> TimerStates]
  BY <1>3 DEF Outstanding, TypeInv, TypeOK, TimerStates
<1> QED
  BY <1>1, <1>2, <1>3

LEMMA SentType ==
    ASSUME NEW m, NEW k \in 0..neighbor_count
    PROVE  SentCompletions(k) \in Seq(Completions(m))
<1>1. \A i \in 1..k : Completion("MSG_SENT", neighbor_info[i], "ok") \in Completions(m)
  BY SendersType DEF Completion, Completions, RequestTypes, Results
<1> QED
  BY <1>1, SendersType DEF SentCompletions

\* send_to_neighbors preserves the types of what it assigns.
LEMMA SendType ==
    ASSUME TypeInv, NEW q \in Seq(Completions(msginfo)), send_to_neighbors(q)
    PROVE  /\ running' \in BOOLEAN
           /\ cq' \in Seq(Completions(msginfo))
           /\ sq' \in Seq(Requests)
           /\ receiving' \in BOOLEAN
           /\ timer' \in [Senders -> TimerStates]
<1>1. sq \in Seq(Requests) /\ running \in BOOLEAN
  BY DEF TypeInv, TypeOK, Requests
<1>2. \A k \in 1..neighbor_count : Request("MSG_SENT", neighbor_info[k]) \in Requests
  BY SendersType DEF Request, Requests, RequestTypes
<1>3. CASE UNCHANGED <<receiving, timer>> /\ cq' = q /\ sq' = sq /\ GiveUp
  BY <1>1, <1>3 DEF TypeInv, TypeOK, GiveUp
<1>4. CASE /\ UNCHANGED <<receiving, timer>> /\ cq' = q /\ GiveUp
           /\ sq' = Append(sq, Request("MSG_SENT", neighbor_info[1]))
  <2>1. 1 \in 1..neighbor_count
    BY ConfigAssumption, SendersType
  <2>2. Request("MSG_SENT", neighbor_info[1]) \in Requests
    BY <1>2, <2>1
  <2>3. sq' \in Seq(Requests)
    BY <1>1, <1>4, <2>2
  <2>4. receiving' \in BOOLEAN /\ timer' \in [Senders -> TimerStates]
    BY <1>4 DEF TypeInv, TypeOK
  <2> QED
    BY <1>4, <2>3, <2>4 DEF GiveUp
<1>5. CASE /\ Outstanding(sq)
           /\ cq' = q \o UpdateCompletions(sq) \o SentCompletions(neighbor_count)
           /\ sq' = <<>> /\ UNCHANGED running
  <2>1. SentCompletions(neighbor_count) \in Seq(Completions(msginfo))
    BY SentType, SendersType
  <2> QED
    BY <1>1, <1>5, <2>1, SubmitType
<1>6. CASE \E k \in 1..(neighbor_count - 1) :
              /\ GiveUp
              /\ Outstanding(sq)
              /\ cq' = q \o UpdateCompletions(sq) \o SentCompletions(k)
              /\ sq' = <<Request("MSG_SENT", neighbor_info[k + 1])>>
  <2>1. PICK k \in 1..(neighbor_count - 1) :
              /\ GiveUp
              /\ Outstanding(sq)
              /\ cq' = q \o UpdateCompletions(sq) \o SentCompletions(k)
              /\ sq' = <<Request("MSG_SENT", neighbor_info[k + 1])>>
    BY <1>6
  <2>2. k \in 0..neighbor_count /\ k + 1 \in 1..neighbor_count
    BY SendersType
  <2>3. SentCompletions(k) \in Seq(Completions(msginfo))
    BY <2>2, SentType
  <2>4. Request("MSG_SENT", neighbor_info[k + 1]) \in Requests
    BY <1>2, <2>2
  <2>5. sq' \in Seq(Requests)
    BY <2>1, <2>4
  <2>6. cq' \in Seq(Completions(msginfo))
    BY <1>1, <2>1, <2>3, SubmitType
  <2> QED
    BY <1>1, <2>1, <2>5, <2>6, SubmitType DEF GiveUp
<1> QED
  BY <1>3, <1>4, <1>5, <1>6 DEF send_to_neighbors

\* TypeInv holds at start-up.
LEMMA TypeInit == Init => TypeInv
<1> SUFFICES ASSUME Init PROVE TypeInv
  OBVIOUS
<1>1. init_table(Self, Neighbors, initial_cost) \in [Ports -> Entry]
  BY LimitsAssumption, SendersType DEF init_table, BlankEntry, Entry, Costs
<1>2. {Self} \cup Neighbors \subseteq Ports
  BY SendersType, ConfigAssumption
<1>3. timer \in [Senders -> TimerStates]
  BY DEF Init, TimerStates
<1>4. table \in [Ports -> Entry] /\ known \subseteq Ports /\ down \subseteq Senders
  BY <1>1, <1>2 DEF Init
<1>5. cq \in Seq(Completions(msginfo))
  BY DEF Init
<1>6. cq \in Seq([type : RequestTypes, port : Ports \cup {NoPort}, res : Results])
  BY <1>5, CompletionsSeq
<1>7. /\ sq \in Seq([type : RequestTypes, port : Ports \cup {NoPort}])
      /\ inbox \in Seq(Datagrams)
  BY DEF Init
<1> QED
  BY <1>3, <1>4, <1>5, <1>6, <1>7 DEF Init, TypeInv, TypeOK

\* The handler of a message preserves TypeInv.
LEMMA MsgReceivedType ==
    ASSUME TypeInv, MsgReceived
    PROVE  TypeInv'
<1> DEFINE n == msginfo.from
           requests == HandlerRequests(n)
<1>1. /\ cq \in Seq(Completions(msginfo)) /\ cq # <<>>
      /\ Head(cq).type = "MSG_RECEIVED"
  BY DEF TypeInv, MsgReceived, Handling
<1>2. Head(cq) \in Completions(msginfo) /\ Tail(cq) \in Seq(Completions(msginfo))
  BY <1>1
<1>3. /\ pc' = "loop" /\ msginfo' = msginfo /\ inbox' = inbox /\ ticking' = ticking
      /\ sq \in Seq(Requests)
  BY DEF MsgReceived, Handling, TypeInv, TypeOK, Requests
<1>4. SUFFICES /\ running' \in BOOLEAN /\ table' \in [Ports -> Entry]
               /\ known' \subseteq Ports /\ down' \subseteq Senders
               /\ sq' \in Seq(Requests) /\ cq' \in Seq(Completions(msginfo))
               /\ receiving' \in BOOLEAN /\ timer' \in [Senders -> TimerStates]
  <2>1. cq' \in Seq([type : RequestTypes, port : Ports \cup {NoPort}, res : Results])
    BY <1>4, CompletionsSeq
  <2> QED
    BY <1>3, <1>4, <2>1 DEF TypeInv, TypeOK, Requests
<1>5. CASE Head(cq).res = "error"
  <2>1. /\ running' = FALSE /\ cq' = Tail(cq)
        /\ UNCHANGED <<table, known, down, sq, receiving, timer>>
    BY <1>5 DEF MsgReceived
  <2> QED
    BY <1>2, <1>3, <2>1 DEF TypeInv, TypeOK
<1>6. CASE Head(cq).res # "error"
  <2>1. msginfo \in Datagrams
    BY <1>1, <1>2, <1>6 DEF Completions
  <2>2. n \in Senders /\ n \in Ports /\ IsDatagram(msginfo)
    BY <2>1, DatagramsAssumption, SendersType DEF IsDatagram
  <2>3. PICK new \in Admitted(known, DOMAIN msginfo.body) :
           /\ known' = known \cup new
           /\ table' = process_pairs(table, known, new, n, initial_cost[n], msginfo.body)
    BY <1>6 DEF MsgReceived
  <2>4. known' \subseteq Ports
    BY <2>2, <2>3 DEF Admitted, IsDatagram, TypeInv, TypeOK
  <2>5. table' \in [Ports -> Entry]
    <3>1. \A id \in DOMAIN msginfo.body : msginfo.body[id] \in Costs
      BY <2>2 DEF IsDatagram
    <3>2. table \in [Ports -> Entry] /\ initial_cost[n] \in Costs
      BY <2>2, SendersType DEF TypeInv, TypeOK
    <3> QED
      BY <2>2, <2>3, <3>1, <3>2, ProcessPairsType
  <2>6. down' \subseteq Senders /\ running' \in BOOLEAN
    BY <1>6 DEF MsgReceived, TypeInv, TypeOK
  <2>7. Prepared(requests) \in Seq(Requests)
    <3>1. TimerRequest(n) \in Requests /\ Request("MSG_RECEIVED", NoPort) \in Requests
      BY <2>2 DEF TimerRequest, Request, Requests, RequestTypes
    <3>2. requests \in Seq(Requests)
      BY <3>1 DEF HandlerRequests
    <3>3. sq \o requests \in Seq(Requests) /\ Len(sq \o requests) = Len(sq) + Len(requests)
      BY <1>3, <3>2
    <3>4. Len(sq) + Len(requests) > SqEntries =>
            SubSeq(sq \o requests, 1, SqEntries) \in Seq(Requests)
      BY <3>3, RingAssumption
    <3> QED
      BY <1>3, <3>2, <3>3, <3>4, RingAssumption DEF Prepared
  <2>8. CASE /\ Outstanding(Prepared(requests))
             /\ cq' = Tail(cq) \o UpdateCompletions(Prepared(requests))
             /\ sq' = <<>>
    BY <1>2, <2>4, <2>5, <2>6, <2>7, <2>8, SubmitType
  <2>9. CASE /\ sq' = Prepared(requests) /\ cq' = Tail(cq)
             /\ UNCHANGED <<receiving, timer>>
    BY <1>2, <2>4, <2>5, <2>6, <2>7, <2>9 DEF TypeInv, TypeOK
  <2> QED
    BY <1>6, <2>8, <2>9 DEF MsgReceived
<1> QED
  BY <1>5, <1>6

\* The other handlers preserve TypeInv.
LEMMA HandlersType ==
    ASSUME TypeInv, GlobalTimeout \/ NeighborTimeout \/ RearmTimer \/ MsgSent
    PROVE  TypeInv'
<1>1. /\ cq \in Seq(Completions(msginfo)) /\ cq # <<>> /\ pc' = "loop"
      /\ msginfo' = msginfo /\ inbox' = inbox /\ ticking' = ticking /\ known' = known
  BY DEF TypeInv, GlobalTimeout, NeighborTimeout, RearmTimer, MsgSent, Handling
<1>2. Tail(cq) \in Seq(Completions(msginfo))
  BY <1>1
<1>3. SUFFICES /\ running' \in BOOLEAN /\ table' \in [Ports -> Entry]
               /\ down' \subseteq Senders
               /\ sq' \in Seq(Requests) /\ cq' \in Seq(Completions(msginfo))
               /\ receiving' \in BOOLEAN /\ timer' \in [Senders -> TimerStates]
  <2>1. cq' \in Seq([type : RequestTypes, port : Ports \cup {NoPort}, res : Results])
    BY <1>3, CompletionsSeq
  <2> QED
    BY <1>1, <1>3, <2>1 DEF TypeInv, TypeOK, Requests
<1>4. sq \in Seq(Requests)
  BY DEF TypeInv, TypeOK, Requests
<1>5. CASE GlobalTimeout
  <2>1. UNCHANGED <<table, down>>
    BY <1>5 DEF GlobalTimeout
  <2>2. CASE send_to_neighbors(Tail(cq))
    BY <1>2, <2>1, <2>2, SendType DEF TypeInv, TypeOK
  <2>3. CASE running' = FALSE /\ cq' = Tail(cq) /\ UNCHANGED <<sq, receiving, timer>>
    BY <1>2, <1>4, <2>1, <2>3 DEF TypeInv, TypeOK
  <2> QED
    BY <1>5, <2>2, <2>3 DEF GlobalTimeout
<1>6. CASE NeighborTimeout
  <2>1. Head(cq).port \in Senders
    BY <1>1, <1>6 DEF NeighborTimeout, Handling, Completions
  <2>2. table' \in [Ports -> Entry]
    BY <1>6, PurgeType DEF NeighborTimeout, TypeInv, TypeOK
  <2>3. down' \subseteq Senders /\ running' \in BOOLEAN
    BY <1>6, <2>1 DEF NeighborTimeout, TypeInv, TypeOK
  <2>4. cq' = Tail(cq) /\ UNCHANGED <<sq, receiving, timer>>
    BY <1>6 DEF NeighborTimeout
  <2> QED
    BY <1>2, <1>4, <2>2, <2>3, <2>4 DEF TypeInv, TypeOK
<1>7. CASE RearmTimer \/ MsgSent
  <2>1. cq' = Tail(cq) /\ UNCHANGED <<table, down, sq, receiving, timer>>
    BY <1>7 DEF RearmTimer, MsgSent
  <2>2. CASE RearmTimer
    <3>1. running' \in BOOLEAN
      BY <2>2 DEF RearmTimer, TypeInv, TypeOK
    <3> QED
      BY <1>2, <1>4, <2>1, <3>1 DEF TypeInv, TypeOK
  <2>3. CASE MsgSent
    BY <1>2, <1>4, <2>1, <2>3 DEF MsgSent, TypeInv, TypeOK
  <2> QED
    BY <1>7, <2>2, <2>3
<1> QED
  BY <1>5, <1>6, <1>7

\* The steps of the kernel, the clock and the network preserve TypeInv.
LEMMA KernelType ==
    ASSUME TypeInv, Kernel \/ \E d \in Datagrams : Deliver(d)
    PROVE  TypeInv'
<1>1. UNCHANGED <<process, sq>> /\ cq \in Seq(Completions(msginfo))
  BY DEF TypeInv, Kernel, CompleteReceive, TimerExpires, TimerPosts, GlobalTimerFires,
         Deliver, ring
<1>2. SUFFICES /\ cq' \in Seq(Completions(msginfo'))
               /\ receiving' \in BOOLEAN /\ msginfo' \in Datagrams \cup {NoDatagram}
               /\ timer' \in [Senders -> TimerStates] /\ ticking' \in BOOLEAN
               /\ inbox' \in Seq(Datagrams)
  <2>1. cq' \in Seq([type : RequestTypes, port : Ports \cup {NoPort}, res : Results])
    BY <1>2, CompletionsSeq
  <2>2. UNCHANGED <<pc, running, table, known, down, sq>>
    BY <1>1 DEF process
  <2> QED
    BY <1>2, <2>1, <2>2 DEF TypeInv, TypeOK
<1>3. CASE CompleteReceive
  <2>1. /\ receiving' = FALSE /\ UNCHANGED <<timer, ticking>> /\ inbox \in Seq(Datagrams)
    BY <1>3 DEF CompleteReceive, TypeInv, TypeOK
  <2>2. CASE /\ inbox # <<>>
             /\ msginfo' = Head(inbox)
             /\ inbox' = Tail(inbox)
             /\ cq' = Append(cq, Completion("MSG_RECEIVED", NoPort, "ok"))
    <3>1. msginfo' \in Datagrams /\ inbox' \in Seq(Datagrams)
      BY <2>1, <2>2
    <3>2. Completion("MSG_RECEIVED", NoPort, "ok") \in Completions(msginfo')
      BY <3>1 DEF Completion, Completions, RequestTypes, Results
    <3>3. cq \in Seq(Completions(msginfo'))
      BY <1>1, <3>1, CompletionsSeq
    <3>4. cq' \in Seq(Completions(msginfo'))
      BY <2>2, <3>2, <3>3
    <3> QED
      BY <2>1, <3>1, <3>4 DEF TypeInv, TypeOK
  <2>3. CASE /\ cq' = Append(cq, Completion("MSG_RECEIVED", NoPort, "error"))
             /\ UNCHANGED <<msginfo, inbox>>
    <3>1. Completion("MSG_RECEIVED", NoPort, "error") \in Completions(msginfo)
      BY DEF Completion, Completions, RequestTypes, Results
    <3>2. cq' \in Seq(Completions(msginfo'))
      BY <1>1, <2>3, <3>1
    <3> QED
      BY <2>1, <2>3, <3>2 DEF TypeInv, TypeOK
  <2> QED
    BY <1>3, <2>2, <2>3 DEF CompleteReceive
<1>4. CASE \E n \in Senders : TimerExpires(n)
  <2>1. /\ UNCHANGED <<cq, receiving, ticking, msginfo, inbox>>
        /\ timer' \in [Senders -> TimerStates]
    BY <1>4 DEF TimerExpires, TypeInv, TypeOK, TimerStates
  <2> QED
    BY <1>1, <2>1 DEF TypeInv, TypeOK
<1>5. CASE \E n \in Senders : TimerPosts(n)
  <2>1. PICK n \in Senders : TimerPosts(n)
    BY <1>5
  <2>2. /\ UNCHANGED <<receiving, ticking, msginfo, inbox>>
        /\ timer' \in [Senders -> TimerStates]
    BY <2>1 DEF TimerPosts, TypeInv, TypeOK, TimerStates
  <2>3. PICK res \in {"ETIME", "error"} :
          cq' = Append(cq, Completion("NEIGHBOR_TIMEOUT", n, res))
    BY <2>1 DEF TimerPosts
  <2>4. Completion("NEIGHBOR_TIMEOUT", n, res) \in Completions(msginfo)
    BY SendersType DEF Completion, Completions, RequestTypes, Results
  <2>5. cq' \in Seq(Completions(msginfo'))
    BY <1>1, <2>2, <2>3, <2>4
  <2> QED
    BY <2>2, <2>5 DEF TypeInv, TypeOK
<1>6. CASE GlobalTimerFires
  <2>1. /\ UNCHANGED <<receiving, timer, msginfo, inbox>> /\ ticking' \in BOOLEAN
    BY <1>6 DEF GlobalTimerFires, TypeInv, TypeOK
  <2>2. PICK res \in {"ETIME", "error"} :
          cq' = Append(cq, Completion("GLOBAL_TIMEOUT", NoPort, res))
    BY <1>6 DEF GlobalTimerFires
  <2>3. Completion("GLOBAL_TIMEOUT", NoPort, res) \in Completions(msginfo)
    BY DEF Completion, Completions, RequestTypes, Results
  <2>4. cq' \in Seq(Completions(msginfo'))
    BY <1>1, <2>1, <2>2, <2>3
  <2> QED
    BY <2>1, <2>4 DEF TypeInv, TypeOK
<1>7. CASE \E d \in Datagrams : Deliver(d)
  <2>1. PICK d \in Datagrams : Deliver(d)
    BY <1>7
  <2>2. UNCHANGED <<cq, receiving, timer, ticking, msginfo>>
    BY <2>1 DEF Deliver, ring
  <2>3. inbox' \in Seq(Datagrams)
    BY <2>1 DEF Deliver, TypeInv, TypeOK
  <2> QED
    BY <1>1, <2>2, <2>3 DEF TypeInv, TypeOK
<1> QED
  BY <1>3, <1>4, <1>5, <1>6, <1>7 DEF Kernel

\* Every step preserves TypeInv.
LEMMA TypeStep == TypeInv /\ [Next]_vars => TypeInv'
<1> SUFFICES ASSUME TypeInv, [Next]_vars PROVE TypeInv'
  OBVIOUS
<1>1. CASE UringInit
  <2>1. UNCHANGED <<running, table, known, down, sq, cq, msginfo, inbox>>
    BY <1>1 DEF UringInit
  <2>2. /\ pc' \in {"first_send", "exit"} /\ receiving' \in BOOLEAN /\ ticking' \in BOOLEAN
        /\ timer' \in [Senders -> TimerStates]
    BY <1>1 DEF UringInit, TypeInv, TypeOK, TimerStates
  <2> QED
    BY <2>1, <2>2 DEF TypeInv, TypeOK
<1>2. CASE FirstSend
  <2>1. /\ UNCHANGED <<table, known, down, ticking, msginfo, inbox>> /\ pc' = "loop"
        /\ send_to_neighbors(cq)
    BY <1>2 DEF FirstSend
  <2>2. /\ running' \in BOOLEAN /\ receiving' \in BOOLEAN
        /\ cq' \in Seq(Completions(msginfo)) /\ sq' \in Seq(Requests)
        /\ timer' \in [Senders -> TimerStates]
    BY <2>1, SendType DEF TypeInv
  <2>3. cq' \in Seq([type : RequestTypes, port : Ports \cup {NoPort}, res : Results])
    BY <2>2, CompletionsSeq
  <2> QED
    BY <2>1, <2>2, <2>3 DEF TypeInv, TypeOK, Requests
<1>3. CASE CheckRunning \/ WaitCqe \/ WakeUp \/ BreakLoop \/ FollowNull \/ WaitFails
  <2>1. /\ UNCHANGED <<running, table, known, down, sq, cq, receiving, timer, ticking,
                       msginfo, inbox>>
        /\ pc' \in {"wait", "exit", "handle", "blocked", "null", "crash"}
    BY <1>3 DEF CheckRunning, WaitCqe, WakeUp, BreakLoop, FollowNull, WaitFails, ring
  <2> QED
    BY <2>1 DEF TypeInv, TypeOK
<1>4. CASE Handlers
  BY <1>4, MsgReceivedType, HandlersType DEF Handlers
<1>5. CASE Kernel \/ \E d \in Datagrams : Deliver(d)
  BY <1>5, KernelType
<1>6. CASE Sigint
  <2>1. /\ UNCHANGED <<table, known, down, sq, cq, receiving, timer, ticking, msginfo, inbox>>
        /\ running' = FALSE /\ pc' \in {"null", pc}
    BY <1>6 DEF Sigint, ring
  <2> QED
    BY <2>1 DEF TypeInv, TypeOK
<1>7. CASE UNCHANGED vars
  BY <1>7 DEF vars, process, ring, TypeInv, TypeOK
<1> QED
  BY <1>1, <1>2, <1>3, <1>4, <1>5, <1>6, <1>7 DEF Next, Main, Exited

LEMMA TypeInvariance == Spec => []TypeInv
  BY TypeInit, TypeStep, PTL DEF Spec

\* Every state of the router is well typed; in particular every cost stays a
\* 32-bit cost even if the costs that arrive do not add up within 32 bits.
THEOREM TypeCorrect == Spec => []TypeOK
<1>1. TypeInv => TypeOK
  BY DEF TypeInv
<1> QED
  BY <1>1, TypeInvariance, PTL

-----------------------------------------------------------------------------
(* Which steps change the routing state.                                    *)

\* Only the handler of a message and the handler of a timeout change the table,
\* the list of known routers and the down flags.
LEMMA RoutingSteps ==
    ASSUME [Next]_vars, ~MsgReceived, ~NeighborTimeout
    PROVE  UNCHANGED <<table, known, down>>
  BY DEF Next, Main, Handlers, Kernel, UringInit, FirstSend, CheckRunning, WaitCqe, WakeUp,
         BreakLoop, FollowNull, GlobalTimeout, RearmTimer, MsgSent, Deliver,
         CompleteReceive, TimerExpires, TimerPosts, GlobalTimerFires, Sigint, WaitFails,
         Exited, vars, process, ring

\* What a received message does to the routing state.
LEMMA ReceiveOk ==
    ASSUME TypeInv, MsgReceived, Head(cq).res # "error"
    PROVE  /\ Head(cq).res = "ok"
           /\ msginfo \in Datagrams /\ msginfo.from \in Senders
           /\ IsDatagram(msginfo)
           /\ down' = down \ {msginfo.from}
           /\ \E new \in Admitted(known, DOMAIN msginfo.body) :
                 /\ known' = known \cup new
                 /\ table' = process_pairs(table, known, new, msginfo.from,
                                           initial_cost[msginfo.from], msginfo.body)
<1>1. cq \in Seq(Completions(msginfo)) /\ cq # <<>> /\ Head(cq).type = "MSG_RECEIVED"
  BY DEF TypeInv, MsgReceived, Handling
<1>2. Head(cq) \in Completions(msginfo)
  BY <1>1
<1>3. msginfo \in Datagrams /\ Head(cq).res = "ok"
  BY <1>1, <1>2 DEF Completions
<1>4. IsDatagram(msginfo) /\ msginfo.from \in Senders
  BY <1>3, DatagramsAssumption DEF IsDatagram
<1> QED
  BY <1>3, <1>4 DEF MsgReceived

\* A receive that failed leaves it alone.
LEMMA ReceiveEffect ==
    ASSUME TypeInv, MsgReceived, ~UNCHANGED <<table, known, down>>
    PROVE  /\ msginfo \in Datagrams /\ msginfo.from \in Senders
           /\ IsDatagram(msginfo)
           /\ down' = down \ {msginfo.from}
           /\ \E new \in Admitted(known, DOMAIN msginfo.body) :
                 /\ known' = known \cup new
                 /\ table' = process_pairs(table, known, new, msginfo.from,
                                           initial_cost[msginfo.from], msginfo.body)
<1>1. Head(cq).res # "error"
  BY DEF MsgReceived
<1> QED
  BY <1>1, ReceiveOk

\* What a timeout does to it.
LEMMA TimeoutEffect ==
    ASSUME TypeInv, NeighborTimeout, ~UNCHANGED <<table, known, down>>
    PROVE  /\ known' = known
           /\ \E n \in Senders : /\ table' = purge_neighbor(table, known, n)
                                /\ down' = down \cup {n}
<1>1. cq \in Seq(Completions(msginfo)) /\ cq # <<>> /\ Head(cq).type = "NEIGHBOR_TIMEOUT"
  BY DEF TypeInv, NeighborTimeout, Handling
<1>2. Head(cq).port \in Senders
  BY <1>1 DEF Completions
<1> QED
  BY <1>2 DEF NeighborTimeout

-----------------------------------------------------------------------------
(* Routes use live links.  The inductive invariant adds that a port not yet  *)
(* on the list has no next hop: purge_neighbor only visits the list.         *)

LiveInv ==
    /\ TypeInv
    /\ RoutesUseLiveLinks
    /\ \A id \in Ports \ known : table[id].next_hop = NoPort

\* A message changes a next hop to its sender or to none, and no entry of a port
\* that stays off the list.
LEMMA PairsNextHop ==
    ASSUME NEW t \in [Ports -> Entry], NEW kn, NEW new, NEW neighbor, NEW link, NEW msg,
           NEW id \in Ports
    PROVE  LET e == process_pairs(t, kn, new, neighbor, link, msg)[id] IN
           /\ e.next_hop \in {t[id].next_hop, neighbor, NoPort}
           /\ id \notin kn \cup new => e = t[id]
<1> DEFINE e == process_pairs(t, kn, new, neighbor, link, msg)[id]
<1>1. id \notin kn \cup new => e = t[id]
  BY DEF process_pairs
<1>2. updated_entry(t[id], id, neighbor, link, msg[id]).next_hop
        \in {t[id].next_hop, neighbor, NoPort}
  BY DEF updated_entry, direct_entry, same_hop_entry, other_hop_entry, RouteVia, NoRoute
<1>3. learned_entry(neighbor, link, msg[id]).next_hop \in {neighbor, NoPort}
  BY DEF learned_entry, RouteVia, NoRoute
<1> QED
  BY <1>1, <1>2, <1>3 DEF process_pairs

LEMMA LiveInit == Init => LiveInv
<1> SUFFICES ASSUME Init PROVE LiveInv
  OBVIOUS
<1>1. TypeInv
  BY TypeInit
<1>2. ASSUME NEW id \in Ports
      PROVE  IF id \in Neighbors THEN table[id].next_hop = id ELSE table[id].next_hop = NoPort
  BY <1>2, SendersType DEF Init, init_table, BlankEntry
<1>3. Neighbors \subseteq Senders /\ down = {} /\ Neighbors \subseteq known
  BY SendersType DEF Init
<1> QED
  BY <1>1, <1>2, <1>3 DEF LiveInv, RoutesUseLiveLinks

LEMMA LiveStep == LiveInv /\ [Next]_vars => LiveInv'
<1> SUFFICES ASSUME LiveInv, [Next]_vars PROVE LiveInv'
  OBVIOUS
<1>1. TypeInv /\ TypeInv'
  BY TypeStep DEF LiveInv
<1>2. table \in [Ports -> Entry] /\ NoPort \notin Ports /\ Senders \subseteq Ports
  BY <1>1, PortsAssumption, SendersType DEF TypeInv, TypeOK
<1>3. CASE UNCHANGED <<table, known, down>>
  BY <1>1, <1>3 DEF LiveInv, RoutesUseLiveLinks
<1>4. CASE MsgReceived /\ ~UNCHANGED <<table, known, down>>
  <2> DEFINE n == msginfo.from
  <2>1. n \in Senders /\ down' = down \ {n}
    BY <1>1, <1>4, ReceiveEffect
  <2>2. PICK new \in Admitted(known, DOMAIN msginfo.body) :
          /\ known' = known \cup new
          /\ table' = process_pairs(table, known, new, n, initial_cost[n], msginfo.body)
    BY <1>1, <1>4, ReceiveEffect
  <2>3. ASSUME NEW id \in Ports
        PROVE  /\ table'[id].next_hop \in {table[id].next_hop, n, NoPort}
               /\ id \notin known' => table'[id] = table[id]
    BY <1>2, <2>2, PairsNextHop
  <2>4. RoutesUseLiveLinks'
    BY <2>1, <2>3 DEF LiveInv, RoutesUseLiveLinks
  <2>5. \A id \in Ports \ known' : table'[id].next_hop = NoPort
    BY <2>2, <2>3 DEF LiveInv
  <2> QED
    BY <1>1, <2>4, <2>5 DEF LiveInv
<1>5. CASE NeighborTimeout /\ ~UNCHANGED <<table, known, down>>
  <2>1. known' = known
    BY <1>1, <1>5, TimeoutEffect
  <2>2. PICK n \in Senders : table' = purge_neighbor(table, known, n) /\ down' = down \cup {n}
    BY <1>1, <1>5, TimeoutEffect
  <2>3. ASSUME NEW id \in Ports
        PROVE  /\ table'[id].next_hop \in {table[id].next_hop, NoPort}
               /\ table'[id].next_hop # n
               /\ id \notin known => table'[id] = table[id]
    BY <1>2, <2>2 DEF purge_neighbor, NoRoute, LiveInv
  <2>4. RoutesUseLiveLinks'
    BY <2>2, <2>3 DEF LiveInv, RoutesUseLiveLinks
  <2>5. \A id \in Ports \ known' : table'[id].next_hop = NoPort
    BY <2>1, <2>3 DEF LiveInv
  <2> QED
    BY <1>1, <2>4, <2>5 DEF LiveInv
<1> QED
  BY <1>3, <1>4, <1>5, RoutingSteps

\* No route ever leads through a router that is down: a timeout takes every
\* route through the neighbor out of the table, and nothing brings one back but
\* a message from that neighbor.
THEOREM LiveLinks == Spec => []RoutesUseLiveLinks
<1>1. LiveInv => RoutesUseLiveLinks
  BY DEF LiveInv
<1> QED
  BY <1>1, LiveInit, LiveStep, PTL DEF Spec

-----------------------------------------------------------------------------
(* The list of known routers fits the message buffer.                       *)

\* Whatever Admitted lets in, the list stays within its capacity.
LEMMA AdmittedBound ==
    ASSUME NEW kn \in SUBSET Ports, NEW ids \in SUBSET Ports,
           Cardinality(kn) <= MAX_ROUTERS, NEW new \in Admitted(kn, ids)
    PROVE  Cardinality(kn \cup new) <= MAX_ROUTERS
<1>1. new \subseteq Ports /\ kn \subseteq Ports
  BY DEF Admitted
<1>2. IsFiniteSet(new) /\ IsFiniteSet(kn) /\ IsFiniteSet(kn \cap new)
  <2>1. IsFiniteSet(new) /\ IsFiniteSet(kn)
    BY <1>1, PortsAssumption, FS_Subset
  <2> QED
    BY <2>1, FS_Subset
<1>3. /\ Cardinality(new) \in Nat /\ Cardinality(kn) \in Nat
      /\ Cardinality(kn \cap new) \in Nat
  BY <1>2, FS_CardinalityType
<1>4. Cardinality(kn \cup new) <= Cardinality(kn) + Cardinality(new)
  <2>1. Cardinality(kn \cup new)
          = Cardinality(kn) + Cardinality(new) - Cardinality(kn \cap new)
    BY <1>2, FS_Union, Zenon
  <2> QED
    BY <1>3, <2>1
<1>5. CASE new = {}
  <2>1. kn \cup new = kn
    BY <1>5
  <2> QED
    BY <2>1
<1>6. CASE new # {}
  <2>1. Cardinality(kn) + Cardinality(new) - 1 < MAX_ROUTERS
    BY <1>6 DEF Admitted
  <2>2. Cardinality(kn \cup new) \in Nat
    BY <1>2, FS_Union, FS_CardinalityType, Zenon
  <2> QED
    BY <1>3, <1>4, <2>1, <2>2, LimitsAssumption
<1> QED
  BY <1>5, <1>6

\* The router and its neighbors fit: MAX_NEIGHBORS is MAX_ROUTERS - 1.
LEMMA InitialBound == Cardinality({Self} \cup Neighbors) <= MAX_ROUTERS
<1>1. /\ neighbor_info \in Seq(Ports \ {Self}) /\ neighbor_count = Len(neighbor_info)
      /\ neighbor_count \in Nat /\ neighbor_count < MAX_ROUTERS
  BY ConfigAssumption, SendersType DEF neighbor_count
<1>2. IsFiniteSet(Neighbors) /\ Cardinality(Neighbors) <= neighbor_count
  <2>1. neighbor_info \in Surjection(1..neighbor_count, Neighbors)
    BY <1>1 DEF Surjection, Neighbors, Range
  <2>2. IsFiniteSet(1..neighbor_count) /\ Cardinality(1..neighbor_count) = neighbor_count
    <3>1. 1 \in Int /\ neighbor_count \in Int
      BY <1>1
    <3>2. /\ IsFiniteSet(1..neighbor_count)
          /\ Cardinality(1..neighbor_count)
               = IF 1 > neighbor_count THEN 0 ELSE neighbor_count - 1 + 1
      BY <3>1, FS_Interval, Zenon
    <3> QED
      BY <1>1, <3>2
  <2> QED
    BY <2>1, <2>2, FS_Surjection
<1>3. Cardinality(Neighbors) \in Nat
  BY <1>2, FS_CardinalityType
<1>4. Cardinality(Neighbors \cup {Self}) = Cardinality(Neighbors) + 1
  <2>1. Self \notin Neighbors
    BY <1>1 DEF Neighbors, Range
  <2> QED
    BY <1>2, <2>1, FS_AddElement, Zenon
<1>5. Cardinality(Neighbors \cup {Self}) <= MAX_ROUTERS
  BY <1>1, <1>2, <1>3, <1>4, LimitsAssumption
<1>6. {Self} \cup Neighbors = Neighbors \cup {Self}
  OBVIOUS
<1> QED
  BY <1>5, <1>6, Zenon

LEMMA KnownStep == TypeInv /\ KnownBound /\ [Next]_vars => KnownBound'
<1> SUFFICES ASSUME TypeInv, KnownBound, [Next]_vars PROVE KnownBound'
  OBVIOUS
<1>1. CASE UNCHANGED <<table, known, down>>
  BY <1>1 DEF KnownBound
<1>2. CASE MsgReceived /\ ~UNCHANGED <<table, known, down>>
  <2>1. IsDatagram(msginfo)
    BY <1>2, ReceiveEffect
  <2>2. PICK new \in Admitted(known, DOMAIN msginfo.body) : known' = known \cup new
    BY <1>2, ReceiveEffect
  <2>3. known \in SUBSET Ports /\ DOMAIN msginfo.body \in SUBSET Ports
    BY <2>1 DEF IsDatagram, TypeInv, TypeOK
  <2> QED
    BY <2>2, <2>3, AdmittedBound DEF KnownBound
<1>3. CASE NeighborTimeout /\ ~UNCHANGED <<table, known, down>>
  BY <1>3, TimeoutEffect DEF KnownBound
<1> QED
  BY <1>1, <1>2, <1>3, RoutingSteps

\* send_to_neighbors never writes behind the end of msg_buf: however many ports
\* the neighbors announce, and in whatever order, the list they are put on keeps
\* to MAX_ROUTERS.
THEOREM KnownBounded == Spec => []KnownBound
<1>1. Init => KnownBound
  BY InitialBound DEF Init, KnownBound
<1> QED
  BY <1>1, KnownStep, TypeInvariance, PTL DEF Spec

-----------------------------------------------------------------------------
(* The pointer that io_uring_wait_cqe sets.                                 *)

LEMMA CqeStep == TypeInv /\ CqeValid /\ [Next]_vars => CqeValid'
<1> SUFFICES ASSUME TypeInv, CqeValid, [Next]_vars PROVE CqeValid'
  OBVIOUS
<1>1. cq \in Seq(Completions(msginfo))
  BY DEF TypeInv
<1>2. CASE WaitCqe \/ WakeUp
  BY <1>2 DEF WaitCqe, WakeUp, ring, CqeValid
<1>3. CASE UringInit \/ FirstSend \/ CheckRunning \/ BreakLoop \/ FollowNull \/ Handlers
  <2>1. pc' \notin {"handle", "null"}
    BY <1>3 DEF UringInit, FirstSend, CheckRunning, BreakLoop, FollowNull, Handlers,
                MsgReceived, GlobalTimeout, NeighborTimeout, RearmTimer, MsgSent, Handling
  <2> QED
    BY <2>1 DEF CqeValid
<1>4. CASE Kernel \/ \E d \in Datagrams : Deliver(d)
  <2>1. pc' = pc /\ running' = running
    BY <1>4 DEF Kernel, CompleteReceive, TimerExpires, TimerPosts, GlobalTimerFires,
                Deliver, process
  <2>2. cq' = cq \/ \E c : cq' = Append(cq, c)
    BY <1>4 DEF Kernel, CompleteReceive, TimerExpires, TimerPosts, GlobalTimerFires,
                Deliver, ring
  <2>3. cq # <<>> => cq' # <<>>
    BY <1>1, <2>2
  <2> QED
    BY <2>1, <2>3 DEF CqeValid
<1>5. CASE Sigint
  <2>1. ~running' /\ cq' = cq /\ (pc' = "handle" => pc = "handle")
    BY <1>5 DEF Sigint, ring
  <2> QED
    BY <2>1 DEF CqeValid
<1>6. CASE WaitFails
  BY <1>6 DEF WaitFails, CqeValid
<1>7. CASE UNCHANGED vars
  BY <1>7 DEF vars, process, ring, CqeValid
<1> QED
  BY <1>2, <1>3, <1>4, <1>5, <1>6, <1>7 DEF Next, Main, Exited

\* A handler always has a completion, and SIGINT never makes main follow the null
\* pointer of a call without one, although the result of io_uring_wait_cqe is
\* ignored: where main does, "wait" is among the Faults, that is, a wait may fail for
\* another reason.
THEOREM CqeAlwaysValid == Spec => []CqeValid
<1>1. Init => CqeValid
  BY DEF Init, CqeValid
<1> QED
  BY <1>1, CqeStep, TypeInvariance, PTL DEF Spec

-----------------------------------------------------------------------------
(* Cost and next hop agree, as long as costs are honest.  The inductive      *)
(* invariant adds that the router knows itself.                             *)

ConsistentInv == TypeInv /\ RouteConsistency /\ Self \in known

\* Honest costs add up without wrapping around, to a cost that is not Infinity.
LEMMA HonestSum ==
    ASSUME HonestCosts, NEW d \in Datagrams, NEW id \in DOMAIN d.body,
           d.body[id] # Infinity
    PROVE  /\ initial_cost[d.from] \in Nat /\ d.body[id] \in Nat
           /\ Add32(initial_cost[d.from], d.body[id]) = initial_cost[d.from] + d.body[id]
           /\ id = d.from => d.body[id] = 0
<1>1. d.from \in Senders
  BY DatagramsAssumption DEF IsDatagram
<1>2. initial_cost[d.from] \in 0..INT_MAX
  BY <1>1, ConfigAssumption, LimitsAssumption DEF HonestCosts, Senders
<1>3. /\ d.body[id] \in 0..(INT_MAX - initial_cost[d.from])
      /\ id = d.from => d.body[id] = 0
  BY DEF HonestCosts
<1> QED
  BY <1>2, <1>3, LimitsAssumption DEF Add32

LEMMA ConsistentInit ==
    ASSUME HonestCosts PROVE Init => ConsistentInv
<1> SUFFICES ASSUME Init PROVE ConsistentInv
  OBVIOUS
<1>1. TypeInv
  BY TypeInit
<1>2. Self \in known /\ known = {Self} \cup Neighbors
  BY DEF Init
<1>3. table[Self] = [cost |-> 0, next_hop |-> NoPort]
  BY ConfigAssumption DEF Init, init_table
<1>4. ASSUME NEW id \in Neighbors
      PROVE  table[id].cost # Infinity /\ table[id].next_hop # NoPort
  <2>1. id \in Ports /\ id # Self /\ id # NoPort
    BY SendersType, PortsAssumption
  <2>2. table[id] = [cost |-> initial_cost[id], next_hop |-> id]
    BY <2>1 DEF Init, init_table
  <2>3. initial_cost[id] \in 1..INT_MAX
    BY DEF HonestCosts
  <2> QED
    BY <2>1, <2>2, <2>3, LimitsAssumption DEF Infinity
<1> QED
  BY <1>1, <1>2, <1>3, <1>4 DEF ConsistentInv, RouteConsistency

\* One message: what becomes of every listed entry.
LEMMA PairsConsistent ==
    ASSUME HonestCosts, ConsistentInv, NEW d \in Datagrams,
           NEW new \in SUBSET DOMAIN d.body, NEW id \in known \cup new, id \in Ports
    PROVE  LET e == process_pairs(table, known, new, d.from, initial_cost[d.from], d.body)[id] IN
           /\ id = Self => e = table[Self]
           /\ id # Self => (e.cost = Infinity <=> e.next_hop = NoPort)
           /\ /\ id \in known /\ table[id].next_hop # NoPort
              /\ e.next_hop \notin {NoPort, table[id].next_hop}
              => e.cost < table[id].cost
<1> DEFINE n == d.from
           link == initial_cost[n]
           e == process_pairs(table, known, new, n, link, d.body)[id]
<1>1. /\ n \in Senders /\ n \in Ports /\ n # Self /\ n # NoPort /\ link \in Nat
  <2>1. n \in Senders
    BY DatagramsAssumption DEF IsDatagram
  <2> QED
    BY <2>1, SendersType, PortsAssumption, ConfigAssumption DEF HonestCosts, Senders
<1>2. /\ table \in [Ports -> Entry] /\ table[id].cost \in Int
      /\ table[Self] = [cost |-> 0, next_hop |-> NoPort]
      /\ id \in known /\ id # Self => (table[id].cost = Infinity <=> table[id].next_hop = NoPort)
  BY DEF ConsistentInv, TypeInv, TypeOK, RouteConsistency, Entry, Costs
<1>3. CASE id \notin DOMAIN d.body
  <2>1. e = table[id] /\ id \in known
    BY <1>2, <1>3 DEF process_pairs
  <2> QED
    BY <1>2, <2>1
<1>4. CASE id \in DOMAIN d.body
  <2> DEFINE dw == d.body[id]
  <2>1. dw # Infinity =>
          /\ Add32(link, dw) = link + dw /\ link + dw \in Nat
          /\ id = n => dw = 0
    BY <1>4, HonestSum
  <2>2. CASE id \notin known
    <3>1. e = learned_entry(n, link, dw) /\ id # Self
      BY <1>2, <1>4, <2>2 DEF process_pairs, ConsistentInv
    <3> QED
      BY <1>1, <2>1, <2>2, <3>1 DEF learned_entry, RouteVia, NoRoute, Infinity
  <2>3. CASE id \in known
    <3>1. e = updated_entry(table[id], id, n, link, dw)
      BY <1>2, <1>4, <2>3 DEF process_pairs
    <3>2. CASE id = n
      BY <1>1, <1>2, <2>3, <3>1, <3>2
         DEF updated_entry, direct_entry, same_hop_entry, other_hop_entry, Infinity
    <3>3. CASE id # n /\ table[id].next_hop = n
      BY <1>1, <1>2, <2>1, <2>3, <3>1, <3>3
         DEF updated_entry, direct_entry, same_hop_entry, other_hop_entry, RouteVia, NoRoute, Infinity
    <3>4. CASE id # n /\ table[id].next_hop # n
      BY <1>1, <1>2, <2>1, <2>3, <3>1, <3>4
         DEF updated_entry, direct_entry, same_hop_entry, other_hop_entry, RouteVia, Infinity
    <3> QED
      BY <3>2, <3>3, <3>4
  <2> QED
    BY <2>2, <2>3
<1> QED
  BY <1>3, <1>4

LEMMA ConsistentStep ==
    ASSUME HonestCosts PROVE ConsistentInv /\ [Next]_vars => ConsistentInv'
<1> SUFFICES ASSUME ConsistentInv, [Next]_vars PROVE ConsistentInv'
  OBVIOUS
<1>1. TypeInv /\ TypeInv'
  BY TypeStep DEF ConsistentInv
<1>2. CASE UNCHANGED <<table, known, down>>
  BY <1>1, <1>2 DEF ConsistentInv, RouteConsistency
<1>3. CASE MsgReceived /\ ~UNCHANGED <<table, known, down>>
  <2>1. msginfo \in Datagrams
    BY <1>1, <1>3, ReceiveEffect
  <2>2. PICK new \in Admitted(known, DOMAIN msginfo.body) :
          /\ known' = known \cup new
          /\ table' = process_pairs(table, known, new, msginfo.from,
                                    initial_cost[msginfo.from], msginfo.body)
    BY <1>1, <1>3, ReceiveEffect
  <2>3. new \in SUBSET DOMAIN msginfo.body /\ known' \subseteq Ports
    BY <1>1, <2>2 DEF Admitted, TypeInv, TypeOK
  <2>4. ASSUME NEW id \in known'
        PROVE  /\ id = Self => table'[id] = table[Self]
               /\ id # Self => (table'[id].cost = Infinity <=> table'[id].next_hop = NoPort)
    BY <2>1, <2>2, <2>3, <2>4, PairsConsistent
  <2>5. Self \in known'
    BY <2>2 DEF ConsistentInv
  <2> QED
    BY <1>1, <2>4, <2>5 DEF ConsistentInv, RouteConsistency
<1>4. CASE NeighborTimeout /\ ~UNCHANGED <<table, known, down>>
  <2>1. known' = known
    BY <1>1, <1>4, TimeoutEffect
  <2>2. PICK n \in Senders : table' = purge_neighbor(table, known, n)
    BY <1>1, <1>4, TimeoutEffect
  <2>3. n # NoPort /\ table \in [Ports -> Entry] /\ known \subseteq Ports
    BY <1>1, SendersType, PortsAssumption DEF TypeInv, TypeOK
  <2>4. ASSUME NEW id \in known
        PROVE  table'[id] = table[id] \/ (table'[id] = NoRoute /\ table[id].next_hop = n)
    BY <2>2, <2>3 DEF purge_neighbor
  <2>5. table'[Self] = table[Self]
    BY <2>3, <2>4 DEF ConsistentInv, RouteConsistency
  <2> QED
    BY <1>1, <2>1, <2>4, <2>5 DEF ConsistentInv, RouteConsistency, NoRoute
<1> QED
  BY <1>2, <1>3, <1>4, RoutingSteps

LEMMA ConsistentInvariance ==
    ASSUME HonestCosts PROVE Spec => []ConsistentInv
  BY ConsistentInit, ConsistentStep, PTL DEF Spec

\* With honest costs a known router has a next hop exactly when its cost is not
\* infinite, and no message makes the router take a route to itself.
THEOREM ConsistentRoutes ==
    ASSUME HonestCosts PROVE Spec => []RouteConsistency
<1>1. ConsistentInv => RouteConsistency
  BY DEF ConsistentInv
<1> QED
  BY <1>1, ConsistentInvariance, PTL

\* With honest costs the router leaves a next hop for another one only if that
\* makes the route cheaper: neighbors that offer equal costs do not make it flap.
THEOREM SwitchesOnlyIfCheaper ==
    ASSUME HonestCosts PROVE Spec => SwitchOnlyIfCheaper
<1> DEFINE Cheaper ==
        \A id \in known :
          /\ table[id].next_hop # NoPort
          /\ table'[id].next_hop \notin {NoPort, table[id].next_hop}
          => table'[id].cost < table[id].cost
<1>1. ConsistentInv /\ [Next]_vars => [Cheaper]_vars
  <2> SUFFICES ASSUME ConsistentInv, [Next]_vars PROVE Cheaper
    OBVIOUS
  <2>1. TypeInv
    BY DEF ConsistentInv
  <2>2. CASE UNCHANGED <<table, known, down>>
    BY <2>2
  <2>3. CASE MsgReceived /\ ~UNCHANGED <<table, known, down>>
    <3>1. msginfo \in Datagrams /\ known \subseteq Ports
      BY <2>1, <2>3, ReceiveEffect DEF TypeInv, TypeOK
    <3>2. PICK new \in Admitted(known, DOMAIN msginfo.body) :
            table' = process_pairs(table, known, new, msginfo.from,
                                   initial_cost[msginfo.from], msginfo.body)
      BY <2>1, <2>3, ReceiveEffect
    <3>3. new \in SUBSET DOMAIN msginfo.body
      BY <3>2 DEF Admitted
    <3> QED
      BY <3>1, <3>2, <3>3, PairsConsistent
  <2>4. CASE NeighborTimeout /\ ~UNCHANGED <<table, known, down>>
    <3>1. PICK n \in Senders : table' = purge_neighbor(table, known, n)
      BY <2>1, <2>4, TimeoutEffect
    <3>2. \A id \in known : table'[id] = table[id] \/ table'[id] = NoRoute
      BY <2>1, <3>1 DEF purge_neighbor, TypeInv, TypeOK
    <3> QED
      BY <3>2 DEF NoRoute
  <2> QED
    BY <2>2, <2>3, <2>4, RoutingSteps
<1> QED
  BY <1>1, ConsistentInvariance, PTL DEF SwitchOnlyIfCheaper, Spec

-----------------------------------------------------------------------------
(* No request gets lost and none is made twice: the accounting of Router's *)
(* receive request and timers, for every configuration and every set of    *)
(* datagrams, honest or not, and whatever system calls fail.               *)
(* First, counting in sequences.                                           *)

Matches(s, type, port) == {i \in DOMAIN s : s[i].type = type /\ s[i].port = port}

LEMMA CountType ==
    ASSUME NEW S, NEW s \in Seq(S), NEW type, NEW port
    PROVE  /\ IsFiniteSet(Matches(s, type, port))
           /\ Count(s, type, port) = Cardinality(Matches(s, type, port))
           /\ Count(s, type, port) \in Nat
<1>1. 1 \in Int /\ Len(s) \in Int /\ DOMAIN s = 1..Len(s)
  OBVIOUS
<1>2. IsFiniteSet(1..Len(s))
  BY <1>1, FS_Interval, Zenon
<1>3. IsFiniteSet(Matches(s, type, port))
  BY <1>1, <1>2, FS_Subset DEF Matches
<1>4. Count(s, type, port) = Cardinality(Matches(s, type, port))
  BY DEF Count, Matches
<1> QED
  BY <1>3, <1>4, FS_CardinalityType

\* Count over a concatenation is a sum.
LEMMA CountConcat ==
    ASSUME NEW S, NEW s \in Seq(S), NEW t \in Seq(S), NEW type, NEW port
    PROVE  Count(s \o t, type, port) = Count(s, type, port) + Count(t, type, port)
<1> DEFINE A == Matches(s, type, port)
           B == Matches(t, type, port)
           C == Matches(s \o t, type, port)
           shift == [i \in B |-> i + Len(s)]
           D == {shift[i] : i \in B}
<1>1. /\ IsFiniteSet(A) /\ Count(s, type, port) = Cardinality(A)
      /\ IsFiniteSet(B) /\ Count(t, type, port) = Cardinality(B)
  BY CountType
<1>2. s \o t \in Seq(S) /\ Len(s \o t) = Len(s) + Len(t)
  OBVIOUS
<1>13. Count(s \o t, type, port) = Cardinality(C)
  BY DEF Count, Matches
<1>3. /\ Len(s) \in Nat /\ Len(t) \in Nat
      /\ DOMAIN s = 1..Len(s) /\ DOMAIN t = 1..Len(t)
      /\ DOMAIN (s \o t) = 1..(Len(s) + Len(t))
  BY <1>2
<1>4. \A i \in 1..Len(s) : (s \o t)[i] = s[i]
  BY <1>3
<1>5. \A i \in 1..Len(t) : (s \o t)[i + Len(s)] = t[i]
  BY <1>3
<1>6. /\ A \subseteq 1..Len(s) /\ B \subseteq 1..Len(t)
      /\ \A i \in 1..Len(s) : i \in C <=> i \in A
      /\ \A i \in 1..Len(t) : i + Len(s) \in C <=> i \in B
      /\ C \subseteq 1..(Len(s) + Len(t))
  BY <1>3, <1>4, <1>5 DEF Matches
<1> HIDE DEF A, B, C
<1>7. C = A \cup D
  <2>1. ASSUME NEW i \in C PROVE i \in A \cup D
    <3>1. CASE i \in 1..Len(s)
      BY <1>6, <3>1
    <3>2. CASE i \notin 1..Len(s)
      <4>1. i - Len(s) \in 1..Len(t) /\ i = (i - Len(s)) + Len(s)
        BY <1>3, <1>6, <3>2
      <4>2. i - Len(s) \in B /\ shift[i - Len(s)] = i
        BY <1>6, <4>1
      <4> QED
        BY <4>2
    <3> QED
      BY <3>1, <3>2
  <2>2. A \subseteq C
    BY <1>6
  <2>3. ASSUME NEW i \in B PROVE shift[i] \in C
    BY <1>6
  <2> QED
    BY <2>1, <2>2, <2>3
<1>8. A \cap D = {}
  <2>1. ASSUME NEW i \in B PROVE shift[i] \notin 1..Len(s)
    BY <1>3, <1>6
  <2> QED
    BY <1>6, <2>1
<1>9. IsFiniteSet(D) /\ Cardinality(D) = Cardinality(B)
  <2>1. \A i, j \in B : shift[i] = shift[j] => i = j
    BY <1>3, <1>6
  <2>2. shift \in Bijection(B, D)
    BY <2>1 DEF Bijection, Injection, Surjection, IsInjective
  <2>3. ExistsBijection(B, D)
    BY <2>2 DEF ExistsBijection
  <2> HIDE DEF D
  <2> QED
    BY <1>1, <2>3, FS_Bijection
<1> HIDE DEF D
<1>10. Cardinality(A \cup D) = Cardinality(A) + Cardinality(D) - Cardinality(A \cap D)
  BY <1>1, <1>9, FS_Union, Zenon
<1>11. Cardinality(A) \in Nat /\ Cardinality(B) \in Nat
  BY <1>1, FS_CardinalityType
<1>12. Cardinality(A \cap D) = 0
  BY <1>8, FS_EmptySet
<1> QED
  BY <1>1, <1>7, <1>9, <1>10, <1>11, <1>12, <1>13

\* Nothing that matches, nothing counted.
LEMMA CountNone ==
    ASSUME NEW S, NEW s \in Seq(S), NEW type, NEW port,
           \A i \in DOMAIN s : ~(s[i].type = type /\ s[i].port = port)
    PROVE  Count(s, type, port) = 0
<1>1. {i \in DOMAIN s : s[i].type = type /\ s[i].port = port} = {}
  OBVIOUS
<1> QED
  BY <1>1, FS_EmptySet DEF Count

LEMMA CountSingle ==
    ASSUME NEW x, NEW type, NEW port
    PROVE  Count(<<x>>, type, port) = One(x.type = type /\ x.port = port)
<1>1. CASE x.type = type /\ x.port = port
  <2>1. {i \in DOMAIN <<x>> : <<x>>[i].type = type /\ <<x>>[i].port = port} = {1}
    BY <1>1
  <2> QED
    BY <1>1, <2>1, FS_Singleton DEF Count, One
<1>2. CASE ~(x.type = type /\ x.port = port)
  <2>1. {i \in DOMAIN <<x>> : <<x>>[i].type = type /\ <<x>>[i].port = port} = {}
    BY <1>2
  <2> QED
    BY <1>2, <2>1, FS_EmptySet DEF Count, One
<1> QED
  BY <1>1, <1>2

LEMMA CountAppend ==
    ASSUME NEW S, NEW s \in Seq(S), NEW x \in S, NEW type, NEW port
    PROVE  Count(Append(s, x), type, port)
             = Count(s, type, port) + One(x.type = type /\ x.port = port)
<1> DEFINE t == <<x>>
<1>1. Append(s, x) = s \o t
  OBVIOUS
<1>2. Count(t, type, port) = One(x.type = type /\ x.port = port)
  BY CountSingle
<1>3. t \in Seq(S)
  OBVIOUS
<1> HIDE DEF t
<1>4. Count(s \o t, type, port) = Count(s, type, port) + Count(t, type, port)
  BY <1>3, CountConcat
<1> QED
  BY <1>1, <1>2, <1>4 DEF One

LEMMA CountTail ==
    ASSUME NEW S, NEW s \in Seq(S), s # <<>>, NEW type, NEW port
    PROVE  Count(s, type, port)
             = One(Head(s).type = type /\ Head(s).port = port) + Count(Tail(s), type, port)
<1> DEFINE h == <<Head(s)>>
           t == Tail(s)
<1>1. s = h \o t
  OBVIOUS
<1>2. Count(h, type, port) = One(Head(s).type = type /\ Head(s).port = port)
  BY CountSingle
<1>3. h \in Seq(S) /\ t \in Seq(S)
  OBVIOUS
<1> HIDE DEF h, t
<1>4. Count(h \o t, type, port) = Count(h, type, port) + Count(t, type, port)
  BY <1>3, CountConcat
<1> QED
  BY <1>1, <1>2, <1>4 DEF One, t

LEMMA CountPair ==
    ASSUME NEW x, NEW y, NEW type, NEW port
    PROVE  Count(<<x, y>>, type, port)
             = One(x.type = type /\ x.port = port) + One(y.type = type /\ y.port = port)
<1> DEFINE s == <<x, y>>
           t == <<y>>
<1>1. s \in Seq({x, y}) /\ s # <<>> /\ Head(s) = x /\ Tail(s) = t
  OBVIOUS
<1>2. Count(t, type, port) = One(y.type = type /\ y.port = port)
  BY CountSingle
<1> HIDE DEF s, t
<1>3. Count(s, type, port)
        = One(Head(s).type = type /\ Head(s).port = port) + Count(Tail(s), type, port)
  BY <1>1, CountTail
<1> QED
  BY <1>1, <1>2, <1>3 DEF One, s

-----------------------------------------------------------------------------
(* The inductive invariant.  The two sums are preserved only together, and   *)
(* only because of what a failed submission can leave in the queue: nothing, *)
(* or the two requests of one message, never those of two messages.          *)

\* The two accounts, of the requests s, the completions q and the senders that
\* are down.
Sums(s, q, off) ==
    /\ \A n \in Senders :
          Count(s, "NEIGHBOR_TIMEOUT", n) + One(timer[n] # "off")
              + Count(q, "NEIGHBOR_TIMEOUT", n) = One(n \in Neighbors \ off)
    /\ Count(s, "MSG_RECEIVED", NoPort) + One(receiving)
           + Count(q, "MSG_RECEIVED", NoPort) = 1

MessageRequests(type, n) == <<Request(type, n), Request("MSG_RECEIVED", NoPort)>>

LeftBehind(s) ==
    s = <<>> \/ \E n \in Senders, type \in {"NEIGHBOR_TIMEOUT", "REARM_TIMER"} :
                   s = MessageRequests(type, n)

Balanced == LeftBehind(sq) /\ Sums(sq, cq, down)

\* Before uring_init the ring is empty and nothing is outstanding.
Idle ==
    /\ sq = <<>> /\ cq = <<>> /\ ~receiving /\ ~ticking
    /\ \A n \in Senders : timer[n] = "off"
    /\ down = {}

AccountingInv ==
    /\ TypeInv
    /\ down \subseteq Neighbors
    /\ pc = "init" => Idle
    /\ running /\ pc \notin {"init", "exit"} => Balanced

-----------------------------------------------------------------------------
(* What one submission moves from the queue into the kernel.                *)

\* A request is in a queue exactly when it is counted there.
LEMMA HasRequestCount ==
    ASSUME NEW s \in Seq(Requests), NEW type, NEW port
    PROVE  HasRequest(s, type, port) <=> Count(s, type, port) # 0
<1>1. /\ IsFiniteSet(Matches(s, type, port))
      /\ Count(s, type, port) = Cardinality(Matches(s, type, port))
  BY CountType
<1>2. Count(s, type, port) # 0 <=> Matches(s, type, port) # {}
  BY <1>1, FS_EmptySet
<1>3. ASSUME NEW i \in Matches(s, type, port)
      PROVE  s[i] = Request(type, port)
  <2>1. i \in DOMAIN s /\ s[i] \in Requests /\ s[i].type = type /\ s[i].port = port
    BY DEF Matches
  <2> QED
    BY <2>1 DEF Request, Requests
<1>4. ASSUME NEW i \in DOMAIN s, s[i] = Request(type, port)
      PROVE  i \in Matches(s, type, port)
  BY <1>4 DEF Matches, Request
<1>5. HasRequest(s, type, port) <=> \E i \in DOMAIN s : s[i] = Request(type, port)
  BY DEF HasRequest, Range
<1>6. \A i \in Matches(s, type, port) : i \in DOMAIN s
  BY DEF Matches
<1> QED
  BY <1>2, <1>3, <1>4, <1>5, <1>6

\* A timer or a receive that was requested and is not outstanding yet becomes so.
LEMMA OutstandingSum ==
    ASSUME NEW s \in Seq(Requests), Outstanding(s)
    PROVE  /\ \A n \in Senders :
                 Count(s, "NEIGHBOR_TIMEOUT", n) + One(timer[n] # "off") \in {0, 1} =>
                     One(timer'[n] # "off")
                       = Count(s, "NEIGHBOR_TIMEOUT", n) + One(timer[n] # "off")
           /\ Count(s, "MSG_RECEIVED", NoPort) + One(receiving) \in {0, 1} =>
                 One(receiving') = Count(s, "MSG_RECEIVED", NoPort) + One(receiving)
<1>1. ASSUME NEW n \in Senders,
             Count(s, "NEIGHBOR_TIMEOUT", n) + One(timer[n] # "off") \in {0, 1}
      PROVE  One(timer'[n] # "off")
                 = Count(s, "NEIGHBOR_TIMEOUT", n) + One(timer[n] # "off")
  <2>1. timer'[n] = IF Count(s, "NEIGHBOR_TIMEOUT", n) # 0 THEN "armed" ELSE timer[n]
    BY HasRequestCount DEF Outstanding
  <2>2. Count(s, "NEIGHBOR_TIMEOUT", n) \in Nat
    BY CountType
  <2> QED
    BY <1>1, <2>1, <2>2 DEF One
<1>2. ASSUME Count(s, "MSG_RECEIVED", NoPort) + One(receiving) \in {0, 1}
      PROVE  One(receiving') = Count(s, "MSG_RECEIVED", NoPort) + One(receiving)
  <2>1. receiving' <=> (receiving \/ Count(s, "MSG_RECEIVED", NoPort) # 0)
    BY HasRequestCount DEF Outstanding
  <2>2. Count(s, "MSG_RECEIVED", NoPort) \in Nat
    BY CountType
  <2> QED
    BY <1>2, <2>1, <2>2 DEF One
<1> QED
  BY <1>1, <1>2

\* What a submission completes at once is neither a timeout nor a receive.
LEMMA SubmitCount ==
    ASSUME TypeInv, NEW s \in Seq(Requests), NEW q \in Seq(Completions(msginfo)),
           NEW k \in 0..neighbor_count, NEW type \in {"NEIGHBOR_TIMEOUT", "MSG_RECEIVED"},
           NEW port
    PROVE  /\ q \o UpdateCompletions(s) \in Seq(Completions(msginfo))
           /\ Count(q \o UpdateCompletions(s), type, port) = Count(q, type, port)
           /\ Count(q \o UpdateCompletions(s) \o SentCompletions(k), type, port)
                = Count(q, type, port)
<1> DEFINE u == UpdateCompletions(s)
           v == SentCompletions(k)
<1>1. u \in Seq(Completions(msginfo)) /\ v \in Seq(Completions(msginfo))
  BY SubmitType, SentType
<1>2. Count(u, type, port) = 0
  <2>1. \A i \in DOMAIN u : u[i].type = "REARM_TIMER"
    BY DEF UpdateCompletions, Completion
  <2>2. \A i \in DOMAIN u : ~(u[i].type = type /\ u[i].port = port)
    BY <2>1
  <2> HIDE DEF u
  <2> QED
    BY <1>1, <2>2, CountNone
<1>3. Count(v, type, port) = 0
  <2>1. \A i \in DOMAIN v : v[i].type = "MSG_SENT"
    BY DEF SentCompletions, Completion
  <2>2. \A i \in DOMAIN v : ~(v[i].type = type /\ v[i].port = port)
    BY <2>1
  <2> HIDE DEF v
  <2> QED
    BY <1>1, <2>2, CountNone
<1> HIDE DEF u, v
<1>4. q \o u \in Seq(Completions(msginfo))
  BY <1>1
<1>5. Count(q \o u, type, port) = Count(q, type, port) + Count(u, type, port)
  BY <1>1, CountConcat
<1>6. Count(q \o u \o v, type, port) = Count(q \o u, type, port) + Count(v, type, port)
  <2> DEFINE w == q \o u
  <2>1. w \in Seq(Completions(msginfo))
    BY <1>4
  <2> HIDE DEF w
  <2>2. Count(w \o v, type, port) = Count(w, type, port) + Count(v, type, port)
    BY <1>1, <2>1, CountConcat
  <2> QED
    BY <2>2 DEF w
<1>7. Count(q, type, port) \in Nat
  BY CountType
<1> QED
  BY <1>2, <1>3, <1>4, <1>5, <1>6, <1>7 DEF u, v

-----------------------------------------------------------------------------
(* The steps that move requests and completions.                            *)

\* An empty submission queue counts for nothing.
LEMMA EmptyQueue ==
    ASSUME NEW type, NEW port
    PROVE  Count(<<>>, type, port) = 0
<1>1. <<>> \in Seq({}) /\ \A i \in DOMAIN <<>> : FALSE
  OBVIOUS
<1> QED
  BY <1>1, CountNone

\* A submission of all that is prepared keeps the sums.
LEMMA SubmitBalanced ==
    ASSUME NEW s \in Seq(Requests), NEW q \in Seq(Completions(msginfo)),
           Sums(s, q, down'), Outstanding(s), sq' = <<>>,
           \A type \in {"NEIGHBOR_TIMEOUT", "MSG_RECEIVED"}, port \in Senders \cup {NoPort} :
              Count(cq', type, port) = Count(q, type, port)
    PROVE  Balanced'
<1>1. ASSUME NEW n \in Senders
      PROVE  Count(sq', "NEIGHBOR_TIMEOUT", n) + One(timer'[n] # "off")
                + Count(cq', "NEIGHBOR_TIMEOUT", n) = One(n \in Neighbors \ down')
  <2>1. Count(s, "NEIGHBOR_TIMEOUT", n) \in Nat /\ Count(q, "NEIGHBOR_TIMEOUT", n) \in Nat
    BY CountType
  <2>2. Count(s, "NEIGHBOR_TIMEOUT", n) + One(timer[n] # "off") \in {0, 1}
    BY <2>1 DEF One, Sums
  <2>3. One(timer'[n] # "off") = Count(s, "NEIGHBOR_TIMEOUT", n) + One(timer[n] # "off")
    BY <2>2, OutstandingSum
  <2>4. Count(sq', "NEIGHBOR_TIMEOUT", n) = 0
    BY EmptyQueue
  <2>5. Count(cq', "NEIGHBOR_TIMEOUT", n) = Count(q, "NEIGHBOR_TIMEOUT", n)
    OBVIOUS
  <2>6. One(timer'[n] # "off") + Count(q, "NEIGHBOR_TIMEOUT", n) = One(n \in Neighbors \ down')
    BY <2>3 DEF Sums
  <2> QED
    BY <2>1, <2>4, <2>5, <2>6 DEF One
<1>2. Count(sq', "MSG_RECEIVED", NoPort) + One(receiving')
         + Count(cq', "MSG_RECEIVED", NoPort) = 1
  <2>1. Count(s, "MSG_RECEIVED", NoPort) \in Nat /\ Count(q, "MSG_RECEIVED", NoPort) \in Nat
    BY CountType
  <2>2. Count(s, "MSG_RECEIVED", NoPort) + One(receiving) \in {0, 1}
    BY <2>1 DEF One, Sums
  <2>3. One(receiving') = Count(s, "MSG_RECEIVED", NoPort) + One(receiving)
    BY <2>2, OutstandingSum
  <2>4. Count(sq', "MSG_RECEIVED", NoPort) = 0
    BY EmptyQueue
  <2>5. Count(cq', "MSG_RECEIVED", NoPort) = Count(q, "MSG_RECEIVED", NoPort)
    OBVIOUS
  <2>6. One(receiving') + Count(q, "MSG_RECEIVED", NoPort) = 1
    BY <2>3 DEF Sums
  <2> QED
    BY <2>1, <2>4, <2>5, <2>6 DEF One
<1> QED
  BY <1>1, <1>2 DEF Balanced, LeftBehind, Sums

\* send_to_neighbors: whatever it leaves in the queue when it fails, it has then
\* stopped the router.
LEMMA SendBalanced ==
    ASSUME TypeInv, NEW q \in Seq(Completions(msginfo)), send_to_neighbors(q), running',
           Sums(sq, q, down), down' = down
    PROVE  Balanced'
<1>1. /\ Outstanding(sq)
      /\ cq' = q \o UpdateCompletions(sq) \o SentCompletions(neighbor_count)
      /\ sq' = <<>>
  BY DEF send_to_neighbors, GiveUp
<1>2. sq \in Seq(Requests) /\ neighbor_count \in 0..neighbor_count
  BY SendersType DEF TypeInv, TypeOK, Requests
<1>3. \A type \in {"NEIGHBOR_TIMEOUT", "MSG_RECEIVED"}, port \in Senders \cup {NoPort} :
         Count(cq', type, port) = Count(q, type, port)
  BY <1>1, <1>2, SubmitCount
<1> QED
  BY <1>1, <1>2, <1>3, SubmitBalanced

\* A completion that is neither a timeout nor a receive counts for nothing.
LEMMA OtherHead ==
    ASSUME NEW m, NEW q \in Seq(Completions(m)), q # <<>>,
           Head(q).type \notin {"NEIGHBOR_TIMEOUT", "MSG_RECEIVED"}, NEW s, Sums(s, q, down)
    PROVE  Sums(s, Tail(q), down)
<1>1. Tail(q) \in Seq(Completions(m))
  OBVIOUS
<1>2. \A type \in {"NEIGHBOR_TIMEOUT", "MSG_RECEIVED"}, port \in Senders \cup {NoPort} :
         Count(q, type, port) = Count(Tail(q), type, port)
  <2> SUFFICES ASSUME NEW type \in {"NEIGHBOR_TIMEOUT", "MSG_RECEIVED"},
                      NEW port \in Senders \cup {NoPort}
               PROVE  Count(q, type, port) = Count(Tail(q), type, port)
    OBVIOUS
  <2>1. Count(q, type, port)
          = One(Head(q).type = type /\ Head(q).port = port) + Count(Tail(q), type, port)
    BY CountTail
  <2>2. Count(Tail(q), type, port) \in Nat
    BY <1>1, CountType
  <2> QED
    BY <2>1, <2>2 DEF One
<1> QED
  BY <1>2 DEF Sums

\* The queue a handler starts with is empty when a message is next, because a
\* message whose requests are still in the queue has not been received yet.
LEMMA EmptyAtMessage ==
    ASSUME TypeInv, Balanced, cq # <<>>, Head(cq).type = "MSG_RECEIVED"
    PROVE  /\ sq = <<>> /\ ~receiving
           /\ Tail(cq) \in Seq(Completions(msginfo))
           /\ Count(Tail(cq), "MSG_RECEIVED", NoPort) = 0
           /\ \A n \in Senders : Count(Tail(cq), "NEIGHBOR_TIMEOUT", n) = Count(cq, "NEIGHBOR_TIMEOUT", n)
<1>1. cq \in Seq(Completions(msginfo)) /\ sq \in Seq(Requests) /\ Tail(cq) \in Seq(Completions(msginfo))
  BY DEF TypeInv, TypeOK, Requests
<1>2. Head(cq).port = NoPort
  BY <1>1 DEF Completions
<1>3. Count(cq, "MSG_RECEIVED", NoPort) = 1 + Count(Tail(cq), "MSG_RECEIVED", NoPort)
  <2>1. Count(cq, "MSG_RECEIVED", NoPort)
          = One(Head(cq).type = "MSG_RECEIVED" /\ Head(cq).port = NoPort)
              + Count(Tail(cq), "MSG_RECEIVED", NoPort)
    BY <1>1, CountTail
  <2> QED
    BY <1>2, <2>1 DEF One
<1>4. /\ Count(sq, "MSG_RECEIVED", NoPort) \in Nat
      /\ Count(Tail(cq), "MSG_RECEIVED", NoPort) \in Nat
  BY <1>1, CountType
<1>5. /\ Count(sq, "MSG_RECEIVED", NoPort) = 0 /\ ~receiving
      /\ Count(Tail(cq), "MSG_RECEIVED", NoPort) = 0
  BY <1>3, <1>4 DEF Balanced, Sums, One
<1>6. sq = <<>>
  <2>1. SUFFICES ASSUME NEW n \in Senders, NEW type, sq = MessageRequests(type, n)
                 PROVE  FALSE
    BY DEF Balanced, LeftBehind
  <2>2. Range(sq) = {Request(type, n), Request("MSG_RECEIVED", NoPort)}
    BY <2>1 DEF MessageRequests, Range
  <2> QED
    BY <1>1, <1>5, <2>2, HasRequestCount DEF HasRequest
<1>7. ASSUME NEW n \in Senders
      PROVE  Count(Tail(cq), "NEIGHBOR_TIMEOUT", n) = Count(cq, "NEIGHBOR_TIMEOUT", n)
  <2>1. Count(cq, "NEIGHBOR_TIMEOUT", n)
          = One(Head(cq).type = "NEIGHBOR_TIMEOUT" /\ Head(cq).port = n)
              + Count(Tail(cq), "NEIGHBOR_TIMEOUT", n)
    BY <1>1, CountTail
  <2>2. Count(Tail(cq), "NEIGHBOR_TIMEOUT", n) \in Nat
    BY <1>1, CountType
  <2> QED
    BY <2>1, <2>2 DEF One
<1> QED
  BY <1>1, <1>5, <1>6, <1>7

\* What the requests of one message count for.
LEMMA MessageCount ==
    ASSUME NEW type \in {"NEIGHBOR_TIMEOUT", "REARM_TIMER"}, NEW n \in Senders
    PROVE  /\ MessageRequests(type, n) \in Seq(Requests)
           /\ Count(MessageRequests(type, n), "MSG_RECEIVED", NoPort) = 1
           /\ \A w \in Senders :
                 Count(MessageRequests(type, n), "NEIGHBOR_TIMEOUT", w)
                   = One(type = "NEIGHBOR_TIMEOUT" /\ w = n)
<1> DEFINE x == Request(type, n)
           y == Request("MSG_RECEIVED", NoPort)
<1>1. x \in Requests /\ y \in Requests
  BY SendersType DEF Request, Requests, RequestTypes
<1>2. /\ x.type = type /\ x.port = n /\ y.type = "MSG_RECEIVED" /\ y.port = NoPort
  BY DEF Request
<1> HIDE DEF x, y
<1>3. Count(<<x, y>>, "MSG_RECEIVED", NoPort) = 1
  <2>1. Count(<<x, y>>, "MSG_RECEIVED", NoPort)
          = One(x.type = "MSG_RECEIVED" /\ x.port = NoPort)
              + One(y.type = "MSG_RECEIVED" /\ y.port = NoPort)
    BY CountPair
  <2> QED
    BY <1>2, <2>1 DEF One
<1>4. ASSUME NEW w \in Senders
      PROVE  Count(<<x, y>>, "NEIGHBOR_TIMEOUT", w) = One(type = "NEIGHBOR_TIMEOUT" /\ w = n)
  <2>1. Count(<<x, y>>, "NEIGHBOR_TIMEOUT", w)
          = One(x.type = "NEIGHBOR_TIMEOUT" /\ x.port = w)
              + One(y.type = "NEIGHBOR_TIMEOUT" /\ y.port = w)
    BY CountPair
  <2> QED
    BY <1>2, <2>1 DEF One
<1>5. <<x, y>> \in Seq(Requests)
  BY <1>1
<1> QED
  BY <1>3, <1>4, <1>5 DEF MessageRequests, x, y

\* The handler of a message keeps the accounts even when its one submit fails.
LEMMA ReceivedBalanced ==
    ASSUME TypeInv, down \subseteq Neighbors, Balanced, MsgReceived, running'
    PROVE  Balanced'
<1> DEFINE n == msginfo.from
           q == Tail(cq)
           type == IF n \in down THEN "NEIGHBOR_TIMEOUT" ELSE "REARM_TIMER"
           requests == MessageRequests(type, n)
<1>1. cq # <<>> /\ Head(cq).type = "MSG_RECEIVED" /\ Head(cq).res # "error"
  BY DEF MsgReceived, Handling
<1>2. n \in Senders /\ down' = down \ {n}
  BY <1>1, ReceiveOk
<1>3. /\ sq = <<>> /\ ~receiving /\ q \in Seq(Completions(msginfo))
      /\ Count(q, "MSG_RECEIVED", NoPort) = 0
      /\ \A w \in Senders : Count(q, "NEIGHBOR_TIMEOUT", w) = Count(cq, "NEIGHBOR_TIMEOUT", w)
  BY <1>1, EmptyAtMessage
<1>4. /\ requests \in Seq(Requests) /\ Count(requests, "MSG_RECEIVED", NoPort) = 1
      /\ \A w \in Senders :
            Count(requests, "NEIGHBOR_TIMEOUT", w) = One(type = "NEIGHBOR_TIMEOUT" /\ w = n)
  BY <1>2, MessageCount
<1>5. Sums(requests, q, down')
  <2>1. ASSUME NEW w \in Senders
        PROVE  Count(requests, "NEIGHBOR_TIMEOUT", w) + One(timer[w] # "off")
                  + Count(q, "NEIGHBOR_TIMEOUT", w) = One(w \in Neighbors \ down')
    <3>1. One(timer[w] # "off") + Count(q, "NEIGHBOR_TIMEOUT", w) = One(w \in Neighbors \ down)
      <4>1. Count(sq, "NEIGHBOR_TIMEOUT", w) = 0
        BY <1>3, EmptyQueue
      <4>2. Count(q, "NEIGHBOR_TIMEOUT", w) \in Nat
        BY <1>3, CountType
      <4> QED
        BY <1>3, <4>1, <4>2 DEF Balanced, Sums, One
    <3>2. Count(q, "NEIGHBOR_TIMEOUT", w) \in Nat
      BY <1>3, CountType
    <3> HIDE DEF q, requests
    <3> QED
      BY <1>2, <1>4, <3>1, <3>2 DEF One
  <2>2. Count(requests, "MSG_RECEIVED", NoPort) + One(receiving)
           + Count(q, "MSG_RECEIVED", NoPort) = 1
    BY <1>3, <1>4 DEF One
  <2> QED
    BY <2>1, <2>2 DEF Sums
<1>6. Prepared(HandlerRequests(n)) = requests
  <2>1. HandlerRequests(n) = requests
    BY DEF HandlerRequests, TimerRequest, MessageRequests
  <2>2. Len(sq) + Len(requests) <= SqEntries
    BY <1>3, RingAssumption, ConfigAssumption, SendersType DEF MessageRequests
  <2>3. sq \o requests = requests
    BY <1>3, <1>4
  <2> QED
    BY <2>1, <2>2, <2>3 DEF Prepared
<1>7. CASE Outstanding(requests) /\ cq' = q \o UpdateCompletions(requests) /\ sq' = <<>>
  <2>1. \A t \in {"NEIGHBOR_TIMEOUT", "MSG_RECEIVED"}, port \in Senders \cup {NoPort} :
           Count(cq', t, port) = Count(q, t, port)
    <3>1. 0 \in 0..neighbor_count
      BY SendersType
    <3> HIDE DEF q, requests
    <3> QED
      BY <1>3, <1>4, <1>7, <3>1, SubmitCount
  <2> QED
    BY <1>3, <1>4, <1>5, <1>7, <2>1, SubmitBalanced
<1>8. CASE sq' = requests /\ cq' = q /\ UNCHANGED <<receiving, timer>>
  BY <1>2, <1>5, <1>8 DEF Balanced, LeftBehind, Sums
<1> QED
  BY <1>1, <1>6, <1>7, <1>8 DEF MsgReceived

\* The other handlers keep them too; a timeout leaves the queue as its sender
\* becomes down.
LEMMA HandlersBalanced ==
    ASSUME TypeInv, Balanced, GlobalTimeout \/ NeighborTimeout \/ RearmTimer \/ MsgSent, running'
    PROVE  Balanced' /\ (down \subseteq Neighbors => down' \subseteq Neighbors)
<1>1. cq \in Seq(Completions(msginfo)) /\ cq # <<>> /\ Tail(cq) \in Seq(Completions(msginfo))
  <2>1. cq \in Seq(Completions(msginfo)) /\ cq # <<>>
    BY DEF TypeInv, GlobalTimeout, NeighborTimeout, RearmTimer, MsgSent, Handling
  <2> QED
    BY <2>1
<1>2. CASE ~NeighborTimeout
  <2>1. Head(cq).type \notin {"NEIGHBOR_TIMEOUT", "MSG_RECEIVED"} /\ down' = down
    BY <1>2 DEF GlobalTimeout, RearmTimer, MsgSent, Handling
  <2>2. Sums(sq, Tail(cq), down)
    BY <1>1, <2>1, OtherHead DEF Balanced
  <2>3. CASE GlobalTimeout
    <3>1. send_to_neighbors(Tail(cq))
      BY <2>3 DEF GlobalTimeout
    <3> QED
      BY <1>1, <2>1, <2>2, <3>1, SendBalanced
  <2>4. CASE RearmTimer \/ MsgSent
    <3>1. cq' = Tail(cq) /\ UNCHANGED <<sq, receiving, timer>>
      BY <2>4 DEF RearmTimer, MsgSent
    <3> QED
      BY <2>1, <2>2, <3>1 DEF Balanced, Sums
  <2> QED
    BY <1>2, <2>1, <2>3, <2>4
<1>3. CASE NeighborTimeout
  <2> DEFINE n == Head(cq).port
             q == Tail(cq)
  <2>1. /\ Head(cq).type = "NEIGHBOR_TIMEOUT" /\ down' = down \cup {n}
        /\ cq' = q /\ UNCHANGED <<sq, receiving, timer>>
    BY <1>3 DEF NeighborTimeout, Handling
  <2>2. n \in Senders
    BY <1>1, <2>1 DEF Completions
  <2>3. ASSUME NEW w \in Senders
        PROVE  /\ Count(sq, "NEIGHBOR_TIMEOUT", w) + One(timer[w] # "off")
                     + Count(q, "NEIGHBOR_TIMEOUT", w) = One(w \in Neighbors \ down')
               /\ w = n => w \in Neighbors
    <3>1. Count(cq, "NEIGHBOR_TIMEOUT", w)
            = One(Head(cq).type = "NEIGHBOR_TIMEOUT" /\ Head(cq).port = w)
                + Count(Tail(cq), "NEIGHBOR_TIMEOUT", w)
      BY <1>1, CountTail
    <3>2. Count(cq, "NEIGHBOR_TIMEOUT", w) = One(w = n) + Count(q, "NEIGHBOR_TIMEOUT", w)
      BY <2>1, <3>1 DEF One
    <3>3. /\ Count(sq, "NEIGHBOR_TIMEOUT", w) \in Nat
          /\ Count(q, "NEIGHBOR_TIMEOUT", w) \in Nat
      BY <1>1, CountType DEF TypeInv, TypeOK
    <3>4. Count(sq, "NEIGHBOR_TIMEOUT", w) + One(timer[w] # "off")
            + Count(cq, "NEIGHBOR_TIMEOUT", w) = One(w \in Neighbors \ down)
      BY DEF Balanced, Sums
    <3> HIDE DEF n, q
    <3> QED
      BY <2>1, <3>2, <3>3, <3>4 DEF One
  <2>4. Count(cq, "MSG_RECEIVED", NoPort) = Count(q, "MSG_RECEIVED", NoPort)
    <3>1. Count(cq, "MSG_RECEIVED", NoPort)
            = One(Head(cq).type = "MSG_RECEIVED" /\ Head(cq).port = NoPort)
                + Count(Tail(cq), "MSG_RECEIVED", NoPort)
      BY <1>1, CountTail
    <3>2. Count(Tail(cq), "MSG_RECEIVED", NoPort) \in Nat
      BY <1>1, CountType
    <3> QED
      BY <2>1, <3>1, <3>2 DEF One
  <2>5. Balanced'
    BY <2>1, <2>3, <2>4 DEF Balanced, Sums
  <2> QED
    BY <2>1, <2>2, <2>3, <2>5
<1> QED
  BY <1>2, <1>3

\* What the kernel completes moves from one term of a sum to the next.
LEMMA KernelBalanced ==
    ASSUME TypeInv, Balanced, Kernel
    PROVE  Balanced'
<1>1. cq \in Seq(Completions(msginfo)) /\ sq' = sq /\ down' = down
  BY DEF TypeInv, Kernel, CompleteReceive, TimerExpires, TimerPosts, GlobalTimerFires, process
<1>2. ASSUME NEW c
      PROVE  \A type, port :
                /\ Count(Append(cq, c), type, port)
                     = Count(cq, type, port) + One(c.type = type /\ c.port = port)
                /\ Count(cq, type, port) \in Nat
  <2> DEFINE S == Completions(msginfo) \cup {c}
  <2>1. cq \in Seq(S) /\ c \in S
    BY <1>1, SeqMonotonic
  <2> HIDE DEF S
  <2> QED
    BY <2>1, CountAppend, CountType
<1>3. CASE CompleteReceive
  <2>1. PICK res : cq' = Append(cq, Completion("MSG_RECEIVED", NoPort, res))
    BY <1>3 DEF CompleteReceive
  <2> DEFINE c == Completion("MSG_RECEIVED", NoPort, res)
  <2>2. c.type = "MSG_RECEIVED" /\ c.port = NoPort
    BY DEF Completion
  <2>3. receiving /\ ~receiving' /\ timer' = timer
    BY <1>3 DEF CompleteReceive
  <2>4. ASSUME NEW n \in Senders
        PROVE  Count(cq', "NEIGHBOR_TIMEOUT", n) = Count(cq, "NEIGHBOR_TIMEOUT", n)
    BY <1>2, <2>1, <2>2 DEF One
  <2>5. Count(cq', "MSG_RECEIVED", NoPort) = Count(cq, "MSG_RECEIVED", NoPort) + 1
    BY <1>2, <2>1, <2>2 DEF One
  <2>6. Count(sq, "MSG_RECEIVED", NoPort) \in Nat /\ Count(cq, "MSG_RECEIVED", NoPort) \in Nat
    BY <1>2, CountType DEF TypeInv, TypeOK
  <2> QED
    BY <1>1, <2>3, <2>4, <2>5, <2>6 DEF Balanced, Sums, One
<1>4. CASE \E n \in Senders : TimerExpires(n)
  <2>1. /\ cq' = cq /\ receiving' = receiving
        /\ \A w \in Senders : timer'[w] # "off" <=> timer[w] # "off"
    BY <1>4 DEF TimerExpires, TypeInv, TypeOK
  <2> QED
    BY <1>1, <2>1 DEF Balanced, Sums, One
<1>5. CASE \E n \in Senders : TimerPosts(n)
  <2>1. PICK n \in Senders : TimerPosts(n)
    BY <1>5
  <2>2. PICK res : cq' = Append(cq, Completion("NEIGHBOR_TIMEOUT", n, res))
    BY <2>1 DEF TimerPosts
  <2> DEFINE c == Completion("NEIGHBOR_TIMEOUT", n, res)
  <2>3. c.type = "NEIGHBOR_TIMEOUT" /\ c.port = n
    BY DEF Completion
  <2>4. /\ receiving' = receiving /\ timer[n] # "off" /\ timer'[n] = "off"
        /\ \A w \in Senders : w # n => timer'[w] = timer[w]
    BY <2>1 DEF TimerPosts, TypeInv, TypeOK
  <2>5. ASSUME NEW w \in Senders
        PROVE  Count(cq', "NEIGHBOR_TIMEOUT", w) = Count(cq, "NEIGHBOR_TIMEOUT", w) + One(w = n)
    BY <1>2, <2>2, <2>3 DEF One
  <2>6. Count(cq', "MSG_RECEIVED", NoPort) = Count(cq, "MSG_RECEIVED", NoPort)
    BY <1>2, <2>2, <2>3 DEF One
  <2>7. ASSUME NEW w \in Senders
        PROVE  Count(sq', "NEIGHBOR_TIMEOUT", w) + One(timer'[w] # "off")
                  + Count(cq', "NEIGHBOR_TIMEOUT", w) = One(w \in Neighbors \ down')
    <3>1. /\ Count(sq, "NEIGHBOR_TIMEOUT", w) \in Nat
          /\ Count(cq, "NEIGHBOR_TIMEOUT", w) \in Nat
      BY <1>2, CountType DEF TypeInv, TypeOK
    <3>2. Count(sq, "NEIGHBOR_TIMEOUT", w) + One(timer[w] # "off")
            + Count(cq, "NEIGHBOR_TIMEOUT", w) = One(w \in Neighbors \ down)
      BY DEF Balanced, Sums
    <3> QED
      BY <1>1, <2>4, <2>5, <3>1, <3>2 DEF One
  <2> QED
    BY <1>1, <2>4, <2>6, <2>7 DEF Balanced, Sums
<1>6. CASE GlobalTimerFires
  <2>1. PICK res : cq' = Append(cq, Completion("GLOBAL_TIMEOUT", NoPort, res))
    BY <1>6 DEF GlobalTimerFires
  <2> DEFINE c == Completion("GLOBAL_TIMEOUT", NoPort, res)
  <2>2. c.type = "GLOBAL_TIMEOUT"
    BY DEF Completion
  <2>3. receiving' = receiving /\ timer' = timer
    BY <1>6 DEF GlobalTimerFires
  <2>4. \A port : \A type \in {"NEIGHBOR_TIMEOUT", "MSG_RECEIVED"} :
           Count(cq', type, port) = Count(cq, type, port)
    BY <1>2, <2>1, <2>2 DEF One
  <2> QED
    BY <1>1, <2>3, <2>4 DEF Balanced, Sums
<1> QED
  BY <1>3, <1>4, <1>5, <1>6 DEF Kernel

-----------------------------------------------------------------------------
LEMMA AccountingInit == Init => AccountingInv
<1> SUFFICES ASSUME Init PROVE AccountingInv
  OBVIOUS
<1>1. TypeInv
  BY TypeInit
<1> QED
  BY <1>1 DEF Init, AccountingInv, Idle

\* uring_init arms one timer per neighbor and one receive.
LEMMA UringBalanced ==
    ASSUME Idle, UringInit, pc' # "exit"
    PROVE  Balanced'
<1>1. /\ sq' = <<>> /\ cq' = <<>> /\ receiving' /\ down' = {}
      /\ timer' = [n \in Senders |-> IF n \in Neighbors THEN "armed" ELSE "off"]
  BY DEF Idle, UringInit
<1>2. \A type, port : Count(sq', type, port) = 0 /\ Count(cq', type, port) = 0
  BY <1>1, EmptyQueue
<1> QED
  BY <1>1, <1>2 DEF Balanced, LeftBehind, Sums, One

LEMMA AccountingStep == AccountingInv /\ [Next]_vars => AccountingInv'
<1> SUFFICES ASSUME AccountingInv, [Next]_vars PROVE AccountingInv'
  OBVIOUS
<1>1. TypeInv /\ TypeInv' /\ down \subseteq Neighbors
  BY TypeStep DEF AccountingInv
<1>2. CASE UringInit
  <2>1. Idle /\ pc' # "init" /\ down' = down
    BY <1>2 DEF UringInit, AccountingInv
  <2> QED
    BY <1>1, <1>2, <2>1, UringBalanced DEF AccountingInv
<1>3. CASE FirstSend
  <2>1. pc = "first_send" /\ pc' = "loop" /\ down' = down /\ send_to_neighbors(cq)
    BY <1>3 DEF FirstSend
  <2>2. running' => running
    BY <2>1 DEF send_to_neighbors, GiveUp
  <2>3. running' => Balanced'
    BY <1>1, <2>1, <2>2, SendBalanced DEF AccountingInv, Balanced, TypeInv
  <2> QED
    BY <1>1, <2>1, <2>3 DEF AccountingInv
<1>4. CASE CheckRunning \/ WaitCqe \/ WakeUp \/ BreakLoop \/ FollowNull \/ WaitFails
  <2>1. /\ UNCHANGED <<running, down, sq, cq, receiving, timer>>
        /\ pc' # "init" /\ pc \notin {"init", "exit"}
    BY <1>4 DEF CheckRunning, WaitCqe, WakeUp, BreakLoop, FollowNull, WaitFails, ring
  <2> QED
    BY <1>1, <2>1 DEF AccountingInv, Balanced, LeftBehind, Sums
<1>5. CASE Handlers
  <2>1. running /\ pc = "handle" /\ pc' = "loop" /\ Balanced
    BY <1>5 DEF Handlers, MsgReceived, GlobalTimeout, NeighborTimeout, RearmTimer, MsgSent,
                Handling, AccountingInv
  <2>2. running' => Balanced'
    BY <1>1, <1>5, <2>1, ReceivedBalanced, HandlersBalanced DEF Handlers
  <2>3. down' \subseteq Neighbors
    <3>1. CASE MsgReceived
      BY <1>1, <3>1 DEF MsgReceived
    <3>2. CASE GlobalTimeout \/ NeighborTimeout \/ RearmTimer \/ MsgSent
      <4>1. CASE running'
        BY <1>1, <2>1, <3>2, <4>1, HandlersBalanced
      <4>2. CASE ~running'
        <5>1. down' = down
          BY <3>2, <4>2, <2>1 DEF GlobalTimeout, NeighborTimeout, RearmTimer, MsgSent
        <5> QED
          BY <1>1, <5>1
      <4> QED
        BY <4>1, <4>2
    <3> QED
      BY <1>5, <3>1, <3>2 DEF Handlers
  <2> QED
    BY <1>1, <2>1, <2>2, <2>3 DEF AccountingInv
<1>6. CASE Kernel
  <2>1. UNCHANGED <<pc, running, down>>
    BY <1>6 DEF Kernel, CompleteReceive, TimerExpires, TimerPosts, GlobalTimerFires, process
  <2>2. pc # "init"
    BY <1>6 DEF Kernel, CompleteReceive, TimerExpires, TimerPosts, GlobalTimerFires,
                AccountingInv, Idle
  <2> QED
    BY <1>1, <1>6, <2>1, <2>2, KernelBalanced DEF AccountingInv
<1>7. CASE (\E d \in Datagrams : Deliver(d)) \/ UNCHANGED vars
  <2>1. UNCHANGED <<pc, running, down, sq, cq, receiving, timer, ticking>>
    BY <1>7 DEF Deliver, vars, process, ring
  <2> QED
    BY <1>1, <2>1 DEF AccountingInv, Balanced, LeftBehind, Sums, Idle
<1>8. CASE Sigint
  <2>1. /\ ~running' /\ UNCHANGED <<down, sq, cq, receiving, timer, ticking>>
        /\ pc' = "init" => pc = "init"
    BY <1>8 DEF Sigint, ring
  <2> QED
    BY <1>1, <2>1 DEF AccountingInv, Idle
<1> QED
  BY <1>2, <1>3, <1>4, <1>5, <1>6, <1>7, <1>8 DEF Next, Main, Exited

LEMMA AccountingInvariance == Spec => []AccountingInv
  BY AccountingInit, AccountingStep, PTL DEF Spec

\* As long as main goes round its loop, every neighbor that is up has exactly one
\* five-second timer on its way and nobody else has one: a timer is armed again
\* only when its neighbor was down, updated otherwise, and a failed submission
\* neither loses nor doubles it.
THEOREM TimersAccounted == Spec => []TimerAccounting
<1>1. AccountingInv => TimerAccounting
  BY DEF AccountingInv, Looping, Alive, Balanced, Sums, TimerAccounting
<1> QED
  BY <1>1, AccountingInvariance, PTL

\* So the router never stops listening, and recvmsg never writes msginfo while a
\* message in it waits to be handled.
THEOREM ReceiveAccounted == Spec => []ReceiveAccounting
<1>1. AccountingInv => ReceiveAccounting
  BY DEF AccountingInv, Looping, Alive, Balanced, Sums, ReceiveAccounting
<1> QED
  BY <1>1, AccountingInvariance, PTL

\* And io_uring_get_sqe always finds a free entry: four are enough, because what
\* a failed submission leaves behind is the two requests of one message.
THEOREM SqeAlwaysAvailable == Spec => []SqeAvailable
<1>1. AccountingInv => SqeAvailable
  <2> SUFFICES ASSUME AccountingInv, pc = "handle", Looping, cq # <<>>
               PROVE  /\ Head(cq).type = "MSG_RECEIVED" => Len(sq) + 2 <= SqEntries
                      /\ Len(sq) < SqEntries
    BY DEF SqeAvailable
  <2>1. TypeInv /\ Balanced
    BY DEF AccountingInv, Looping, Alive
  <2>2. SqEntries \in Nat /\ SqEntries >= 4
    BY RingAssumption, ConfigAssumption, SendersType
  <2>3. sq = <<>> \/ Len(sq) = 2
    BY <2>1 DEF Balanced, LeftBehind, MessageRequests
  <2>4. Head(cq).type = "MSG_RECEIVED" => sq = <<>>
    BY <2>1, EmptyAtMessage
  <2>5. Head(cq).type = "MSG_RECEIVED" => Len(sq) = 0
    BY <2>4
  <2>6. Len(sq) \in {0, 2}
    BY <2>3
  <2>7. \A k \in {0, 2} : k < SqEntries
    BY <2>2
  <2>8. 0 + 2 <= SqEntries
    BY <2>2
  <2> QED
    BY <2>5, <2>6, <2>7, <2>8
<1> QED
  BY <1>1, AccountingInvariance, PTL

=============================================================================
