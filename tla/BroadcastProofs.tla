-------------------------- MODULE BroadcastProofs --------------------------
(***************************************************************************)
(* What the neighbors get out of the one message buffer, for every list of *)
(* neighbors, every change of the table and any number of sends that the   *)
(* kernel puts off.                                                        *)
(***************************************************************************)
EXTENDS Broadcast, SequenceTheorems, TLAPS

-----------------------------------------------------------------------------
(* The inductive invariant: types; how far the buffer has been filled; and   *)
(* what is true of every send the kernel still holds.                        *)

Pairs == [id : Ports \cup {NoPort}, cost : Costs]

Sends == [to : Ports, len : 1..MAX_ROUTERS, meant : Seq(Pairs)]

TypeInv ==
    /\ pc \in {"elsewhere", "ids", "costs", "submit", "exit"}
    /\ i \in 1..neighbor_count
    /\ routers \in Seq(Ports) /\ Len(routers) \in 1..MAX_ROUTERS
    /\ table \in [Ports -> Entry]
    /\ msg_buf \in [1..MAX_ROUTERS -> Pairs]

\* The first len entries of the buffer name the first len routers of the list.
Named(len) == \A k \in 1..len : msg_buf[k].id = routers[k]

\* Main fills in the ids of all entries, and then the costs for one neighbor
\* after the other.
Filling ==
    /\ pc = "ids" => j \in 1..Len(routers) /\ Named(j - 1)
    /\ pc = "costs" => /\ j \in 1..Len(routers) /\ Named(Len(routers))
                       /\ \A k \in 1..(j - 1) :
                             msg_buf[k].cost = told_cost(table, routers[k], neighbor_info[i])
    /\ pc = "submit" => /\ j = 1
                        /\ \A k \in 1..Len(routers) : msg_buf[k] = Message(neighbor_info[i])[k]
                        /\ prepared = <<Send(neighbor_info[i])>>
    /\ pc \in {"elsewhere", "ids", "costs"} => prepared = <<>>

\* A send the kernel may still execute names the routers that were listed when it
\* was made, and so does the part of the buffer it will read.
GoodSends ==
    { s \in Sends : /\ Len(s.meant) = s.len /\ s.len <= Len(routers)
                    /\ \A k \in 1..s.len : s.meant[k].id = routers[k]
                    /\ Named(s.len) }

SentInv ==
    /\ TypeInv
    /\ Filling
    /\ late \in Seq(GoodSends)
    /\ LockedIn
    /\ IdsIntact

-----------------------------------------------------------------------------
LEMMA NeighborsType ==
    /\ neighbor_count \in Nat \ {0}
    /\ \A k \in 1..neighbor_count : neighbor_info[k] \in Ports
  BY BroadcastAssumption DEF neighbor_count

\* What a neighbor is told is a 32-bit cost.
LEMMA ToldType ==
    ASSUME NEW t \in [Ports -> Entry], NEW id \in Ports, NEW n
    PROVE  told_cost(t, id, n) \in Costs
  BY LimitsAssumption DEF told_cost, Entry, Infinity, Costs

\* A full buffer is the message, and the send of it is good.
LEMMA MessageType ==
    ASSUME TypeInv, NEW n \in Ports
    PROVE  /\ Message(n) \in Seq(Pairs) /\ Len(Message(n)) = Len(routers)
           /\ \A k \in 1..Len(routers) :
                 /\ Message(n)[k] = [id |-> routers[k], cost |-> told_cost(table, routers[k], n)]
                 /\ Message(n)[k].id = routers[k]
           /\ Send(n) \in Sends
           /\ Named(Len(routers)) => Send(n) \in GoodSends
<1>1. /\ DOMAIN routers = 1..Len(routers) /\ Len(routers) \in 1..MAX_ROUTERS
      /\ \A k \in 1..Len(routers) : routers[k] \in Ports
  BY DEF TypeInv
<1>2. \A k \in 1..Len(routers) : told_cost(table, routers[k], n) \in Costs
  BY <1>1, ToldType DEF TypeInv
<1>3. \A k \in 1..Len(routers) :
         Message(n)[k] = [id |-> routers[k], cost |-> told_cost(table, routers[k], n)]
  BY <1>1 DEF Message
<1>8. \A k \in 1..Len(routers) : Message(n)[k].id = routers[k]
  BY <1>1 DEF Message
<1>4. Message(n) \in [1..Len(routers) -> Pairs]
  BY <1>1, <1>2 DEF Message, Pairs
<1>5. Message(n) \in Seq(Pairs) /\ Len(Message(n)) = Len(routers)
  BY <1>1, <1>4, LimitsAssumption
<1>6. Send(n) \in Sends /\ Send(n).len = Len(routers) /\ Send(n).meant = Message(n)
  BY <1>1, <1>5 DEF Send, Sends
<1>7. Named(Len(routers)) => Send(n) \in GoodSends
  <2> DEFINE s == Send(n)
  <2>1. \A k \in 1..Len(routers) : s.meant[k].id = routers[k]
    BY <1>6, <1>8
  <2>2. s \in Sends /\ s.len = Len(routers) /\ Len(s.meant) = s.len
    BY <1>5, <1>6
  <2>3. s.len <= Len(routers)
    BY <1>1, <2>2
  <2> HIDE DEF s
  <2> QED
    BY <2>1, <2>2, <2>3 DEF GoodSends, Named, s
<1> QED
  BY <1>3, <1>5, <1>6, <1>7, <1>8

\* The datagram made of a good send names what it was to name.
LEMMA DatagramNames ==
    ASSUME TypeInv, NEW s \in GoodSends, NEW body, body = SubSeq(msg_buf, 1, s.len)
    PROVE  /\ body \in Seq(Pairs) /\ Len(body) = s.len /\ Len(s.meant) = s.len
           /\ \A k \in 1..s.len : body[k] = msg_buf[k]
           /\ \A k \in DOMAIN body : body[k].id = s.meant[k].id
<1>1. s.len \in 1..MAX_ROUTERS /\ s.len <= MAX_ROUTERS /\ Len(s.meant) = s.len
  BY DEF GoodSends, Sends
<1>2. msg_buf \in Seq(Pairs) /\ Len(msg_buf) = MAX_ROUTERS
  BY LimitsAssumption DEF TypeInv
<1>3. body \in Seq(Pairs) /\ Len(body) = s.len
  BY <1>1, <1>2
<1>4. \A k \in 1..s.len : body[k] = msg_buf[k]
  BY <1>1, <1>2
<1>5. \A k \in 1..s.len : msg_buf[k].id = s.meant[k].id
  BY DEF GoodSends, Named
<1> QED
  BY <1>1, <1>3, <1>4, <1>5

LEMMA SentInit == Init => SentInv
<1> SUFFICES ASSUME Init PROVE SentInv
  OBVIOUS
<1>1. /\ routers \in Seq(Ports) /\ Len(routers) = 1 + neighbor_count
  <2>1. <<Self>> \in Seq(Ports) /\ neighbor_info \in Seq(Ports) /\ Len(<<Self>>) = 1
    BY BroadcastAssumption, SeqMonotonic
  <2> QED
    BY <2>1 DEF Init, NothingSent, neighbor_count
<1>2. Len(routers) \in 1..MAX_ROUTERS
  BY <1>1, NeighborsType, BroadcastAssumption, LimitsAssumption
<1>3. table \in [Ports -> Entry]
  <2>1. 0 \in Costs /\ 1 \in Costs
    BY LimitsAssumption DEF Costs
  <2> QED
    BY <2>1 DEF Init, NothingSent, init_table, BlankEntry, Entry
<1>4. msg_buf \in [1..MAX_ROUTERS -> Pairs]
  BY LimitsAssumption DEF Init, NothingSent, Pairs, Costs
<1>5. TypeInv
  BY <1>1, <1>2, <1>3, <1>4, NeighborsType DEF Init, NothingSent, TypeInv
<1>6. Filling
  BY DEF Init, NothingSent, Filling
<1>7. late \in Seq(GoodSends) /\ LockedIn /\ IdsIntact
  BY DEF Init, NothingSent, NoDatagram, LockedIn, IdsIntact
<1> QED
  BY <1>5, <1>6, <1>7 DEF SentInv

\* A change of the list or of the buffer that leaves the named part alone keeps
\* every good send good.
LEMMA GoodSendsStay ==
    ASSUME SentInv, Len(routers) <= Len(routers'), Len(routers') \in Nat,
           \A k \in 1..Len(routers) : routers'[k] = routers[k],
           \A k \in 1..Len(routers) : msg_buf[k].id = routers[k] => msg_buf'[k].id = routers[k]
    PROVE  /\ GoodSends \subseteq GoodSends'
           /\ late \in Seq(GoodSends')
<1>1. Len(routers) \in Nat
  BY DEF SentInv, TypeInv
<1>2. ASSUME NEW s \in GoodSends PROVE s \in GoodSends'
  <2>1. /\ s \in Sends /\ Len(s.meant) = s.len /\ s.len <= Len(routers)
        /\ \A k \in 1..s.len : s.meant[k].id = routers[k] /\ msg_buf[k].id = routers[k]
    BY DEF GoodSends, Named
  <2>2. s.len \in Nat /\ s.len <= Len(routers') /\ 1..s.len \subseteq 1..Len(routers)
    BY <1>1, <2>1, LimitsAssumption DEF Sends
  <2>3. \A k \in 1..s.len : s.meant[k].id = routers'[k] /\ msg_buf'[k].id = routers'[k]
    BY <2>1, <2>2
  <2> QED
    BY <2>1, <2>2, <2>3 DEF GoodSends, Named
<1>3. GoodSends \subseteq GoodSends' /\ late \in Seq(GoodSends)
  BY <1>2 DEF SentInv
<1> QED
  BY <1>3, SeqMonotonic

LEMMA ChangeSent == ASSUME SentInv, ChangeTable PROVE SentInv'
<1>1. /\ TypeInv /\ Filling /\ pc = "elsewhere"
      /\ UNCHANGED <<pc, i, j, msg_buf, prepared, late, last>>
  BY DEF SentInv, ChangeTable
<1>2. PICK ch \in Changes :
        /\ table' = [table EXCEPT ![ch.id] = ch.entry]
        /\ routers' = IF ch.id \in ToSet(routers) THEN routers ELSE Append(routers, ch.id)
        /\ Len(routers') <= MAX_ROUTERS
  BY DEF ChangeTable, Listed
<1>3. ch.id \in Ports /\ ch.entry \in Entry
  BY BroadcastAssumption
<1>4. /\ routers' \in Seq(Ports) /\ Len(routers) <= Len(routers') /\ Len(routers') \in 1..MAX_ROUTERS
      /\ \A k \in 1..Len(routers) : routers'[k] = routers[k]
  <2>1. routers \in Seq(Ports) /\ Len(routers) \in Nat /\ Len(routers) >= 1
    BY <1>1, LimitsAssumption DEF TypeInv
  <2>2. CASE routers' = routers
    BY <1>1, <2>1, <2>2 DEF TypeInv
  <2>3. CASE routers' = Append(routers, ch.id)
    <3>1. routers' \in Seq(Ports) /\ Len(routers') = Len(routers) + 1
      BY <1>3, <2>1, <2>3
    <3>2. \A k \in 1..Len(routers) : routers'[k] = routers[k]
      BY <2>1, <2>3
    <3> QED
      BY <1>2, <2>1, <3>1, <3>2, LimitsAssumption
  <2> QED
    BY <1>2, <2>2, <2>3
<1>5. TypeInv'
  <2>1. table' \in [Ports -> Entry]
    BY <1>1, <1>2, <1>3 DEF TypeInv
  <2> QED
    BY <1>1, <1>4, <2>1 DEF TypeInv
<1>6. late' \in Seq(GoodSends')
  BY <1>1, <1>4, GoodSendsStay
<1> QED
  BY <1>1, <1>5, <1>6 DEF SentInv, Filling, LockedIn, IdsIntact

LEMMA TickSent == ASSUME SentInv, Tick PROVE SentInv'
<1>1. /\ TypeInv /\ Filling /\ pc = "elsewhere" /\ pc' = "ids" /\ i' = 1 /\ j' = 1
      /\ UNCHANGED <<routers, table, msg_buf, prepared, late, last>>
  BY DEF SentInv, Tick
<1>2. TypeInv'
  BY <1>1, NeighborsType DEF TypeInv
<1>3. 1 \in 1..Len(routers) /\ 1..(1 - 1) = {}
  BY <1>1, LimitsAssumption DEF TypeInv
<1>4. Filling'
  BY <1>1, <1>3 DEF Filling, Named
<1>5. late' \in Seq(GoodSends')
  BY <1>1, <1>3, GoodSendsStay
<1> QED
  BY <1>1, <1>2, <1>4, <1>5 DEF SentInv, LockedIn, IdsIntact

LEMMA WriteIdSent == ASSUME SentInv, WriteId PROVE SentInv'
<1>1. /\ TypeInv /\ Filling /\ pc = "ids" /\ UNCHANGED <<i, routers, table, prepared, late, last>>
      /\ msg_buf' = [msg_buf EXCEPT ![j].id = routers[j]]
      /\ j \in 1..Len(routers) /\ Named(j - 1) /\ prepared = <<>>
  BY DEF SentInv, WriteId, Filling
<1>2. Len(routers) \in Nat /\ Len(routers) <= MAX_ROUTERS /\ MAX_ROUTERS \in Nat
  BY <1>1, LimitsAssumption DEF TypeInv
<1>3. routers[j] \in Ports /\ j \in 1..MAX_ROUTERS
  BY <1>1, <1>2 DEF TypeInv
<1>4. /\ msg_buf' \in [1..MAX_ROUTERS -> Pairs]
      /\ \A k \in 1..MAX_ROUTERS : k # j => msg_buf'[k] = msg_buf[k]
      /\ msg_buf'[j].id = routers[j]
  BY <1>1, <1>3 DEF TypeInv, Pairs
<1>5. \A k \in 1..j : msg_buf'[k].id = routers'[k]
  BY <1>1, <1>2, <1>3, <1>4 DEF Named
<1>6. /\ j < Len(routers) => pc' = "ids" /\ j' = j + 1
      /\ ~(j < Len(routers)) => pc' = "costs" /\ j' = 1 /\ j = Len(routers)
  BY <1>1, <1>2 DEF WriteId
<1>7. TypeInv'
  BY <1>1, <1>4, <1>6 DEF TypeInv
<1>8. Filling'
  <2>1. CASE j < Len(routers)
    <3>1. j' \in 1..Len(routers) /\ j' - 1 = j
      BY <1>1, <1>2, <1>6, <2>1
    <3> QED
      BY <1>1, <1>5, <1>6, <2>1, <3>1 DEF Filling, Named
  <2>2. CASE ~(j < Len(routers))
    <3>1. j' \in 1..Len(routers) /\ 1..(j' - 1) = {}
      BY <1>1, <1>2, <1>6, <2>2
    <3> QED
      BY <1>1, <1>5, <1>6, <2>2, <3>1 DEF Filling, Named
  <2> QED
    BY <2>1, <2>2
<1>9. late' \in Seq(GoodSends')
  <2>1. \A k \in 1..Len(routers) : msg_buf[k].id = routers[k] => msg_buf'[k].id = routers[k]
    BY <1>1, <1>2, <1>4
  <2> QED
    BY <1>1, <1>2, <2>1, GoodSendsStay
<1> QED
  BY <1>1, <1>7, <1>8, <1>9 DEF SentInv, LockedIn, IdsIntact

LEMMA WriteCostSent == ASSUME SentInv, WriteCost PROVE SentInv'
<1> DEFINE n == neighbor_info[i]
           told(k) == told_cost(table, routers[k], n)
<1>1. /\ TypeInv /\ Filling /\ pc = "costs" /\ UNCHANGED <<i, routers, table, late, last>>
      /\ msg_buf' = [msg_buf EXCEPT ![j].cost = told_cost(table, msg_buf[j].id, n)]
      /\ j \in 1..Len(routers) /\ Named(Len(routers)) /\ prepared = <<>>
      /\ \A k \in 1..(j - 1) : msg_buf[k].cost = told(k)
  BY DEF SentInv, WriteCost, Filling
<1>2. Len(routers) \in Nat /\ Len(routers) <= MAX_ROUTERS /\ MAX_ROUTERS \in Nat
  BY <1>1, LimitsAssumption DEF TypeInv
<1>3. /\ routers[j] \in Ports /\ j \in 1..MAX_ROUTERS /\ n \in Ports
      /\ told(j) \in Costs /\ msg_buf[j].id = routers[j]
  <2>1. routers[j] \in Ports /\ j \in 1..MAX_ROUTERS /\ n \in Ports
    BY <1>1, <1>2, NeighborsType DEF TypeInv
  <2> QED
    BY <1>1, <2>1, ToldType DEF TypeInv, Named
<1>4. /\ msg_buf' \in [1..MAX_ROUTERS -> Pairs]
      /\ \A k \in 1..MAX_ROUTERS : k # j => msg_buf'[k] = msg_buf[k]
      /\ msg_buf'[j].id = routers[j] /\ msg_buf'[j].cost = told(j)
  <2> HIDE DEF n
  <2> QED
    BY <1>1, <1>3 DEF TypeInv, Pairs
<1>5. Named(Len(routers))'
  BY <1>1, <1>2, <1>4 DEF Named
<1>6. \A k \in 1..j : msg_buf'[k].cost = told(k)
  BY <1>1, <1>2, <1>4
<1>7. /\ j < Len(routers) => pc' = "costs" /\ j' = j + 1 /\ prepared' = <<>>
      /\ ~(j < Len(routers)) => /\ pc' = "submit" /\ j' = 1 /\ j = Len(routers)
                                /\ prepared' = <<Send(n)>>
  <2>1. Append(prepared, Send(n)) = <<Send(n)>>
    BY <1>1
  <2> QED
    BY <1>1, <1>2, <2>1 DEF WriteCost
<1>8. TypeInv'
  BY <1>1, <1>4, <1>7 DEF TypeInv
<1>9. Filling'
  <2>1. CASE j < Len(routers)
    <3>1. j' \in 1..Len(routers) /\ j' - 1 = j
      BY <1>1, <1>2, <1>7, <2>1
    <3> QED
      BY <1>1, <1>5, <1>6, <1>7, <2>1, <3>1 DEF Filling
  <2>2. CASE ~(j < Len(routers))
    <3>1. ASSUME NEW k \in 1..Len(routers)
          PROVE  msg_buf'[k] = Message(n)[k]
      <4>1. /\ msg_buf'[k] \in Pairs /\ msg_buf'[k].id = routers[k] /\ msg_buf'[k].cost = told(k)
        BY <1>1, <1>2, <1>4, <1>5, <1>6, <1>7, <2>2 DEF Named
      <4>2. Message(n)[k] = [id |-> routers[k], cost |-> told(k)]
        BY <1>1, <1>3, MessageType
      <4> QED
        BY <4>1, <4>2 DEF Pairs
    <3>2. Message(n)' = Message(n) /\ Send(n)' = Send(n)
      BY <1>1 DEF Message, Send
    <3> QED
      BY <1>1, <1>7, <2>2, <3>1, <3>2 DEF Filling
  <2> QED
    BY <2>1, <2>2
<1>10. late' \in Seq(GoodSends')
  <2>1. \A k \in 1..Len(routers) : msg_buf[k].id = routers[k] => msg_buf'[k].id = routers[k]
    BY <1>1, <1>2, <1>4
  <2> QED
    BY <1>1, <1>2, <2>1, GoodSendsStay
<1> QED
  BY <1>1, <1>8, <1>9, <1>10 DEF SentInv, LockedIn, IdsIntact

LEMMA SubmitSent == ASSUME SentInv, Submit \/ SubmitFails PROVE SentInv'
<1> DEFINE n == neighbor_info[i]
           s == Send(n)
<1>1. /\ TypeInv /\ Filling /\ pc = "submit" /\ UNCHANGED <<j, routers, table, msg_buf>> /\ j = 1
      /\ \A k \in 1..Len(routers) : msg_buf[k] = Message(n)[k]
      /\ prepared = <<s>>
  BY DEF SentInv, Submit, SubmitFails, Filling
<1>2. Len(routers) \in Nat /\ Len(routers) <= MAX_ROUTERS /\ 1 \in 1..Len(routers)
  BY <1>1, LimitsAssumption DEF TypeInv
<1>3. n \in Ports
  BY <1>1, NeighborsType DEF TypeInv
<1>4. Named(Len(routers))
  BY <1>1, <1>3, MessageType DEF Named
<1>5. s \in GoodSends /\ s.len = Len(routers) /\ s.meant = Message(n)
  BY <1>1, <1>3, <1>4, MessageType DEF Send
<1>6. late \in Seq(GoodSends) /\ LockedIn /\ IdsIntact
  BY DEF SentInv
<1>7. GoodSends \subseteq GoodSends'
  BY <1>1, <1>2, GoodSendsStay
<1>8. CASE SubmitFails
  <2>1. pc' = "exit" /\ UNCHANGED <<i, late, last>>
    BY <1>8 DEF SubmitFails
  <2>2. late' \in Seq(GoodSends')
    BY <1>6, <1>7, <2>1, SeqMonotonic
  <2> QED
    BY <1>1, <1>6, <2>1, <2>2 DEF SentInv, TypeInv, Filling, LockedIn, IdsIntact
<1>9. CASE Submit
  <2>1. TypeInv' /\ pc' \in {"costs", "elsewhere"} /\ prepared' = <<>>
    BY <1>1, <1>9, NeighborsType DEF Submit, NextNeighbor, TypeInv
  <2>2. Filling'
    <3>1. 1..(1 - 1) = {}
      OBVIOUS
    <3> QED
      BY <1>1, <1>2, <1>4, <2>1, <3>1 DEF Filling, Named
  <2>3. CASE last' = Datagram(Head(prepared), TRUE) /\ UNCHANGED late
    <3>1. last' = Datagram(s, TRUE)
      BY <1>1, <2>3
    <3>7. last'.body = SubSeq(msg_buf, 1, s.len) /\ last'.meant = s.meant
      BY <3>1 DEF Datagram
    <3> DEFINE body == last'.body
               meant == last'.meant
    <3>2. body = SubSeq(msg_buf, 1, s.len) /\ meant = s.meant
      BY <3>7
    <3>3. Message(n) \in Seq(Pairs) /\ \A k \in 1..Len(routers) : msg_buf[k] = Message(n)[k]
      BY <1>1, <1>3, MessageType
    <3> HIDE DEF s, body, meant
    <3>4. /\ body \in Seq(Pairs) /\ meant \in Seq(Pairs) /\ Len(body) = Len(meant)
          /\ \A k \in 1..Len(body) : body[k] = meant[k]
          /\ \A k \in DOMAIN body : body[k].id = meant[k].id
      BY <1>1, <1>5, <3>2, <3>3, DatagramNames
    <3>8. body = meant
      BY <3>4
    <3>5. LockedIn' /\ IdsIntact'
      BY <3>4, <3>8 DEF LockedIn, IdsIntact, body, meant
    <3>6. late' \in Seq(GoodSends')
      BY <1>6, <1>7, <2>3, SeqMonotonic
    <3> QED
      BY <2>1, <2>2, <3>5, <3>6 DEF SentInv
  <2>4. CASE late' = late \o prepared /\ UNCHANGED last
    <3>1. late' \in Seq(GoodSends)
      BY <1>1, <1>5, <1>6, <2>4
    <3>2. late' \in Seq(GoodSends')
      BY <1>7, <3>1, SeqMonotonic
    <3> QED
      BY <1>6, <2>1, <2>2, <2>4, <3>2 DEF SentInv, LockedIn, IdsIntact
  <2> QED
    BY <1>9, <2>3, <2>4 DEF Submit
<1> QED
  BY <1>8, <1>9

LEMMA SendLateSent == ASSUME SentInv, SendLate PROVE SentInv'
<1>1. /\ TypeInv /\ Filling /\ UNCHANGED <<pc, i, j, routers, table, msg_buf, prepared>>
      /\ late \in Seq(GoodSends)
  BY DEF SentInv, SendLate
<1>2. PICK k \in DOMAIN late : last' = Datagram(late[k], FALSE) /\ late' = RemoveAt(late, k)
  BY DEF SendLate
<1>3. k \in 1..Len(late) /\ late[k] \in GoodSends
  BY <1>1, <1>2
<1>4. LockedIn' /\ IdsIntact'
  <2> DEFINE s == late[k]
  <2>1. s \in GoodSends /\ last' = Datagram(s, FALSE)
    BY <1>2, <1>3
  <2>3. last'.prompt = FALSE /\ last'.body = SubSeq(msg_buf, 1, s.len) /\ last'.meant = s.meant
    BY <2>1 DEF Datagram
  <2> DEFINE body == last'.body
             meant == last'.meant
  <2>2. body = SubSeq(msg_buf, 1, s.len) /\ meant = s.meant
    BY <2>3
  <2> HIDE DEF s, body, meant
  <2>4. Len(body) = Len(meant) /\ \A n \in DOMAIN body : body[n].id = meant[n].id
    BY <1>1, <2>1, <2>2, DatagramNames
  <2> QED
    BY <2>3, <2>4 DEF LockedIn, IdsIntact, body, meant
<1>5. late' \in Seq(GoodSends)
  <2>1. SubSeq(late, 1, k - 1) \in Seq(GoodSends)
    BY <1>1, <1>3
  <2>2. SubSeq(late, k + 1, Len(late)) \in Seq(GoodSends)
    BY <1>1, <1>3
  <2> QED
    BY <1>2, <2>1, <2>2 DEF RemoveAt
<1>6. Len(routers) \in Nat
  BY <1>1, LimitsAssumption DEF TypeInv
<1>7. late' \in Seq(GoodSends')
  BY <1>1, <1>5, <1>6, GoodSendsStay, SeqMonotonic
<1> QED
  BY <1>1, <1>4, <1>7 DEF SentInv, TypeInv, Filling, Named, Message, Send

LEMMA SentStep == SentInv /\ [Next]_vars => SentInv'
<1> SUFFICES ASSUME SentInv, [Next]_vars PROVE SentInv'
  OBVIOUS
<1>1. CASE UNCHANGED vars
  <2>1. UNCHANGED <<pc, i, j, routers, table, msg_buf, prepared, late, last>>
    BY <1>1 DEF vars
  <2>2. Len(routers) \in Nat
    BY LimitsAssumption DEF SentInv, TypeInv
  <2>3. late' \in Seq(GoodSends')
    BY <2>1, <2>2, GoodSendsStay
  <2> QED
    BY <2>1, <2>3 DEF SentInv, TypeInv, Filling, Named, Message, Send, LockedIn, IdsIntact
<1> QED
  BY <1>1, ChangeSent, TickSent, WriteIdSent, WriteCostSent, SubmitSent, SendLateSent
     DEF Next, Exited

LEMMA SentInvariance == Spec => []SentInv
  BY SentInit, SentStep, PTL DEF Spec

\* What the kernel sends at once is the vector that was poisoned for the neighbor
\* it goes to, although the one buffer is overwritten for each neighbor in turn.
THEOREM AlwaysLockedIn == Spec => []LockedIn
<1>1. SentInv => LockedIn
  BY DEF SentInv
<1> QED
  BY <1>1, SentInvariance, PTL

\* However late the kernel reads the buffer, the ids in it are those the message
\* was to name: WriteId never changes an id that has been written.
THEOREM IdsAlwaysIntact == Spec => []IdsIntact
<1>1. SentInv => IdsIntact
  BY DEF SentInv
<1> QED
  BY <1>1, SentInvariance, PTL

=============================================================================
