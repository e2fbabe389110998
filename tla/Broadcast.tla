----------------------------- MODULE Broadcast -----------------------------
(***************************************************************************)
(* send_to_neighbors at the level of single writes to its one message      *)
(* buffer.  The buffer is filled for the first neighbor, its send is       *)
(* submitted, then it is overwritten for the next.  The kernel reads the   *)
(* buffer when it executes the send: during the submission if the socket   *)
(* has room, otherwise at some later moment, in the middle of anything     *)
(* main may be doing.                                                      *)
(***************************************************************************)
EXTENDS DistanceVector, SequencesExt

CONSTANTS
    Self,            \* this router's own port
    neighbor_info,   \* the neighbors' ports, in command-line order
    Changes,         \* what messages and timeouts may do to the table: [id, entry]
    LateBound        \* bound: sends the kernel has put off

neighbor_count == Len(neighbor_info)

ASSUME BroadcastAssumption ==
    /\ Self \in Ports
    /\ neighbor_info \in Seq(Ports \ {Self})
    /\ neighbor_count > 0 /\ neighbor_count < MAX_ROUTERS
    /\ \A ch \in Changes : ch.id \in Ports \ {Self} /\ ch.entry \in Entry
    /\ LateBound \in Nat

VARIABLES
    pc,          \* where main is: elsewhere, filling in ids or costs, submitting;
                 \* or past its loop
    i,           \* the neighbor being sent to
    j,           \* the entry of the buffer being written
    routers,     \* known_routers, in order
    table,       \* all_routers: cost and next_hop
    msg_buf,     \* the message buffer
    prepared,    \* sends in the submission queue
    late,        \* sends the kernel has put off
    last         \* the datagram that was sent last, with what it was to say
                 \* and whether it was sent when it was submitted

vars == <<pc, i, j, routers, table, msg_buf, prepared, late, last>>

\* What the buffer holds for neighbor n when it has been filled.
Message(n) == [k \in DOMAIN routers |->
                  [id |-> routers[k], cost |-> told_cost(table, routers[k], n)]]

\* A send: destination, length, and, for the properties, the message meant.
Send(n) == [to |-> n, len |-> Len(routers), meant |-> Message(n)]

\* The datagram the kernel makes of a send: what the buffer holds now.
Datagram(s, prompt) ==
    [to |-> s.to, body |-> SubSeq(msg_buf, 1, s.len), meant |-> s.meant, prompt |-> prompt]

NoDatagram == [to |-> NoPort, body |-> <<>>, meant |-> <<>>, prompt |-> TRUE]

NothingSent ==
    /\ pc = "elsewhere"
    /\ i = 1 /\ j = 1
    /\ msg_buf = [k \in 1..MAX_ROUTERS |-> [id |-> NoPort, cost |-> 0]]
    /\ prepared = <<>>
    /\ late = <<>>
    /\ last = NoDatagram

Init ==
    /\ NothingSent
    /\ routers = <<Self>> \o neighbor_info
    /\ table = init_table(Self, ToSet(neighbor_info), [n \in ToSet(neighbor_info) |-> 1])

-----------------------------------------------------------------------------
\* Variant: a new router is put in front of the list.
Listed_first(id) == <<id>> \o routers

\* ListAppend, for a router heard of for the first time.
Listed(id) == Append(routers, id)

\* A handler changes a route, or adds a router to the list if there is room.
ChangeTable ==
    /\ pc = "elsewhere"
    /\ \E ch \in Changes :
          /\ table' = [table EXCEPT ![ch.id] = ch.entry]
          /\ routers' = IF ch.id \in ToSet(routers) THEN routers ELSE Listed(ch.id)
          /\ Len(routers') <= MAX_ROUTERS
    /\ UNCHANGED <<pc, i, j, msg_buf, prepared, late, last>>

Tick ==
    /\ pc = "elsewhere"
    /\ pc' = "ids"
    /\ i' = 1 /\ j' = 1
    /\ UNCHANGED <<routers, table, msg_buf, prepared, late, last>>

WriteId ==
    /\ pc = "ids"
    /\ msg_buf' = [msg_buf EXCEPT ![j].id = routers[j]]
    /\ IF j < Len(routers) THEN j' = j + 1 /\ pc' = pc ELSE j' = 1 /\ pc' = "costs"
    /\ UNCHANGED <<i, routers, table, prepared, late, last>>

WriteCost ==
    /\ pc = "costs"
    /\ msg_buf' = [msg_buf EXCEPT ![j].cost = told_cost(table, msg_buf[j].id, neighbor_info[i])]
    /\ IF j < Len(routers)
       THEN j' = j + 1 /\ UNCHANGED <<pc, prepared>>
       ELSE j' = 1 /\ pc' = "submit" /\ prepared' = Append(prepared, Send(neighbor_info[i]))
    /\ UNCHANGED <<i, routers, table, late, last>>

\* On to the next neighbor, or back to the loop of main.
NextNeighbor ==
    IF i < neighbor_count
    THEN i' = i + 1 /\ pc' = "costs"
    ELSE i' = 1 /\ pc' = "elsewhere"

\* Variant: one submission for all neighbors.
Submit_once ==
    /\ pc = "submit"
    /\ IF i < neighbor_count
       THEN UNCHANGED <<prepared, late, last>>
       ELSE /\ prepared' = <<>>
            /\ last' = Datagram(Head(prepared), TRUE)
            /\ late' = Tail(prepared)
    /\ NextNeighbor
    /\ UNCHANGED <<j, routers, table, msg_buf>>

\* io_uring_submit: the kernel takes the send and executes it or puts it off.
Submit ==
    /\ pc = "submit"
    /\ prepared' = <<>>
    /\ \/ /\ last' = Datagram(Head(prepared), TRUE)
          /\ UNCHANGED late
       \/ /\ Len(late) < LateBound
          /\ late' = late \o prepared
          /\ UNCHANGED last
    /\ NextNeighbor
    /\ UNCHANGED <<j, routers, table, msg_buf>>

\* Nothing was submitted: running is cleared and the other neighbors get nothing.
SubmitFails ==
    /\ pc = "submit"
    /\ pc' = "exit"
    /\ UNCHANGED <<i, j, routers, table, msg_buf, prepared, late, last>>

Exited == pc = "exit" /\ UNCHANGED vars

\* The socket has room again.
SendLate ==
    /\ \E k \in DOMAIN late :
          /\ last' = Datagram(late[k], FALSE)
          /\ late' = RemoveAt(late, k)
    /\ UNCHANGED <<pc, i, j, routers, table, msg_buf, prepared>>

Next ==
    \/ ChangeTable
    \/ Tick \/ WriteId \/ WriteCost \/ Submit \/ SubmitFails \/ Exited
    \/ SendLate

Spec == Init /\ [][Next]_vars

-----------------------------------------------------------------------------
(* Properties                                                              *)

\* "The msg_buffer is locked in when submit is called, [...] so whatever the current
\* contents of the msg buffer is when submit is called will be the buffer that is
\* sent" (designdoc.txt): although all share one buffer, each neighbor gets the vector
\* that was poisoned for it.  This is so for sends the kernel executes at once.
LockedIn == last.prompt => last.body = last.meant

\* A datagram names the routers that were known when it was submitted, in order,
\* even if the kernel reads the buffer much later or while main is writing to it:
\* the list only grows at its end.
IdsIntact ==
    /\ Len(last.body) = Len(last.meant)
    /\ \A k \in DOMAIN last.body : last.body[k].id = last.meant[k].id
=============================================================================
