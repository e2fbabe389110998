------------------------------- MODULE Router -------------------------------
(***************************************************************************)
(* One router process (router.c): the main loop, the requests it keeps in  *)
(* its io_uring, and the kernel, the clock and the network around it.      *)
(*                                                                         *)
(* The process has one thread.  It takes completions from the ring one at  *)
(* a time and runs one handler per completion; a handler is one action.    *)
(* Between two of its steps the kernel completes requests, timers expire,  *)
(* datagrams arrive and SIGINT may be delivered.                           *)
(***************************************************************************)
EXTENDS DistanceVector, Sequences, Functions

CONSTANTS
    Self,            \* this router's own port
    neighbor_info,   \* the neighbors' ports, in command-line order
    Strangers,       \* routers that list Self as a neighbor and are not listed
    initial_cost,    \* link cost of each sender (0 for a stranger)
    Datagrams,       \* the messages that may arrive
    SqEntries,       \* size of the submission queue
    CqEntries,       \* size of the completion queue
    Faults,          \* the kinds of system-call failure that may happen
    Watched,         \* neighbors whose timer is assumed to expire (fairness)
    InboxBound,      \* bound: datagrams queued in the socket
    TickBound        \* bound: unhandled completions of the global timer

neighbor_count == Len(neighbor_info)

Neighbors == Range(neighbor_info)

Senders == Neighbors \cup Strangers

\* A router's message names each port at most once.
NoDatagram == [from |-> NoPort, body |-> <<>>]

IsDatagram(d) ==
    /\ d.from \in Senders
    /\ DOMAIN d.body \subseteq Ports
    /\ \A id \in DOMAIN d.body : d.body[id] \in Costs

ASSUME ConfigAssumption ==
    /\ Self \in Ports
    /\ neighbor_info \in Seq(Ports \ {Self})
    /\ neighbor_count > 0 /\ neighbor_count < MAX_ROUTERS
    /\ \A i, j \in 1..neighbor_count : neighbor_info[i] = neighbor_info[j] => i = j
    /\ Strangers \subseteq Ports \ (Neighbors \cup {Self})
    /\ initial_cost \in [Senders -> Costs]
    /\ \A n \in Strangers : initial_cost[n] = 0

ASSUME DatagramsAssumption ==
    /\ \A d \in Datagrams : d = [from |-> d.from, body |-> d.body] /\ IsDatagram(d)
    /\ NoDatagram \notin Datagrams

\* What routers that run this program on positive link costs send as long as
\* no path cost outgrows 32 bits.  The code checks none of it; theorems and runs
\* that rest on it say so.
HonestCosts ==
    /\ \A n \in Neighbors : initial_cost[n] \in 1..INT_MAX
    /\ \A d \in Datagrams : \A id \in DOMAIN d.body :
          \/ d.body[id] = Infinity /\ id # d.from
          \/ d.body[id] \in 0..(INT_MAX - initial_cost[d.from]) /\ (id = d.from => d.body[id] = 0)

\* io_uring_queue_init asks for 2 + 2 * neighbor_count; the kernel rounds up, and
\* makes the completion queue twice as long.
ASSUME RingAssumption ==
    /\ SqEntries \in Nat /\ SqEntries >= 2 + 2 * neighbor_count
    /\ CqEntries \in Nat /\ CqEntries >= SqEntries
    /\ Faults \subseteq {"submit", "receive", "timer", "wait"}
    /\ Watched \subseteq Neighbors
    /\ InboxBound \in Nat /\ TickBound \in Nat

VARIABLES
    pc,          \* where main() is
    running,     \* the flag that main's loop and the signal handler share
    table,       \* all_routers: cost and next_hop of every port
    known,       \* known_routers
    down,        \* senders whose down flag is set
    sq,          \* requests prepared and not submitted yet
    cq,          \* completions not handled yet, oldest first
    receiving,   \* kernel: a recvmsg request is outstanding
    msginfo,     \* the one buffer recvmsg fills
    timer,       \* kernel: the five-second timer of each sender
    ticking,     \* kernel: the two-second multishot timer is armed
    inbox        \* datagrams queued in the socket

process == <<pc, running, table, known, down>>
ring == <<sq, cq, receiving, timer, ticking>>
vars == <<process, ring, msginfo, inbox>>

-----------------------------------------------------------------------------
(* Requests and completions.  user_data carries a type and a port.          *)

RequestTypes == {"MSG_SENT", "MSG_RECEIVED", "GLOBAL_TIMEOUT", "NEIGHBOR_TIMEOUT",
                 "REARM_TIMER"}

Request(type, port) == [type |-> type, port |-> port]

Completion(type, port, res) == [type |-> type, port |-> port, res |-> res]

Results == {"ok", "ETIME", "ENOENT", "EALREADY", "error"}

\* "armed": the timer runs; "firing": its callback has started and can no longer
\* be cancelled; "off": there is no such timer, or it has posted its completion.
TimerStates == {"off", "armed", "firing"}

TypeOK ==
    /\ pc \in {"init", "first_send", "loop", "wait", "blocked", "handle", "null", "exit", "crash"}
    /\ running \in BOOLEAN
    /\ table \in [Ports -> Entry]
    /\ known \subseteq Ports
    /\ down \subseteq Senders
    /\ sq \in Seq([type : RequestTypes, port : Ports \cup {NoPort}])
    /\ cq \in Seq([type : RequestTypes, port : Ports \cup {NoPort}, res : Results])
    /\ receiving \in BOOLEAN
    /\ msginfo \in Datagrams \cup {NoDatagram}
    /\ timer \in [Senders -> TimerStates]
    /\ ticking \in BOOLEAN
    /\ inbox \in Seq(Datagrams)

\* init_neighbors has run; the ring and the socket exist and are empty, and the
\* signal handler is installed.
Init ==
    /\ pc = "init"
    /\ running = TRUE
    /\ table = init_table(Self, Neighbors, initial_cost)
    /\ known = {Self} \cup Neighbors
    /\ down = {}
    /\ sq = <<>> /\ cq = <<>>
    /\ receiving = FALSE
    /\ msginfo = NoDatagram
    /\ timer = [n \in Senders |-> "off"]
    /\ ticking = FALSE
    /\ inbox = <<>>

-----------------------------------------------------------------------------
(* Submission.  The kernel executes the requests of the queue in order; a   *)
(* receive or a timer stays outstanding, an update and a send complete at   *)
(* once.  The queue never holds two updates: see RouterProofs.              *)

HasRequest(s, type, port) == Request(type, port) \in Range(s)

Updates(s) == {n \in Senders : HasRequest(s, "REARM_TIMER", n)}

\* prep_timeout_update on a timer that runs restarts it, on one whose callback
\* is executing fails with EALREADY, on one that is gone fails with ENOENT.
UpdateResult(n) ==
    CASE timer[n] = "armed" -> "ok"
      [] timer[n] = "firing" -> "EALREADY"
      [] timer[n] = "off" -> "ENOENT"

UpdateCompletions(s) ==
    IF Updates(s) = {} THEN <<>>
    ELSE LET n == CHOOSE n \in Updates(s) : TRUE
         IN <<Completion("REARM_TIMER", n, UpdateResult(n))>>

\* What io_uring_submit changes in the kernel when it takes the requests s.
Outstanding(s) ==
    /\ receiving' = (receiving \/ HasRequest(s, "MSG_RECEIVED", NoPort))
    /\ timer' = [n \in Senders |->
                    IF HasRequest(s, "NEIGHBOR_TIMEOUT", n) THEN "armed" ELSE timer[n]]

\* io_uring_get_sqe for each request in turn: NULL once the queue is full.
Prepared(requests) ==
    IF Len(sq) + Len(requests) <= SqEntries
    THEN sq \o requests
    ELSE SubSeq(sq \o requests, 1, SqEntries)

SentCompletions(k) == [i \in 1..k |-> Completion("MSG_SENT", neighbor_info[i], "ok")]

\* Variant: the router carries on after a failed submission.
GiveUp_not == UNCHANGED running

GiveUp == running' = FALSE

\* send_to_neighbors: one request per neighbor, each submitted on its own; it
\* gives up, and stops the router, at the first failure.  q is the completion
\* queue without the completion that is being handled.
send_to_neighbors(q) ==
    IF Len(sq) >= SqEntries
    THEN /\ GiveUp
         /\ cq' = q
         /\ UNCHANGED <<sq, receiving, timer>>
    ELSE \/ /\ Outstanding(sq)
            /\ cq' = q \o UpdateCompletions(sq) \o SentCompletions(neighbor_count)
            /\ sq' = <<>>
            /\ UNCHANGED running
         \/ /\ "submit" \in Faults
            /\ GiveUp
            /\ cq' = q
            /\ sq' = Append(sq, Request("MSG_SENT", neighbor_info[1]))
            /\ UNCHANGED <<receiving, timer>>
         \/ \E k \in 1..(neighbor_count - 1) :
            /\ "submit" \in Faults
            /\ GiveUp
            /\ Outstanding(sq)
            /\ cq' = q \o UpdateCompletions(sq) \o SentCompletions(k)
            /\ sq' = <<Request("MSG_SENT", neighbor_info[k + 1])>>

-----------------------------------------------------------------------------
(* Start-up and the main loop.                                              *)

\* prep_global_timer: the flags of the two-second timer.
global_timer_flags == {"IORING_TIMEOUT_MULTISHOT"}

\* uring_init: the receive request, the global timer and one timer per neighbor
\* go out in one submission; a failure leads straight to cleanup.
UringInit ==
    /\ pc = "init"
    /\ \/ /\ pc' = "first_send"
          /\ receiving' = TRUE
          /\ ticking' = TRUE
          /\ timer' = [n \in Senders |-> IF n \in Neighbors THEN "armed" ELSE "off"]
       \/ /\ "submit" \in Faults
          /\ pc' = "exit"
          /\ UNCHANGED <<receiving, ticking, timer>>
    /\ UNCHANGED <<running, table, known, down, sq, cq, msginfo, inbox>>

FirstSend ==
    /\ pc = "first_send"
    /\ send_to_neighbors(cq)
    /\ pc' = "loop"
    /\ UNCHANGED <<table, known, down, ticking, msginfo, inbox>>

\* while (running), and the cleanup after the loop.
CheckRunning ==
    /\ pc = "loop"
    /\ pc' = IF running THEN "wait" ELSE "exit"
    /\ UNCHANGED <<running, table, known, down, ring, msginfo, inbox>>

\* io_uring_wait_cqe looks at the queue first and blocks only if it is empty.
WaitCqe ==
    /\ pc = "wait"
    /\ pc' = IF cq # <<>> THEN "handle" ELSE "blocked"
    /\ UNCHANGED <<running, table, known, down, ring, msginfo, inbox>>

WakeUp ==
    /\ pc = "blocked"
    /\ cq # <<>>
    /\ pc' = "handle"
    /\ UNCHANGED <<running, table, known, down, ring, msginfo, inbox>>

\* Variant: running is not tested again after the wait.
BreakLoop_not ==
    /\ pc \in {"handle", "null"}
    /\ ~running
    /\ pc' = IF pc = "null" THEN "crash" ELSE "loop"
    /\ UNCHANGED <<running, table, known, down, ring, msginfo, inbox>>

\* if (!running) break: the signal handler was called while main was waiting.
BreakLoop ==
    /\ pc \in {"handle", "null"}
    /\ ~running
    /\ pc' = "exit"
    /\ UNCHANGED <<running, table, known, down, ring, msginfo, inbox>>

\* main reads cqe->user_data through the null pointer that a wait without a
\* completion leaves in cqe.  Undefined in C; the process dies without cleanup.
FollowNull ==
    /\ pc = "null"
    /\ running
    /\ pc' = "crash"
    /\ UNCHANGED <<running, table, known, down, ring, msginfo, inbox>>

\* The completion at the head of the queue selects the handler; after the
\* handler io_uring_cqe_seen releases it.
Handling(type) ==
    /\ pc = "handle"
    /\ running
    /\ cq # <<>>
    /\ Head(cq).type = type
    /\ pc' = "loop"

\* Variant: the timer is armed again whether or not it still runs.
TimerRequest_always_arms(n) == Request("NEIGHBOR_TIMEOUT", n)

\* rearm_neighbor_timer for a neighbor that is up, arm_neighbor_timer otherwise.
TimerRequest(n) ==
    IF n \in down THEN Request("NEIGHBOR_TIMEOUT", n) ELSE Request("REARM_TIMER", n)

\* Variant: the next receive is forgotten.
HandlerRequests_deaf(n) == <<TimerRequest(n)>>

\* What a received message makes the router ask of the ring.
HandlerRequests(n) == <<TimerRequest(n), Request("MSG_RECEIVED", NoPort)>>

\* case MSG_RECEIVED: the timer, the pairs of the message, the next receive,
\* then one submit whose result is not looked at.
MsgReceived ==
    /\ Handling("MSG_RECEIVED")
    /\ IF Head(cq).res = "error"
       THEN /\ running' = FALSE
            /\ cq' = Tail(cq)
            /\ UNCHANGED <<table, known, down, sq, receiving, timer>>
       ELSE LET n == msginfo.from
                requests == HandlerRequests(n)
            IN /\ IF Len(sq) + Len(requests) <= SqEntries
                  THEN UNCHANGED running
                  ELSE running' = FALSE
               /\ down' = down \ {n}
               /\ \E new \in Admitted(known, DOMAIN msginfo.body) :
                     /\ known' = known \cup new
                     /\ table' = process_pairs(table, known, new, n, initial_cost[n],
                                               msginfo.body)
               /\ \/ /\ Outstanding(Prepared(requests))
                     /\ cq' = Tail(cq) \o UpdateCompletions(Prepared(requests))
                     /\ sq' = <<>>
                  \/ /\ "submit" \in Faults
                     /\ sq' = Prepared(requests)
                     /\ cq' = Tail(cq)
                     /\ UNCHANGED <<receiving, timer>>
    /\ UNCHANGED <<ticking, msginfo, inbox>>

\* case GLOBAL_TIMEOUT
GlobalTimeout ==
    /\ Handling("GLOBAL_TIMEOUT")
    /\ IF Head(cq).res # "ETIME"
       THEN /\ running' = FALSE
            /\ cq' = Tail(cq)
            /\ UNCHANGED <<sq, receiving, timer>>
       ELSE send_to_neighbors(Tail(cq))
    /\ UNCHANGED <<table, known, down, ticking, msginfo, inbox>>

\* Variant: the routes are purged but the neighbor is not marked down.
NeighborTimeout_unmarked ==
    /\ Handling("NEIGHBOR_TIMEOUT")
    /\ table' = purge_neighbor(table, known, Head(cq).port)
    /\ cq' = Tail(cq)
    /\ UNCHANGED <<running, known, down, sq, receiving, timer, ticking, msginfo, inbox>>

\* case NEIGHBOR_TIMEOUT
NeighborTimeout ==
    /\ Handling("NEIGHBOR_TIMEOUT")
    /\ LET n == Head(cq).port IN
       IF Head(cq).res = "ETIME"
       THEN /\ table' = purge_neighbor(table, known, n)
            /\ down' = down \cup {n}
            /\ UNCHANGED running
       ELSE /\ running' = FALSE
            /\ UNCHANGED <<table, down>>
    /\ cq' = Tail(cq)
    /\ UNCHANGED <<known, sq, receiving, timer, ticking, msginfo, inbox>>

\* Variant: ENOENT is tolerated too.
RearmTimer_lenient ==
    /\ Handling("REARM_TIMER")
    /\ IF Head(cq).res \in {"ok", "EALREADY", "ENOENT"} THEN UNCHANGED running ELSE running' = FALSE
    /\ cq' = Tail(cq)
    /\ UNCHANGED <<table, known, down, sq, receiving, timer, ticking, msginfo, inbox>>

\* case REARM_TIMER: EALREADY is tolerated, any other error stops the router.
RearmTimer ==
    /\ Handling("REARM_TIMER")
    /\ IF Head(cq).res \in {"ok", "EALREADY"} THEN UNCHANGED running ELSE running' = FALSE
    /\ cq' = Tail(cq)
    /\ UNCHANGED <<table, known, down, sq, receiving, timer, ticking, msginfo, inbox>>

\* case MSG_SENT: a failed send is only reported.
MsgSent ==
    /\ Handling("MSG_SENT")
    /\ cq' = Tail(cq)
    /\ UNCHANGED <<running, table, known, down, sq, receiving, timer, ticking, msginfo,
                   inbox>>

-----------------------------------------------------------------------------
(* The kernel, the clock, the network and the user.                         *)

Alive == pc \notin {"exit", "crash"}

Deliver(d) ==
    /\ Alive
    /\ Len(inbox) < InboxBound
    /\ inbox' = Append(inbox, d)
    /\ UNCHANGED <<process, ring, msginfo>>

\* The outstanding recvmsg takes the oldest datagram into msginfo.
CompleteReceive ==
    /\ Alive
    /\ receiving
    /\ receiving' = FALSE
    /\ \/ /\ inbox # <<>>
          /\ msginfo' = Head(inbox)
          /\ inbox' = Tail(inbox)
          /\ cq' = Append(cq, Completion("MSG_RECEIVED", NoPort, "ok"))
       \/ /\ "receive" \in Faults
          /\ cq' = Append(cq, Completion("MSG_RECEIVED", NoPort, "error"))
          /\ UNCHANGED <<msginfo, inbox>>
    /\ UNCHANGED <<process, sq, timer, ticking>>

\* Five seconds have passed since the timer was armed or last updated.
TimerExpires(n) ==
    /\ Alive
    /\ timer[n] = "armed"
    /\ timer' = [timer EXCEPT ![n] = "firing"]
    /\ UNCHANGED <<process, sq, cq, receiving, ticking, msginfo, inbox>>

TimerPosts(n) ==
    /\ Alive
    /\ timer[n] = "firing"
    /\ timer' = [timer EXCEPT ![n] = "off"]
    /\ \E res \in {"ETIME"} \cup (IF "timer" \in Faults THEN {"error"} ELSE {}) :
          cq' = Append(cq, Completion("NEIGHBOR_TIMEOUT", n, res))
    /\ UNCHANGED <<process, sq, receiving, ticking, msginfo, inbox>>

UnhandledTicks == {i \in DOMAIN cq : cq[i].type = "GLOBAL_TIMEOUT"}

\* Two seconds have passed; with IORING_TIMEOUT_MULTISHOT the timer stays armed
\* unless the kernel refused it or found the completion queue full.  What does not
\* fit the queue the kernel keeps and delivers later, in order.
GlobalTimerFires ==
    /\ Alive
    /\ ticking
    /\ Cardinality(UnhandledTicks) < TickBound
    /\ \/ /\ cq' = Append(cq, Completion("GLOBAL_TIMEOUT", NoPort, "ETIME"))
          /\ ticking' = (global_timer_flags # {} /\ Len(cq) < CqEntries)
       \/ /\ "timer" \in Faults
          /\ cq' = Append(cq, Completion("GLOBAL_TIMEOUT", NoPort, "error"))
          /\ ticking' = FALSE
    /\ UNCHANGED <<process, sq, receiving, timer, msginfo, inbox>>

\* Variant: the handler wakes main without clearing the flag.
Sigint_ignored ==
    /\ Alive
    /\ pc' = IF pc = "blocked" THEN "null" ELSE pc
    /\ UNCHANGED <<running, table, known, down, ring, msginfo, inbox>>

\* SIGINT runs sig_handler; it interrupts a blocked io_uring_wait_cqe, which then
\* returns no completion, and has no other effect on main than the flag.
Sigint ==
    /\ Alive
    /\ running' = FALSE
    /\ pc' = IF pc = "blocked" THEN "null" ELSE pc
    /\ UNCHANGED <<table, known, down, ring, msginfo, inbox>>

\* io_uring_wait_cqe returns an error, and no completion, for any other reason:
\* -EINTR because the process was stopped and continued or a debugger was attached,
\* or what else io_uring_enter reports.  Its result is not looked at.
WaitFails ==
    /\ "wait" \in Faults
    /\ pc = "blocked"
    /\ cq = <<>>
    /\ pc' = "null"
    /\ UNCHANGED <<running, table, known, down, ring, msginfo, inbox>>

Exited ==
    /\ ~Alive
    /\ UNCHANGED vars

-----------------------------------------------------------------------------
Handlers ==
    \/ MsgReceived
    \/ GlobalTimeout
    \/ NeighborTimeout
    \/ RearmTimer
    \/ MsgSent

Main ==
    \/ UringInit
    \/ FirstSend
    \/ CheckRunning
    \/ WaitCqe
    \/ WakeUp
    \/ BreakLoop
    \/ FollowNull
    \/ Handlers

Kernel ==
    \/ CompleteReceive
    \/ \E n \in Senders : TimerExpires(n)
    \/ \E n \in Senders : TimerPosts(n)
    \/ GlobalTimerFires

Next ==
    \/ Main
    \/ Kernel
    \/ \E d \in Datagrams : Deliver(d)
    \/ Sigint
    \/ WaitFails
    \/ Exited

Spec == Init /\ [][Next]_vars

\* The process is scheduled, the kernel completes what can be completed, the
\* multishot timer keeps firing, and the timer of a watched neighbor expires.
Fairness ==
    /\ WF_vars(Main)
    /\ WF_vars(inbox # <<>> /\ CompleteReceive)
    /\ WF_vars(GlobalTimerFires)
    /\ \A n \in Senders : WF_vars(TimerPosts(n))
    /\ \A n \in Watched : WF_vars(TimerExpires(n))

FairSpec == Spec /\ Fairness

-----------------------------------------------------------------------------
(* Safety.                                                                  *)

\* The main loop has started and has not been told to stop.
Looping == running /\ Alive /\ pc \notin {"init", "first_send"}

Count(s, type, port) == Cardinality({i \in DOMAIN s : s[i].type = type /\ s[i].port = port})

One(b) == IF b THEN 1 ELSE 0

\* Every neighbor that is up has exactly one five-second timer on its way:
\* prepared, running in the kernel, or expired and not handled; a neighbor that
\* is down, and a stranger, has none.  arm_neighbor_timer, rearm_neighbor_timer
\* and the NEIGHBOR_TIMEOUT case keep it so between them.
TimerAccounting ==
    Looping =>
        \A n \in Senders :
            Count(sq, "NEIGHBOR_TIMEOUT", n) + One(timer[n] # "off")
                + Count(cq, "NEIGHBOR_TIMEOUT", n) = One(n \in Neighbors \ down)

\* There is always exactly one receive request, prepared, outstanding or
\* completed and unread: main never goes deaf, and recvmsg never writes the one
\* msginfo buffer while a message in it has still to be handled.
ReceiveAccounting ==
    Looping =>
        Count(sq, "MSG_RECEIVED", NoPort) + One(receiving)
            + Count(cq, "MSG_RECEIVED", NoPort) = 1

\* io_uring_get_sqe never returns NULL: a queue of 2 + 2 * neighbor_count
\* entries has room for what a handler prepares even when the last submission
\* failed and left its requests behind.
SqeAvailable ==
    pc = "handle" /\ Looping /\ cq # <<>> =>
        /\ Head(cq).type = "MSG_RECEIVED" => Len(sq) + 2 <= SqEntries
        /\ Head(cq).type = "GLOBAL_TIMEOUT" => Len(sq) < SqEntries

\* A handler has a completion to look at, and SIGINT, whenever it comes, does not
\* make main go on with a null pointer: the result of io_uring_wait_cqe is ignored,
\* but by the time an interrupted call returns running is false.  Only a call that
\* fails for another reason can do that.
CqeValid ==
    /\ pc = "handle" => cq # <<>>
    /\ pc = "null" /\ running => "wait" \in Faults

\* "Within the main loop, the process first gets a new completion queue event from
\* the ring" (designdoc.txt); if it does not, "signal handler was called"
\* (router.c:556).
EveryWaitGetsCqe == pc = "null" => ~running

\* No route leads through a router that is down or has never been a sender.
RoutesUseLiveLinks ==
    \A id \in Ports : table[id].next_hop # NoPort => table[id].next_hop \in Senders \ down

\* Among the known routers infinite cost and no next hop go together; the router
\* itself stays at cost 0 with no next hop.
RouteConsistency ==
    /\ \A id \in known \ {Self} : table[id].cost = Infinity <=> table[id].next_hop = NoPort
    /\ table[Self] = [cost |-> 0, next_hop |-> NoPort]

\* known_routers never outgrows the message buffer msg_buf[MAX_ROUTERS].
KnownBound == Cardinality(known) <= MAX_ROUTERS

\* A known route moves from one next hop to another only when that makes it
\* strictly cheaper: equal paths do not make the router change its mind.
SwitchOnlyIfCheaper ==
    [][\A id \in known :
          /\ table[id].next_hop # NoPort
          /\ table'[id].next_hop \notin {NoPort, table[id].next_hop}
          => table'[id].cost < table[id].cost]_vars

\* The comment at the REARM_TIMER case: the one way a rearm can miss its timer,
\* that the timer fired first, is harmless and does not stop the router.
RearmRaceIgnored ==
    [][RearmTimer /\ Head(cq).port \in Neighbors => running']_vars

-----------------------------------------------------------------------------
(* Liveness.                                                                *)

\* The multishot timer has ended: a tick found the completion queue full, or the
\* kernel refused the timer.  Nobody arms it again, and what below waits for a tick
\* then waits for ever.
TickEnded == ~ticking /\ pc # "init"

\* After SIGINT, or an error that clears running, main leaves its loop even if
\* the signal fell between the test of running and the blocking wait: as long as the
\* global timer runs, its next tick wakes it.
ShutdownCompletes == ~running ~> (pc = "exit" \/ TickEnded)

\* "In order to close the router, simply input ctrl-C which will cause the program
\* to cleanup itself then exit" (readme.md), whenever SIGINT comes.  A SIGINT that comes
\* just before main blocks relies on the global timer, of which designdoc.txt says
\* "This timer does not need to be rearmed, as it is automatically configured to go
\* off every two seconds".
CtrlCExits == ~running ~> pc = "exit"

\* A submission that fails unnoticed after a message does not leave the router
\* without a receive request for ever, unless the tick that would submit it ended.
NeverDeaf == ~receiving ~> (receiving \/ ~Alive \/ TickEnded)

\* main is about to handle a message from n.
Hearing(n) ==
    /\ pc = "handle" /\ running /\ cq # <<>>
    /\ Head(cq).type = "MSG_RECEIVED" /\ Head(cq).res = "ok"
    /\ msginfo.from = n

\* A neighbor that is no longer heard of is marked down, while the tick goes on.
SilentNeighborPurged ==
    \A n \in Watched : []<>(Hearing(n) \/ n \in down \/ ~Alive \/ TickEnded)

\* A neighbor that is down and whose datagram has arrived is up again some time,
\* if the tick goes on until then.
DownNeighborRecovers ==
    \A n \in Neighbors :
        (n \in down /\ \E i \in DOMAIN inbox : inbox[i].from = n)
            ~> (n \notin down \/ ~Alive \/ TickEnded)

\* A router that is not on the command line may supply routes, but the timer it
\* does not have stops this router soon after, if the tick goes on until then.
StrangerStopsRouter ==
    \A n \in Strangers : (\E id \in Ports : table[id].next_hop = n) ~> (~Alive \/ TickEnded)

=============================================================================
