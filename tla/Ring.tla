-------------------------------- MODULE Ring --------------------------------
(***************************************************************************)
(* The rings of liburing.h as the router uses them (no SQPOLL, entries of  *)
(* normal size).  The submission queue is an array of entries that main    *)
(* fills and the kernel empties, the completion queue one that the kernel  *)
(* fills and main empties.  Positions are unsigned counters that are never *)
(* reset: they wrap around at Width, and the low bits select the entry.    *)
(*                                                                         *)
(* An entry that is used again still has the fields of its last request.   *)
(* Fields that no request of the router sets are left out.  So is the      *)
(* branch of __io_uring_peek_cqe for timeouts of liburing itself: the      *)
(* router does not call the functions that make them.                      *)
(***************************************************************************)
EXTENDS Integers, Sequences, FiniteSets

CONSTANTS
    Tokens,      \* the user_data in use: a subset of RequestTypes
    SqEntries,   \* ring_entries of the submission queue
    CqEntries,   \* ring_entries of the completion queue
    Width        \* number of values of an unsigned (scaled down)

RequestTypes ==
    {"MSG_SENT", "MSG_RECEIVED", "GLOBAL_TIMEOUT", "NEIGHBOR_TIMEOUT", "REARM_TIMER"}

\* Both sizes are powers of two, like the width.
ASSUME RingSizes ==
    /\ Tokens \subseteq RequestTypes
    /\ SqEntries \in Nat \ {0} /\ CqEntries \in Nat \ {0} /\ Width \in Nat
    /\ Width % SqEntries = 0 /\ Width % CqEntries = 0
    /\ SqEntries + 1 < Width /\ CqEntries + 1 < Width

VARIABLES
    sq,          \* struct io_uring_sq: counters and entries
    cq,          \* struct io_uring_cq: counters and entries
    backlog,     \* kernel: completions that did not fit
    inflight,    \* kernel: requests it works on
    held         \* the completions main is looking at, as it read them

vars == <<sq, cq, backlog, inflight, held>>

-----------------------------------------------------------------------------
(* Unsigned counters.                                                      *)

Plus(a, n) == (a + n) % Width

Minus(a, b) == (a - b) % Width

\* & ring_mask
SqSlot(n) == n % SqEntries
CqSlot(n) == n % CqEntries

-----------------------------------------------------------------------------
(* Submission queue entries.  off and addr2 are one field, and so are      *)
(* msg_flags, timeout_flags and rw_flags, and file_index and addr_len.     *)

BlankSqe ==
    [opcode |-> "NOP", fd |-> "0", off |-> "0", addr |-> "0", len |-> "0",
     rw_flags |-> {}, file_index |-> "0", user_data |-> "0"]

\* Variant: the last field is not cleared.
io_uring_initialize_sqe_short(sqe) == [sqe EXCEPT !.rw_flags = {}]

io_uring_initialize_sqe(sqe) == [sqe EXCEPT !.rw_flags = {}, !.file_index = "0"]

io_uring_sqe_set_data64(sqe, data) == [sqe EXCEPT !.user_data = data]

io_uring_prep_rw(op, sqe, fd, addr, len, offset) ==
    [sqe EXCEPT !.opcode = op, !.fd = fd, !.off = offset, !.addr = addr, !.len = len]

io_uring_prep_recvmsg(sqe, fd, msg) == io_uring_prep_rw("RECVMSG", sqe, fd, msg, "1", "0")

io_uring_prep_send(sqe, fd, buf, len) == io_uring_prep_rw("SEND", sqe, fd, buf, len, "0")

io_uring_prep_send_set_addr(sqe, addr, addrlen) ==
    [sqe EXCEPT !.off = addr, !.file_index = addrlen]

io_uring_prep_sendto(sqe, fd, buf, len, addr, addrlen) ==
    io_uring_prep_send_set_addr(io_uring_prep_send(sqe, fd, buf, len), addr, addrlen)

io_uring_prep_timeout(sqe, ts, flags) ==
    [io_uring_prep_rw("TIMEOUT", sqe, "-1", ts, "1", "0") EXCEPT !.rw_flags = flags]

io_uring_prep_timeout_update(sqe, ts, target) ==
    [io_uring_prep_rw("TIMEOUT_REMOVE", sqe, "-1", "0", "0", ts)
        EXCEPT !.addr = target, !.rw_flags = {"IORING_TIMEOUT_UPDATE"}]

\* The functions of router.c that fill an entry: each stores the user_data
\* first.
Filled(sqe, u) ==
    LET s == io_uring_sqe_set_data64(sqe, u) IN
    CASE u = "MSG_RECEIVED" -> io_uring_prep_recvmsg(s, "self.fd", "msghdr")
      [] u = "MSG_SENT" ->
            io_uring_prep_sendto(s, "self.fd", "msg_buf", "size", "ai_addr", "ai_addrlen")
      [] u = "GLOBAL_TIMEOUT" ->
            io_uring_prep_timeout(s, "two_sec", {"IORING_TIMEOUT_MULTISHOT"})
      [] u = "NEIGHBOR_TIMEOUT" -> io_uring_prep_timeout(s, "five_sec", {})
      [] u = "REARM_TIMER" ->
            io_uring_prep_timeout_update(s, "five_sec", "NEIGHBOR_TIMEOUT")

-----------------------------------------------------------------------------
(* What the header's query functions return.                               *)

io_uring_sq_ready == Minus(sq.sqe_tail, sq.khead)

io_uring_cq_ready == Minus(cq.ktail, cq.khead)

io_uring_cq_has_overflow == backlog # <<>>

Unconsumed == [i \in 1..io_uring_sq_ready |-> sq.sqes[SqSlot(Plus(sq.khead, i - 1))]]

Posted == [i \in 1..io_uring_cq_ready |-> cq.cqes[CqSlot(Plus(cq.khead, i - 1))]]

Init ==
    /\ sq = [khead |-> 0, ktail |-> 0, sqe_tail |-> 0,
             sqes |-> [s \in 0..(SqEntries - 1) |-> BlankSqe]]
    /\ cq = [khead |-> 0, ktail |-> 0, cqes |-> [s \in 0..(CqEntries - 1) |-> "0"]]
    /\ backlog = <<>>
    /\ inflight = {}
    /\ held = <<>>

-----------------------------------------------------------------------------
(* main                                                                    *)

\* Variant: the queue takes one entry too many.
HasVacancy_off_by_one(next) == Minus(next, sq.khead) <= SqEntries + 1

\* The test of _io_uring_get_sqe, next being the tail after the new entry.
HasVacancy(next) == Minus(next, sq.khead) <= SqEntries

\* _io_uring_get_sqe and the filling of the entry it returned; main does
\* nothing else with the ring in between.
io_uring_get_sqe(u) ==
    LET next == Plus(sq.sqe_tail, 1)
        s == SqSlot(sq.sqe_tail)
    IN  /\ HasVacancy(next)
        /\ sq' = [sq EXCEPT !.sqe_tail = next,
                            !.sqes[s] = Filled(io_uring_initialize_sqe(sq.sqes[s]), u)]
        /\ UNCHANGED <<cq, backlog, inflight, held>>

\* io_uring_submit: publish the tail and enter the kernel, which takes the first
\* n entries.  A call that fails takes none.
io_uring_submit(n) ==
    /\ sq' = [sq EXCEPT !.ktail = sq.sqe_tail, !.khead = Plus(@, n)]
    /\ inflight' = inflight \cup {Unconsumed[i].user_data : i \in 1..n}
    /\ UNCHANGED <<cq, backlog, held>>

\* Variant: the completion is given back when main begins to look at it.
LooksAt_released(n) ==
    /\ held' = SubSeq(Posted, 1, n)
    /\ cq' = [cq EXCEPT !.khead = Plus(@, n)]

\* main begins to look at n completions.
LooksAt(n) ==
    /\ held' = SubSeq(Posted, 1, n)
    /\ UNCHANGED cq

\* __io_uring_peek_cqe, as called by io_uring_wait_cqe: the oldest completion.
io_uring_wait_cqe ==
    /\ held = <<>>
    /\ io_uring_cq_ready > 0
    /\ LooksAt(1)
    /\ UNCHANGED <<sq, backlog, inflight>>

\* io_uring_for_each_cqe, the header's other way to read the ring: all that were
\* there when the tail was read.
io_uring_for_each_cqe ==
    /\ held = <<>>
    /\ io_uring_cq_ready > 1
    /\ LooksAt(io_uring_cq_ready)
    /\ UNCHANGED <<sq, backlog, inflight>>

\* Variant: the head is set back to the first entry instead of wrapping around.
io_uring_cq_advance_reset(nr) ==
    cq' = [cq EXCEPT !.khead = IF @ + nr < Width THEN @ + nr ELSE 0]

\* Variant: everything posted is given back, read or not.
io_uring_cq_advance_all(nr) == cq' = [cq EXCEPT !.khead = cq.ktail]

io_uring_cq_advance(nr) == cq' = [cq EXCEPT !.khead = Plus(@, nr)]

\* io_uring_cqe_seen for one completion, io_uring_cq_advance for several.
io_uring_cqe_seen ==
    /\ held # <<>>
    /\ io_uring_cq_advance(Len(held))
    /\ held' = <<>>
    /\ UNCHANGED <<sq, backlog, inflight>>

-----------------------------------------------------------------------------
(* The kernel.                                                             *)

\* A completion goes into the ring if it has room and none is kept back.
Complete(u) ==
    /\ u \in inflight
    /\ inflight' = inflight \ {u}
    /\ IF io_uring_cq_ready < CqEntries /\ ~ io_uring_cq_has_overflow
       THEN cq' = [cq EXCEPT !.ktail = Plus(@, 1), !.cqes[CqSlot(cq.ktail)] = u]
            /\ UNCHANGED backlog
       ELSE backlog' = Append(backlog, u) /\ UNCHANGED cq
    /\ UNCHANGED <<sq, held>>

\* When main enters the kernel, completions kept back go into the ring.
Flush ==
    /\ io_uring_cq_has_overflow
    /\ io_uring_cq_ready < CqEntries
    /\ cq' = [cq EXCEPT !.ktail = Plus(@, 1), !.cqes[CqSlot(cq.ktail)] = Head(backlog)]
    /\ backlog' = Tail(backlog)
    /\ UNCHANGED <<sq, inflight, held>>

-----------------------------------------------------------------------------
\* user_data that is in use nowhere: a bound, so that there are only finitely many
\* requests.
Idle ==
    Tokens \ ( {Unconsumed[i].user_data : i \in DOMAIN Unconsumed} \cup inflight
               \cup {Posted[i] : i \in DOMAIN Posted}
               \cup {backlog[i] : i \in DOMAIN backlog} )

Main ==
    \/ \E u \in Idle : io_uring_get_sqe(u)
    \/ \E n \in 0..SqEntries : n <= io_uring_sq_ready /\ io_uring_submit(n)
    \/ io_uring_wait_cqe
    \/ io_uring_for_each_cqe
    \/ io_uring_cqe_seen

Next ==
    \/ Main
    \/ \E u \in Tokens : Complete(u)
    \/ Flush

Spec == Init /\ [][Next]_vars

\* A main that never stops reading: it waits, gives back what it has looked at,
\* and enters the kernel once the ring is empty.
FairSpec ==
    /\ Spec
    /\ WF_vars(io_uring_wait_cqe)
    /\ WF_vars(io_uring_cqe_seen)
    /\ WF_vars(Flush)

-----------------------------------------------------------------------------
(* Properties                                                              *)

\* Types, and the order of the counters: what is in a ring never exceeds its
\* size, also after the counters have wrapped around.
TypeOK ==
    /\ sq.khead \in 0..(Width - 1) /\ sq.ktail \in 0..(Width - 1)
    /\ sq.sqe_tail \in 0..(Width - 1)
    /\ Minus(sq.ktail, sq.khead) <= io_uring_sq_ready
    /\ io_uring_sq_ready <= SqEntries
    /\ cq.khead \in 0..(Width - 1) /\ cq.ktail \in 0..(Width - 1)
    /\ Len(held) <= io_uring_cq_ready
    /\ io_uring_cq_ready <= CqEntries
    /\ inflight \subseteq Tokens

\* The queues as main sees them.  Completions that did not fit come after those
\* in the ring.
Abstract == INSTANCE RingSpec WITH
    waiting <- [i \in DOMAIN Unconsumed |-> Unconsumed[i].user_data],
    done <- Posted \o backlog,
    taken <- Len(held)

\* The rings implement queues that lose, repeat and reorder nothing, whatever the
\* values of the counters.
ImplementsRingSpec == Abstract!Spec

\* io_uring_wait_cqe returns a pointer into the ring, and main reads through it
\* until io_uring_cqe_seen: the kernel must not write to that entry meanwhile.
HeldStable ==
    /\ Len(held) <= Len(Posted)
    /\ \A i \in DOMAIN held : Posted[i] = held[i]

\* Entries are used again without being zeroed as a whole: what a request asks for
\* does not depend on what the entry held before.
CleanRequests ==
    \A i \in DOMAIN Unconsumed :
        Unconsumed[i] = Filled(BlankSqe, Unconsumed[i].user_data)

\* A completion that finds the ring full is read in the end, however many others
\* follow it.
BacklogDelivered ==
    \A u \in Tokens :
        (\E i \in DOMAIN backlog : backlog[i] = u) ~> (\E i \in DOMAIN held : held[i] = u)
=============================================================================
