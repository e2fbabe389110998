------------------------------ MODULE RingSpec ------------------------------
(***************************************************************************)
(* What main may expect of its io_uring: two queues without positions.     *)
(* Requests are taken by the kernel in the order they were prepared, and   *)
(* completions are seen in the order they were posted.  Nothing is lost,   *)
(* duplicated or overtaken, and only the submission queue can be full.     *)
(***************************************************************************)
EXTENDS Integers, Sequences, FiniteSets

CONSTANTS
    Tokens,      \* the user_data of the requests
    SqEntries,   \* capacity of the submission queue
    CqEntries    \* completions that can be looked at together

VARIABLES
    waiting,     \* requests prepared, not taken by the kernel
    inflight,    \* requests the kernel works on
    done,        \* completions posted, not given back, oldest first
    taken        \* how many of those main is looking at

vars == <<waiting, inflight, done, taken>>

Elements(s) == {s[i] : i \in DOMAIN s}

Drop(s, n) == SubSeq(s, n + 1, Len(s))

Idle == Tokens \ (Elements(waiting) \cup inflight \cup Elements(done))

Init ==
    /\ waiting = <<>>
    /\ inflight = {}
    /\ done = <<>>
    /\ taken = 0

Prepare(u) ==
    /\ Len(waiting) < SqEntries
    /\ waiting' = Append(waiting, u)
    /\ UNCHANGED <<inflight, done, taken>>

\* The kernel takes the first n requests.
Take(n) ==
    /\ inflight' = inflight \cup Elements(SubSeq(waiting, 1, n))
    /\ waiting' = Drop(waiting, n)
    /\ UNCHANGED <<done, taken>>

Complete(u) ==
    /\ inflight' = inflight \ {u}
    /\ done' = Append(done, u)
    /\ UNCHANGED <<waiting, taken>>

LookAt(n) ==
    /\ taken = 0
    /\ taken' = n
    /\ UNCHANGED <<waiting, inflight, done>>

GiveBack ==
    /\ taken > 0
    /\ done' = Drop(done, taken)
    /\ taken' = 0
    /\ UNCHANGED <<waiting, inflight>>

Next ==
    \/ \E u \in Idle : Prepare(u)
    \/ \E n \in 1..Len(waiting) : Take(n)
    \/ \E u \in inflight : Complete(u)
    \/ \E n \in 1..CqEntries : n <= Len(done) /\ LookAt(n)
    \/ GiveBack

Spec == Init /\ [][Next]_vars
=============================================================================
