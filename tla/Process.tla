------------------------------ MODULE Process ------------------------------
(***************************************************************************)
(* One process from its command line to its end, as far as the lists, the  *)
(* table and the resources go: start-up fills known_routers and            *)
(* all_routers, the loop sends what they hold and changes them, cleanup    *)
(* gives back what start-up took.  Start-up and cleanup are module         *)
(* Startup, the loop is module Broadcast.                                  *)
(***************************************************************************)
EXTENDS Broadcast, CommandLine

VARIABLES
    phase,      \* where main is: Startup's pc
    argv,       \* the command line
    at,         \* the neighbor a loop of start-up is at
    listed,     \* neighbor_info
    addrinfo,   \* self.addrinfo
    fd,         \* self.fd
    free_fd,    \* the lowest descriptor not in use
    held        \* resources taken and not given back

Sending == <<pc, i, j, msg_buf, prepared, late, last>>
Resources == <<phase, argv, at, listed, addrinfo, fd, free_fd, held>>

PVars == <<vars, Resources>>

Main == INSTANCE Startup WITH pc <- phase, i <- at, neighbor_info <- listed

PInit == Main!Init /\ NothingSent

\* main leaves its loop between two completions only.
StartOrEnd ==
    /\ Main!Next
    /\ phase = "loop" => pc \in {"elsewhere", "exit"}
    /\ UNCHANGED Sending

\* The loop is followed for one command line: that of Broadcast's constants.
Followed ==
    /\ argv.self = Self
    /\ argv.pairs = [k \in DOMAIN neighbor_info |-> [port |-> neighbor_info[k], cost |-> 1]]

InLoop ==
    /\ phase = "loop"
    /\ Followed
    /\ Next
    /\ UNCHANGED Resources

PNext == StartOrEnd \/ InLoop

PSpec == PInit /\ [][PNext]_PVars

-----------------------------------------------------------------------------
(* Properties, besides Broadcast's.                                        *)

\* What Router and Broadcast assume of the table and the lists holds when main gets
\* to its loop, and known_routers fits the message buffer ever after.
RouterMayStart == Main!RouterMayStart

\* Whatever fails on the way in, and whenever the loop ends, everything that was
\* taken is given back, but for the addresses bind_to passed over.
OnlyKnownLeaks == Main!OnlyKnownLeaks
=============================================================================
