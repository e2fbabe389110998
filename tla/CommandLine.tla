---------------------------- MODULE CommandLine ----------------------------
(***************************************************************************)
(* What the user and the system give main to start with.                   *)
(***************************************************************************)
EXTENDS DistanceVector, Sequences

CONSTANTS
    BadPort,       \* a port number that is not in 30000..40000
    CommandLines,  \* [self, pairs, complete]: pairs of port and cost, and whether
                   \* the last port has a cost
    AddressCount   \* addresses getaddrinfo finds for the router's own port

ASSUME StartupAssumption ==
    /\ BadPort \notin Ports
    /\ \A c \in CommandLines :
          /\ c.self \in Ports \cup {BadPort}
          /\ c.complete \in BOOLEAN
          /\ c.pairs \in Seq([port : Ports \cup {BadPort}, cost : Costs])
    /\ AddressCount \in Nat \ {0}
=============================================================================
