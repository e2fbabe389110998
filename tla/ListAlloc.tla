------------------------------ MODULE ListAlloc ------------------------------
(***************************************************************************)
(* The allocator of list_alloc.c.  It keeps list structs and node structs  *)
(* in two arenas that double when they are full and halve when half of     *)
(* them is free, and hands out indices into a table that says where a      *)
(* struct is now.  The code has every function twice; the operators on an  *)
(* arena are translated from the one for nodes.                            *)
(*                                                                         *)
(* A pointer into an arena is the number of the slot it points to, 0 for   *)
(* the null pointer, or Stale when the memory it points to was released or *)
(* the pointer was computed from such a pointer or from null.  Using null  *)
(* or Stale sets fault, after which nothing is said: C does not either.    *)
(*                                                                         *)
(* calloc, malloc and realloc may refuse memory once, where Refused says   *)
(* so; the functions notice it and their callers do not look at what they  *)
(* return.                                                                 *)
(* Callers of the allocator only pass back indices they were given.        *)
(***************************************************************************)
EXTENDS Integers, Sequences, FiniteSets

CONSTANTS
    LISTMIN,    \* smallest sizes of the arenas
    NODEMIN,
    MaxLists,   \* bound: lists in use at a time
    MaxNodes,   \* bound: nodes in use at a time
    Refused     \* where memory may be refused, once (bound)

ASSUME SmallestSizes == LISTMIN \in Nat \ {0} /\ NODEMIN \in Nat \ {0}

ASSUME RefusedPlaces == Refused \subseteq {"init", "grow", "shrink"}

VARIABLES
    lists,      \* g_list_mem, g_list_table, g_free_list_table
    nodes,      \* g_node_mem, g_node_table, g_free_node_table
    fault,      \* the arena in which a pointer was used that points nowhere, or "no"
    refused     \* where memory was refused, or "no"

vars == <<lists, nodes, fault, refused>>

Stale == -1

IsPointer(p) == p \notin {0, Stale}

Interval(m, n) == [k \in 1..(n - m + 1) |-> m + k - 1]

Zeros(n) == [k \in 1..n |-> 0]

(***************************************************************************)
(* An arena: allocated, unless its array is NULL; used structs; for every  *)
(* slot the index of its struct, 0 when it is not in_use and Stale when    *)
(* its bytes were never written; table, a pointer for every index; free    *)
(* and free_index, the lists of free slots and free table entries.  held   *)
(* is what callers hold: indices given and not returned.                   *)
(***************************************************************************)
Unallocated ==
    [allocated |-> FALSE, used |-> 0, slot |-> <<>>, table |-> <<>>,
     free |-> <<>>, free_index |-> <<>>, held |-> {}]

\* listInit, for one arena.
Allocated(min) ==
    [allocated |-> TRUE, used |-> 0, slot |-> Zeros(min), table |-> Zeros(min),
     free |-> Interval(1, min), free_index |-> Interval(1, min), held |-> {}]

Size(a) == Len(a.slot)

TableSize(a) == Len(a.table)

\* Variant: the list of free slots is not rebuilt.
Doubled_free(a, moved) ==
    LET n == Size(a)
        full == TableSize(a) = a.used
    IN  [a EXCEPT
            !.slot = @ \o Zeros(n),
            !.table = IF full THEN @ \o Zeros(n) ELSE @,
            !.free_index = IF full THEN Interval(n + 1, 2 * n) \o @ ELSE @]

\* nodeMemIncrease.  The table grows only if all its indices are used.  A
\* realloc that moves the arena has every entry of the table shifted, null or
\* not.  Then the struct of each index up to the old size is told its entry,
\* whether the index is used or not.
Doubled(a, moved) ==
    LET n == Size(a)
        full == TableSize(a) = a.used
        table == IF full THEN a.table \o Zeros(n) ELSE a.table
        Told(s) == {i \in 1..n : table[i] = s}
    IN  [a EXCEPT
            !.slot = [s \in 1..n |->
                        IF Told(s) = {} THEN a.slot[s]
                        ELSE CHOOSE i \in Told(s) : \A j \in Told(s) : j <= i]
                     \o Zeros(n),
            !.table = [i \in DOMAIN table |->
                        IF moved /\ ~ IsPointer(table[i]) THEN Stale
                        ELSE table[i]],
            !.free = Interval(n + 1, 2 * n),
            !.free_index = IF full THEN Interval(n + 1, 2 * n) \o @ ELSE @]

\* nodeMemIncrease follows the table at an index that points nowhere.
IncreaseFaults(a) == \E i \in 1..Size(a) : ~ IsPointer(a.table[i])

\* newNode before it takes a node: a, enlarged if no slot is left.
Roomy(a, moved) == IF a.used = Size(a) THEN Doubled(a, moved) ELSE a

\* newNode takes the first free slot and the first free index.
Taken(a) ==
    LET s == Head(a.free)
        i == Head(a.free_index)
    IN  [a EXCEPT !.used = @ + 1, !.slot[s] = i, !.table[i] = s,
                  !.free = Tail(@), !.free_index = Tail(@),
                  !.held = @ \cup {i}]

\* newNode finds no slot or no index in its free lists.
TakeFaults(a) ==
    \/ a.free = <<>> \/ a.free_index = <<>>
    \/ ~ IsPointer(Head(a.free))

\* Variant: the index is not given back.
Returned_slot(a, i) ==
    LET s == a.table[i]
    IN  [a EXCEPT !.used = @ - 1, !.slot[s] = 0, !.free = <<s>> \o @,
                  !.held = @ \ {i}]

\* destroyNode up to the shrinking: slot and index go in front of the free
\* lists.  The entry of the table stays.
Returned(a, i) ==
    LET s == a.table[i]
    IN  [a EXCEPT !.used = @ - 1, !.slot[s] = 0,
                  !.free = <<s>> \o @, !.free_index = <<a.slot[s]>> \o @,
                  !.held = @ \ {i}]

\* The struct nodeMemDecrease moves to slot k, the k-th in use; a slot for which
\* there is none is not initialised.
MovedTo(a, k) ==
    LET kept == {s \in DOMAIN a.slot : /\ a.slot[s] # 0
                                       /\ Cardinality({t \in 1..s : a.slot[t] # 0}) = k}
    IN  IF kept = {} THEN Stale ELSE a.slot[CHOOSE s \in kept : TRUE]

\* Variant: the table is not told where the structs went.
Halved_only(a) ==
    [a EXCEPT !.slot = [k \in 1..(Size(a) \div 2) |-> MovedTo(a, k)],
              !.free = <<Stale>>]

\* nodeMemDecrease: structs in use move to an array of half the size, in
\* order.  Whatever else points into the old array, the free list included,
\* points to released memory.
Halved(a) ==
    LET slot == [k \in 1..(Size(a) \div 2) |-> MovedTo(a, k)]
    IN  [a EXCEPT
            !.slot = slot,
            !.table = [i \in DOMAIN @ |->
                        IF \E k \in DOMAIN slot : slot[k] = i
                        THEN CHOOSE k \in DOMAIN slot : slot[k] = i
                        ELSE IF @[i] = 0 THEN 0 ELSE Stale],
            !.free = <<Stale>>]

Reducible(a, min) == Size(a) > min /\ a.used <= Size(a) \div 2

\* It has slots that were never written, and looks whether they are in_use.
DecreaseFaults(a) == \E s \in DOMAIN a.slot : a.slot[s] = Stale

\* Variant: the arena is reduced one node too early.
Trimmed_early(a, min) ==
    IF Size(a) > min /\ a.used <= Size(a) \div 2 + 1 THEN Halved(a) ELSE a

\* destroyNode: the arena after the node went.
Trimmed(a, min) == IF Reducible(a, min) THEN Halved(a) ELSE a

-----------------------------------------------------------------------------

Init ==
    /\ lists = Unallocated
    /\ nodes = Unallocated
    /\ fault = "no"
    /\ refused = "no"

Fails(arena) == fault' = arena /\ UNCHANGED <<lists, nodes>>

\* Memory that is needed at a place is had or refused.
Has(place, needed, refuse) ==
    /\ refuse => needed /\ refused = "no" /\ place \in Refused
    /\ refused' = IF refuse THEN place ELSE refused

\* What newNode and newList make of arena a before they take a struct.
Grown(a, moved, refuse) == IF refuse THEN a ELSE Roomy(a, moved)

\* They use a pointer that points nowhere.
NewFaults(a, moved, refuse) ==
    \/ a.used = Size(a) /\ ~ refuse /\ IncreaseFaults(a)
    \/ TakeFaults(Grown(a, moved, refuse))

\* The first list allocates both arenas.
newList ==
    /\ Cardinality(lists.held) < MaxLists
    /\ LET l == IF lists.allocated THEN lists ELSE Allocated(LISTMIN) IN
       \E moved, refuse \in BOOLEAN :
          /\ Has("grow", l.used = Size(l), refuse)
          /\ IF NewFaults(l, moved, refuse) THEN Fails("lists")
             ELSE /\ lists' = Taken(Grown(l, moved, refuse))
                  /\ nodes' = IF lists.allocated THEN nodes ELSE Allocated(NODEMIN)
                  /\ UNCHANGED fault

\* newList does not look at the result of listInit and takes the head of a list
\* that is NULL.
InitRefused ==
    /\ Has("init", ~ lists.allocated, TRUE)
    /\ Fails("lists")

\* Without arenas newNode returns 0 and changes nothing.
newNode ==
    /\ nodes.allocated
    /\ Cardinality(nodes.held) < MaxNodes
    /\ \E moved, refuse \in BOOLEAN :
          /\ Has("grow", nodes.used = Size(nodes), refuse)
          /\ IF NewFaults(nodes, moved, refuse) THEN Fails("nodes")
             ELSE /\ nodes' = Taken(Grown(nodes, moved, refuse))
                  /\ UNCHANGED <<lists, fault>>

\* nodeMemDecrease, called and given memory, meets a slot that was never written.
DestroyFaults(a, min, refuse) == Reducible(a, min) /\ ~ refuse /\ DecreaseFaults(a)

\* The arena after destroyNode.
Shrunk(a, min, refuse) == IF refuse THEN a ELSE Trimmed(a, min)

destroyNode(i) ==
    IF ~ IsPointer(nodes.table[i]) THEN Fails("nodes") /\ UNCHANGED refused
    ELSE LET n == Returned(nodes, i) IN
         \E refuse \in BOOLEAN :
            /\ Has("shrink", Reducible(n, NODEMIN), refuse)
            /\ IF DestroyFaults(n, NODEMIN, refuse) THEN Fails("nodes")
               ELSE nodes' = Shrunk(n, NODEMIN, refuse) /\ UNCHANGED <<lists, fault>>

\* With the last list all memory is released, that of the nodes too.
destroyList(i) ==
    IF ~ IsPointer(lists.table[i]) THEN Fails("lists") /\ UNCHANGED refused
    ELSE LET l == Returned(lists, i) IN
         IF l.used = 0
         THEN lists' = Unallocated /\ nodes' = Unallocated /\ UNCHANGED <<fault, refused>>
         ELSE \E refuse \in BOOLEAN :
                 /\ Has("shrink", Reducible(l, LISTMIN), refuse)
                 /\ IF DestroyFaults(l, LISTMIN, refuse) THEN Fails("lists")
                    ELSE lists' = Shrunk(l, LISTMIN, refuse) /\ UNCHANGED <<nodes, fault>>

Next ==
    /\ fault = "no"
    /\ \/ newList
       \/ InitRefused
       \/ newNode
       \/ \E i \in nodes.held : destroyNode(i)
       \/ \E i \in lists.held : destroyList(i)

Spec == Init /\ [][Next]_vars

-----------------------------------------------------------------------------
(* Properties.                                                             *)

ArenaType(a) ==
    /\ a.allocated \in BOOLEAN
    /\ a.used \in 0..Size(a)
    /\ Size(a) <= TableSize(a)
    /\ \A s \in DOMAIN a.slot : a.slot[s] \in 0..TableSize(a) \cup {Stale}
    /\ \A i \in DOMAIN a.table : a.table[i] \in 0..Size(a) \cup {Stale}
    /\ \A k \in DOMAIN a.free : a.free[k] \in 1..Size(a) \cup {Stale}
    /\ \A k \in DOMAIN a.free_index : a.free_index[k] \in 1..TableSize(a)
    /\ a.held \subseteq 1..TableSize(a)

\* Counters, pointers and indices stay within their ranges: no arena has
\* more structs than slots, and none is larger than its table.
TypeOK ==
    /\ ArenaType(lists) /\ ArenaType(nodes)
    /\ fault \in {"no", "lists", "nodes"}
    /\ refused \in {"no"} \cup Refused

Finds(a) ==
    /\ \A i \in a.held : a.table[i] \in DOMAIN a.slot /\ a.slot[a.table[i]] = i
    /\ a.used = Cardinality(a.held)
    /\ {s \in DOMAIN a.slot : a.slot[s] \notin {0, Stale}} = {a.table[i] : i \in a.held}

\* Every index a caller holds leads to the struct that was made for it, and
\* to no other's, however often the arenas were enlarged, moved and reduced
\* in between; the other structs are free.
HandlesFind == Finds(lists) /\ Finds(nodes)

Accounts(a) ==
    LET room == Size(a) - a.used
    IN  /\ Len(a.free) >= room
        /\ {a.free[k] : k \in 1..room} = {s \in DOMAIN a.slot : a.slot[s] = 0}
        /\ {a.free_index[k] : k \in DOMAIN a.free_index}
                = DOMAIN a.table \ a.held
        /\ Len(a.free_index) = TableSize(a) - a.used

\* The free list of an arena begins with exactly its free slots, so the
\* pointer to released memory that nodeMemDecrease leaves at its end is never
\* taken; the free list of the table holds every index nobody holds, once.  A
\* reduction that was refused breaks this only when a later one leaves slots
\* that were never written.
FreeListsAccount == \A a \in {lists, nodes} : DecreaseFaults(a) \/ Accounts(a)

Faulty == fault # "no"

FaultyArena == IF fault = "lists" THEN lists ELSE nodes

\* An arena that was reduced has to grow again while one of the low indices is
\* free.
Regrowth(a) ==
    /\ Size(a) < TableSize(a)
    /\ a.used = Size(a)
    /\ ~ (1..Size(a) \subseteq a.held)

\* As long as memory can be had, the allocator uses a pointer that points nowhere
\* in one situation only.
OnlyGrowthFaults == [][Faulty' /\ refused' = "no" => Regrowth(FaultyArena')]_vars

\* Memory that was refused makes three more.  The arenas could not be had, or one
\* of them could not grow; or one that could not be reduced when half of it became
\* free was reduced later, to slots nothing was moved to: taking one of these, or
\* reducing the arena again, uses what points nowhere.  Until then every index
\* leads to its struct (HandlesFind).
OnlyRefusalFaults ==
    [][ Faulty' => \/ Regrowth(FaultyArena')
                   \/ refused' = "init" /\ ~ lists.allocated
                   \/ refused' = "grow" /\ refused = "no"
                   \/ refused' = "shrink" /\ DecreaseFaults(FaultyArena') ]_vars

\* What the comments of getListFromTable and getNodeFromTable say: they return
\* the struct corresponding to the index.  So no pointer that points nowhere
\* is used.
IndexLeadsToStruct == fault = "no"
=============================================================================
