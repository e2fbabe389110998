-------------------------------- MODULE List --------------------------------
(***************************************************************************)
(* The list library as linked nodes: list_adders.c, list_movers.c and      *)
(* list_removers.c, one action per function of list.h.                     *)
(*                                                                         *)
(* A list is a struct with the indices of its first, last and current      *)
(* node, a node links to the nodes before and after it.  newNode, newList, *)
(* destroyNode and destroyList are used here as the allocator promises     *)
(* them: a fresh index, whose struct is zeroed.  ListAlloc models how      *)
(* list_alloc.c keeps that promise.                                        *)
(*                                                                         *)
(* Callers pass lists that exist, and two different ones to ListConcat.    *)
(* The library is not used by several threads.                             *)
(***************************************************************************)
EXTENDS Integers, FiniteSets, SequencesExt

CONSTANTS
    Nodes,      \* bound: the nodes that may be in use at a time
    Handles,    \* bound: the lists that may exist at a time
    Items,      \* the item pointers callers store
    NULL        \* index 0 and the null pointer

ASSUME NullIsNothing == NULL \notin Nodes \cup Handles \cup Items
ASSUME FiniteNodes == IsFiniteSet(Nodes)

VARIABLES
    node,       \* the InternalNode of every index
    list,       \* the InternalList of every handle
    call,       \* the last call
    value,      \* what it returned
    crashed     \* a null pointer was dereferenced

vars == <<node, list, call, value, crashed>>

\* Return value of ListAdd and its like.
Success == 0
Failure == -1

InternalNode ==
    [in_use : BOOLEAN, item : Items \cup {NULL},
     next : Nodes \cup {NULL}, prev : Nodes \cup {NULL}]

InternalList ==
    [in_use : BOOLEAN, head : Nodes \cup {NULL}, tail : Nodes \cup {NULL},
     cursor : Nodes \cup {NULL}, size : Nat]

BlankNode == [in_use |-> FALSE, item |-> NULL, next |-> NULL, prev |-> NULL]

BlankList ==
    [in_use |-> FALSE, head |-> NULL, tail |-> NULL, cursor |-> NULL, size |-> 0]

Live == {h \in Handles : list[h].in_use}
InUse == {n \in Nodes : node[n].in_use}

Init ==
    /\ node = [n \in Nodes |-> BlankNode]
    /\ list = [h \in Handles |-> BlankList]
    /\ call = "none"
    /\ value = NULL
    /\ crashed = FALSE

-----------------------------------------------------------------------------
(* Steps of the functions below.                                           *)

Returns(v) == value' = v /\ UNCHANGED crashed

\* The nodes become nd, list h becomes l, and the call returns v.
Writes(nd, h, l, v) ==
    /\ node' = nd
    /\ list' = [list EXCEPT ![h] = l]
    /\ Returns(v)

Leaves(v) == UNCHANGED <<node, list>> /\ Returns(v)

\* The call follows the null pointer that getNodeFromTable(NULL) is.
Crashes == crashed' = TRUE /\ UNCHANGED <<node, list, value>>

\* newNode: the fresh indices.
Fresh == Nodes \ InUse

NewNode(x, next, prev) ==
    [in_use |-> TRUE, item |-> x, next |-> next, prev |-> prev]

\* nd after "if there is a node m then set its next, or its prev, to n".
LinkNext(nd, m, n) == IF m = NULL THEN nd ELSE [nd EXCEPT ![m].next = n]

\* Variant: the link back is forgotten.
LinkPrev_not(nd, m, n) == nd

LinkPrev(nd, m, n) == IF m = NULL THEN nd ELSE [nd EXCEPT ![m].prev = n]

\* l after node n was added to it: n is current.
Grown(l, n) == [l EXCEPT !.cursor = n, !.size = @ + 1]

\* n becomes the only node of a list.
AddOnly(h, n, x) ==
    Writes([node EXCEPT ![n] = NewNode(x, NULL, NULL)], h,
           [Grown(list[h], n) EXCEPT !.head = n, !.tail = n], Success)

\* The list has nodes, the one to link n to is not there: n is lost.
AddFails(h, n, x) ==
    Writes([node EXCEPT ![n] = NewNode(x, NULL, NULL)], h, list[h], Failure)

\* The item the cursor was moved to.
MovesTo(h, n) ==
    Writes(node, h, [list[h] EXCEPT !.cursor = n], node[n].item)

\* The nodes from first along the next links of nd.
Chain(nd, first) ==
    LET at[i \in 1..Cardinality(Nodes)] ==
            IF i = 1 THEN first
            ELSE IF at[i - 1] = NULL THEN NULL ELSE nd[at[i - 1]].next
    IN  Restrict(at, {i \in DOMAIN at : at[i] # NULL})

\* The nodes of list h, in order.
Chained(h) == Chain(node, list[h].head)

\* The items that nd stores in the nodes c.
Stored(nd, c) == [i \in 1..Len(c) |-> nd[c[i]].item]

-----------------------------------------------------------------------------
(* list_adders.c                                                           *)

ListCreate(h) ==
    /\ h \notin Live
    /\ call' = "ListCreate"
    /\ Writes(node, h, [BlankList EXCEPT !.in_use = TRUE], h)

\* After the current node.
ListAdd(h, x) ==
    \E n \in Fresh :
        LET l == list[h]
            c == l.cursor
            next == node[c].next
        IN  /\ call' = "ListAdd"
            /\ IF l.size = 0 THEN AddOnly(h, n, x)
               ELSE IF c = NULL THEN AddFails(h, n, x)
               ELSE IF l.head = l.tail
               THEN Writes([node EXCEPT ![n] = NewNode(x, NULL, l.head),
                                        ![c].next = n],
                           h, [Grown(l, n) EXCEPT !.tail = n], Success)
               ELSE Writes([LinkPrev(node, next, n)
                               EXCEPT ![n] = NewNode(x, next, c), ![c].next = n],
                           h,
                           IF next = NULL THEN [Grown(l, n) EXCEPT !.tail = n]
                           ELSE Grown(l, n),
                           Success)

\* Before the current node.
ListInsert(h, x) ==
    \E n \in Fresh :
        LET l == list[h]
            c == l.cursor
            prev == node[c].prev
        IN  /\ call' = "ListInsert"
            /\ IF l.size = 0 THEN AddOnly(h, n, x)
               ELSE IF c = NULL THEN AddFails(h, n, x)
               ELSE IF l.head = l.tail
               THEN Writes([node EXCEPT ![n] = NewNode(x, l.tail, NULL),
                                        ![c].prev = n],
                           h, [Grown(l, n) EXCEPT !.head = n], Success)
               ELSE Writes([LinkNext(node, prev, n)
                               EXCEPT ![n] = NewNode(x, c, prev), ![c].prev = n],
                           h,
                           IF prev = NULL THEN [Grown(l, n) EXCEPT !.head = n]
                           ELSE Grown(l, n),
                           Success)

ListAppend(h, x) ==
    \E n \in Fresh :
        LET l == list[h]
        IN  /\ call' = "ListAppend"
            /\ IF l.size = 0 THEN AddOnly(h, n, x)
               ELSE IF l.tail = NULL THEN AddFails(h, n, x)
               ELSE Writes([node EXCEPT ![n] = NewNode(x, NULL, l.tail),
                                        ![l.tail].next = n],
                           h, [Grown(l, n) EXCEPT !.tail = n], Success)

ListPrepend(h, x) ==
    \E n \in Fresh :
        LET l == list[h]
        IN  /\ call' = "ListPrepend"
            /\ IF l.size = 0 THEN AddOnly(h, n, x)
               ELSE IF l.head = NULL THEN AddFails(h, n, x)
               ELSE Writes([node EXCEPT ![n] = NewNode(x, l.head, NULL),
                                        ![l.head].prev = n],
                           h, [Grown(l, n) EXCEPT !.head = n], Success)

\* Variant: the sizes are subtracted.
Joined_minus(l1, l2) ==
    [l1 EXCEPT !.head = IF @ = NULL THEN l2.head ELSE @,
               !.tail = IF l2.tail # NULL THEN l2.tail ELSE @,
               !.size = @ - l2.size]

\* l1 with l2 behind it; the cursor of l1 stays, even if l1 was empty.
Joined(l1, l2) ==
    [l1 EXCEPT !.head = IF @ = NULL THEN l2.head ELSE @,
               !.tail = IF l2.tail # NULL THEN l2.tail ELSE @,
               !.size = @ + l2.size]

ListConcat(h1, h2) ==
    LET l1 == list[h1]
        l2 == list[h2]
    IN  /\ h1 # h2
        /\ call' = "ListConcat"
        /\ node' = LinkPrev(LinkNext(node, l1.tail, l2.head), l2.head, l1.tail)
        /\ list' = [list EXCEPT ![h1] = Joined(l1, l2), ![h2] = BlankList]
        /\ Returns(NULL)

-----------------------------------------------------------------------------
(* list_movers.c                                                           *)

ListCount(h) == call' = "ListCount" /\ Leaves(list[h].size)

ListFirst(h) ==
    /\ call' = "ListFirst"
    /\ IF list[h].size = 0 THEN Leaves(NULL) ELSE MovesTo(h, list[h].head)

ListLast(h) ==
    /\ call' = "ListLast"
    /\ IF list[h].size = 0 THEN Leaves(NULL) ELSE MovesTo(h, list[h].tail)

ListNext(h) ==
    LET l == list[h]
    IN  /\ call' = "ListNext"
        /\ IF l.size = 0 \/ l.cursor = l.tail THEN Leaves(NULL)
           ELSE IF l.cursor = NULL THEN Crashes
           ELSE MovesTo(h, node[l.cursor].next)

ListPrev(h) ==
    LET l == list[h]
    IN  /\ call' = "ListPrev"
        /\ IF l.size = 0 \/ l.cursor = l.head THEN Leaves(NULL)
           ELSE IF l.cursor = NULL THEN Crashes
           ELSE MovesTo(h, node[l.cursor].prev)

ListCurr(h) ==
    LET c == list[h].cursor
    IN  call' = "ListCurr" /\ Leaves(IF c = NULL THEN NULL ELSE node[c].item)

\* The comparator looks for x.  The walk starts at the current node.
ListSearch(h, x) ==
    LET c == Chain(node, list[h].cursor)
        Hits == {i \in 1..Len(c) : node[c[i]].item = x}
    IN  /\ call' = "ListSearch"
        /\ IF Hits = {} THEN Leaves(NULL)
           ELSE MovesTo(h, c[CHOOSE i \in Hits : \A j \in Hits : i <= j])

-----------------------------------------------------------------------------
(* list_removers.c                                                         *)

\* Variant: the node before the removed one becomes current.
Without_back(l, prev, next) ==
    [l EXCEPT !.cursor = IF prev = NULL THEN next ELSE prev,
              !.tail = IF next = NULL THEN prev ELSE @,
              !.head = IF prev = NULL THEN next ELSE @,
              !.size = @ - 1]

\* l without its current node, which was between prev and next.
Without(l, prev, next) ==
    [l EXCEPT !.cursor = IF next = NULL THEN prev ELSE next,
              !.tail = IF next = NULL THEN prev
                       ELSE IF l.head = l.tail THEN NULL ELSE @,
              !.head = IF next # NULL /\ prev = NULL THEN next
                       ELSE IF l.head = l.tail THEN NULL ELSE @,
              !.size = @ - 1]

ListRemove(h) ==
    LET l == list[h]
        c == l.cursor
        prev == node[c].prev
        next == node[c].next
    IN  /\ call' = "ListRemove"
        /\ IF l.size = 0 \/ c = NULL THEN Leaves(NULL)
           ELSE Writes([IF l.head = l.tail THEN node
                        ELSE LinkNext(LinkPrev(node, next, prev), prev, next)
                           EXCEPT ![c] = BlankNode],
                       h, Without(l, prev, next), node[c].item)

ListTrim(h) ==
    LET l == list[h]
        t == l.tail
        prev == node[t].prev
        only == l.head = l.tail
    IN  /\ call' = "ListTrim"
        /\ IF l.size = 0 THEN Leaves(NULL)
           ELSE Writes([IF only THEN node ELSE [node EXCEPT ![prev].next = NULL]
                           EXCEPT ![t] = BlankNode],
                       h,
                       [l EXCEPT !.head = IF only THEN NULL ELSE @,
                                 !.tail = IF only THEN NULL ELSE prev,
                                 !.cursor = prev,
                                 !.size = @ - 1],
                       node[t].item)

\* Variant: only the last node is destroyed.
Destroyed_last(c) == {c[i] : i \in {Len(c)} \ {0}}

\* The nodes ListFree destroys: at every node but the first and the last the
\* one before it, at the end the last.
Destroyed(c) ==
    {node[c[i]].prev : i \in 2..(Len(c) - 1)} \cup {c[i] : i \in {Len(c)} \ {0}}

\* destroyList: with the last list all memory goes.
ListFree(h) ==
    LET c == Chained(h)
        gone == IF Live = {h} THEN Nodes ELSE Destroyed(c)
    IN  /\ call' = "ListFree"
        /\ Writes([n \in Nodes |-> IF n \in gone THEN BlankNode ELSE node[n]],
                  h, BlankList, Stored(node, c))

-----------------------------------------------------------------------------

Next ==
    /\ ~ crashed
    /\ \/ \E h \in Handles : ListCreate(h)
       \/ \E h \in Live :
            \/ \E x \in Items :
                  \/ ListAdd(h, x) \/ ListInsert(h, x)
                  \/ ListAppend(h, x) \/ ListPrepend(h, x)
                  \/ ListSearch(h, x)
            \/ \E g \in Live : ListConcat(h, g)
            \/ ListFirst(h) \/ ListLast(h) \/ ListNext(h) \/ ListPrev(h)
            \/ ListCurr(h) \/ ListCount(h)
            \/ ListRemove(h) \/ ListTrim(h) \/ ListFree(h)

Spec == Init /\ [][Next]_vars

-----------------------------------------------------------------------------
(* Properties.                                                             *)

\* Variables stay within their types.
TypeOK ==
    /\ node \in [Nodes -> InternalNode]
    /\ list \in [Handles -> InternalList]
    /\ crashed \in BOOLEAN

Linked(h) == ToSet(Chained(h))

\* Nodes in use that no list reaches.
Lost == InUse \ UNION {Linked(h) : h \in Live}

\* Read forwards, a list is size nodes in use that end at its tail.
EndsAtTail(h) ==
    LET c == Chained(h)
    IN  /\ Len(c) = list[h].size
        /\ list[h].tail = IF c = <<>> THEN NULL ELSE Last(c)
        /\ Linked(h) \subseteq InUse

\* Backwards, its nodes are the same.
LinkedBack(h) ==
    LET c == Chained(h)
    IN  \A i \in 1..Len(c) :
            node[c[i]].prev = IF i = 1 THEN NULL ELSE c[i - 1]

\* The structure every function of the library relies on and has to restore:
\* a list reads the same in both directions, its size and its ends are right,
\* its cursor is at one of its nodes or nowhere, and no node is on two lists.
\* Any order of additions, removals and ListConcat keeps it.
WellLinked ==
    /\ \A h \in Live : /\ EndsAtTail(h) /\ LinkedBack(h)
                       /\ list[h].cursor \in Linked(h) \cup {NULL}
    /\ \A g, h \in Live : g # h => Linked(g) \cap Linked(h) = {}

\* Where node n is in c, 0 if it is not.
Position(c, n) == SelectInSeq(c, LAMBDA m : m = n)

\* The sequence and the position a list stands for.
Contents(h) ==
    [items |-> Stored(node, Chained(h)),
     cur |-> Position(Chained(h), list[h].cursor)]

Abstract == INSTANCE ListSpec WITH lists <- [h \in Live |-> Contents(h)]

\* The nodes implement sequences with a current position: whatever callers
\* do, every function of list.h returns what ListSpec says, and changes the
\* list it is given, its cursor and no other list as ListSpec says.
ImplementsListSpec == Abstract!Spec

\* A node that drops out of all lists without being freed stays unused for as
\* long as a list exists.  That happens to one node at a time, and in two
\* ways only: a list of two or more nodes is freed, although the comment of
\* ListFree says "Delete list and free all nodes", or ListAdd or ListInsert
\* fails because no item is current.
LossIsKnown ==
    /\ Live' # {} => Lost \subseteq Lost'
    /\ \A n \in Lost' \ Lost :
        /\ Lost' \ Lost = {n}
        /\ \/ call' = "ListFree" /\ Len(value') >= 2
           \/ /\ call' \in {"ListAdd", "ListInsert"}
              /\ value' = Failure

LossesAreKnown == [][LossIsKnown]_vars
=============================================================================
