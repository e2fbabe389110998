------------------------------ MODULE ListSpec ------------------------------
(***************************************************************************)
(* What the list library promises its callers: a list is a sequence of     *)
(* items and a current position, 0 when no item is current.  The module    *)
(* List shows that the linked nodes of the library keep the promise.       *)
(*                                                                         *)
(* Every operation leaves in call which one it was and in value what it    *)
(* returned.  The one way a caller can make the library dereference a null *)
(* pointer is in the promise too, as crashed: it moves the cursor of a     *)
(* list that has items and no current one.                                 *)
(***************************************************************************)
EXTENDS Integers, Sequences, SequencesExt

CONSTANTS
    Handles,    \* what ListCreate may return
    Items,      \* the item pointers callers store
    NULL        \* the null pointer, neither a handle nor an item

VARIABLES
    lists,      \* for every list that exists, its items and current position
    call,       \* the last call
    value,      \* what it returned
    crashed     \* a null pointer was dereferenced

vars == <<lists, call, value, crashed>>

\* Return value of the calls that report success, and of those that fail.
Success == 0
Failure == -1

Empty == [items |-> <<>>, cur |-> 0]

Live == DOMAIN lists

\* A list with items of which none is current.
Adrift(l) == l.items # <<>> /\ l.cur = 0

Current(l) == IF l.cur = 0 THEN NULL ELSE l.items[l.cur]

Init ==
    /\ lists = [h \in {} |-> Empty]
    /\ call = "none"
    /\ value = NULL
    /\ crashed = FALSE

Returns(v) == value' = v /\ UNCHANGED crashed

\* The call changes list h to l and returns v.
Becomes(h, l, v) ==
    /\ lists' = [lists EXCEPT ![h] = l]
    /\ Returns(v)

\* The call moves the cursor of h to position i and returns the item there.
MovesTo(h, i) == Becomes(h, [lists[h] EXCEPT !.cur = i], lists[h].items[i])

\* The call changes no list.
Leaves(v) == UNCHANGED lists /\ Returns(v)

-----------------------------------------------------------------------------

ListCreate(h) ==
    /\ h \notin Live
    /\ call' = "ListCreate"
    /\ lists' = [g \in Live \cup {h} |-> IF g = h THEN Empty ELSE lists[g]]
    /\ Returns(h)

\* Puts x in front of position i and makes it current.
PutAt(h, i, x) ==
    LET l == lists[h]
    IN  IF Adrift(l)
        THEN Leaves(Failure)
        ELSE Becomes(h, [items |-> InsertAt(l.items, i, x), cur |-> i], Success)

ListAdd(h, x) == call' = "ListAdd" /\ PutAt(h, lists[h].cur + 1, x)

ListInsert(h, x) ==
    /\ call' = "ListInsert"
    /\ PutAt(h, IF lists[h].cur = 0 THEN 1 ELSE lists[h].cur, x)

ListAppend(h, x) ==
    LET s == Append(lists[h].items, x)
    IN  /\ call' = "ListAppend"
        /\ Becomes(h, [items |-> s, cur |-> Len(s)], Success)

ListPrepend(h, x) ==
    /\ call' = "ListPrepend"
    /\ Becomes(h, [items |-> <<x>> \o lists[h].items, cur |-> 1], Success)

\* h2 ceases to exist.  The current item stays that of h1, if there is one.
ListConcat(h1, h2) ==
    /\ h1 # h2
    /\ call' = "ListConcat"
    /\ lists' = [g \in Live \ {h2} |->
                    IF g = h1
                    THEN [lists[h1] EXCEPT !.items = @ \o lists[h2].items]
                    ELSE lists[g]]
    /\ Returns(NULL)

ListFirst(h) ==
    /\ call' = "ListFirst"
    /\ IF lists[h].items = <<>> THEN Leaves(NULL) ELSE MovesTo(h, 1)

ListLast(h) ==
    /\ call' = "ListLast"
    /\ IF lists[h].items = <<>> THEN Leaves(NULL)
       ELSE MovesTo(h, Len(lists[h].items))

\* One step on, or back; NULL and no move at the end of the list.
ListNext(h) ==
    /\ call' = "ListNext"
    /\ ~ Adrift(lists[h])
    /\ IF lists[h].cur = Len(lists[h].items) THEN Leaves(NULL)
       ELSE MovesTo(h, lists[h].cur + 1)

ListPrev(h) ==
    /\ call' = "ListPrev"
    /\ ~ Adrift(lists[h])
    /\ IF lists[h].cur \in {0, 1} THEN Leaves(NULL)
       ELSE MovesTo(h, lists[h].cur - 1)

Crash(h) ==
    /\ Adrift(lists[h])
    /\ call' \in {"ListNext", "ListPrev"}
    /\ crashed' = TRUE
    /\ UNCHANGED <<lists, value>>

ListCurr(h) == call' = "ListCurr" /\ Leaves(Current(lists[h]))

ListCount(h) == call' = "ListCount" /\ Leaves(Len(lists[h].items))

\* The first x from the current position on becomes current.  If there is none, a
\* caller may rely on no more than that the position stays or goes to the end: the
\* code does the one, its description says the other.
ListSearch(h, x) ==
    LET l == lists[h]
        Hits == {i \in 1..Len(l.items) : l.cur # 0 /\ i >= l.cur /\ l.items[i] = x}
    IN  /\ call' = "ListSearch"
        /\ IF Hits = {}
           THEN \E i \in {l.cur, Len(l.items)} : Becomes(h, [l EXCEPT !.cur = i], NULL)
           ELSE MovesTo(h, CHOOSE i \in Hits : \A j \in Hits : i <= j)

\* The item after the removed one becomes current, else the one before it.
ListRemove(h) ==
    LET l == lists[h]
        s == RemoveAt(l.items, l.cur)
    IN  /\ call' = "ListRemove"
        /\ IF l.cur = 0 THEN Leaves(NULL)
           ELSE Becomes(h,
                        [items |-> s,
                         cur |-> IF l.cur > Len(s) THEN Len(s) ELSE l.cur],
                        Current(l))

ListTrim(h) ==
    LET l == lists[h]
        s == Front(l.items)
    IN  /\ call' = "ListTrim"
        /\ IF l.items = <<>> THEN Leaves(NULL)
           ELSE Becomes(h, [items |-> s, cur |-> Len(s)], Last(l.items))

\* The value stands for the calls of itemFree: every item, in order.
ListFree(h) ==
    /\ call' = "ListFree"
    /\ lists' = [g \in Live \ {h} |-> lists[g]]
    /\ Returns(lists[h].items)

Next ==
    /\ ~ crashed
    /\ \/ \E h \in Handles : ListCreate(h)
       \/ \E h \in Live :
            \/ \E x \in Items :
                  \/ ListAdd(h, x) \/ ListInsert(h, x)
                  \/ ListAppend(h, x) \/ ListPrepend(h, x)
                  \/ ListSearch(h, x)
            \/ \E g \in Live : ListConcat(h, g)
            \/ ListFirst(h) \/ ListLast(h)
            \/ ListNext(h) \/ ListPrev(h) \/ Crash(h)
            \/ ListCurr(h) \/ ListCount(h)
            \/ ListRemove(h) \/ ListTrim(h) \/ ListFree(h)

Spec == Init /\ [][Next]_vars
=============================================================================
