------------------------------- MODULE KQueue -------------------------------
(***************************************************************************)
(* The doubly linked list of kqueue.h at the level of its pointers.  The   *)
(* scheduler keeps its processes in one, a process its children and its    *)
(* termination listeners, the SD driver the reads that wait.  A node is    *)
(* an address; the heap may reuse that of a deleted node.  Operations are  *)
(* atomic here: Scheduler and SdReads say who may interrupt whom.          *)
(***************************************************************************)
EXTENDS Integers, Sequences, FiniteSets, FiniteSetsExt

CONSTANTS
    Values,         \* the elements
    Nothing,        \* what a pop that returns `false' leaves in `popped'
    MaxNodes        \* bound: the addresses of nodes are 1 .. MaxNodes

ASSUME NodesAssumption == MaxNodes \in Nat

VARIABLES
    front, back,    \* the fields of kqueue
    length,
    node,           \* the nodes in the heap: address -> fields
    gone,           \* TRUE: the queue has been destroyed
    popped          \* the result of the last pop

vars == <<front, back, length, node, gone, popped>>

Null == 0

\* Assignments through pointers: n->field = value, for each of a set of
\* triples whose pointer is not null.
Assign(heap, writes) ==
    [n \in DOMAIN heap |-> [f \in DOMAIN heap[n] |->
        LET to == {w \in writes : w[1] = n /\ w[2] = f}
        IN  IF to = {} THEN heap[n][f] ELSE (CHOOSE w \in to : TRUE)[3]]]
New(n, data, next, prev) ==
    [m \in DOMAIN node \cup {n} |->
        IF m = n THEN [data |-> data, next |-> next, prev |-> prev]
        ELSE node[m]]
\* delete.  Mutant: the nodes stay in the heap.
FreeNone(heap, nodes) == heap
Free(heap, nodes) == [n \in DOMAIN heap \ nodes |-> heap[n]]
FreeNode == Min((1 .. MaxNodes) \ DOMAIN node)
MayPush == DOMAIN node # 1 .. MaxNodes

\* The addresses that the iterator passes from n to end().
NodesFrom(n) ==
    LET path[i \in 1 .. MaxNodes + 1] ==
            IF i = 1 THEN n
            ELSE IF path[i - 1] = Null THEN Null ELSE node[path[i - 1]].next
        steps == Min({i \in 1 .. MaxNodes + 1 : path[i] = Null})
    IN  [i \in 1 .. steps - 1 |-> path[i]]

Init ==
    /\ front = Null /\ back = Null /\ length = 0
    /\ node = <<>>
    /\ gone = FALSE
    /\ popped = Nothing

PushFront(v) ==
    /\ MayPush
    /\ node' = Assign(New(FreeNode, v, front, Null),
                      {<<front, "prev", FreeNode>>})
    /\ front' = FreeNode
    /\ back' = IF front = Null THEN FreeNode ELSE back
    /\ length' = length + 1
    /\ UNCHANGED <<gone, popped>>

PushBack(v) ==
    /\ MayPush
    /\ node' = Assign(New(FreeNode, v, Null, back),
                      {<<back, "next", FreeNode>>})
    /\ back' = FreeNode
    /\ front' = IF back = Null THEN FreeNode ELSE front
    /\ length' = length + 1
    /\ UNCHANGED <<gone, popped>>

PopEmpty ==
    /\ front = Null
    /\ popped' = Nothing
    /\ UNCHANGED <<front, back, length, node, gone>>

PopBack ==
    /\ back # Null
    /\ LET n == back
           prev == node[n].prev
       IN  /\ popped' = node[n].data
           /\ back' = prev
           /\ front' = IF prev = Null THEN Null ELSE front
           /\ node' = Free(Assign(node, {<<prev, "next", Null>>}), {n})
    /\ length' = length - 1
    /\ UNCHANGED gone

\* Mutant: the new first node keeps its pointer to the deleted one.
PopFrontKeepsPrev ==
    /\ front # Null
    /\ popped' = node[front].data
    /\ front' = node[front].next
    /\ back' = IF node[front].next = Null THEN Null ELSE back
    /\ node' = Free(node, {front})
    /\ length' = length - 1
    /\ UNCHANGED gone
PopFront ==
    /\ front # Null
    /\ LET n == front
           next == node[n].next
       IN  /\ popped' = node[n].data
           /\ front' = next
           /\ back' = IF next = Null THEN Null ELSE back
           /\ node' = Free(Assign(node, {<<next, "prev", Null>>}), {n})
    /\ length' = length - 1
    /\ UNCHANGED gone

\* remove(iter): the node is unlinked; it is not deleted, and the length
\* stays.  Mutant: the last node is removed and `back' stays.
UnlinkKeepsBack(n) ==
    LET next == node[n].next
        prev == node[n].prev
    IN  /\ node' = Assign(node, {<<prev, "next", next>>, <<next, "prev", prev>>})
        /\ front' = IF n = front THEN next ELSE front
        /\ back' = back
Unlink(n) ==
    LET next == node[n].next
        prev == node[n].prev
    IN  /\ node' = Assign(node, {<<prev, "next", next>>, <<next, "prev", prev>>})
        /\ front' = IF n = front THEN next ELSE front
        /\ back' = IF n = back THEN prev ELSE back

\* The loops over the queue that end with the first element equal to v.
RemoveValue(v) ==
    LET at == NodesFrom(front)
        hits == {i \in DOMAIN at : node[at[i]].data = v}
    IN  /\ IF hits # {} THEN Unlink(at[Min(hits)])
           ELSE UNCHANGED <<front, back, node>>
        /\ UNCHANGED <<length, gone, popped>>

\* clear(), which only the destructor calls: the pointers and the length
\* keep their values.
Clear ==
    /\ node' = Free(node, {NodesFrom(front)[i] : i \in DOMAIN NodesFrom(front)})
    /\ gone' = TRUE
    /\ UNCHANGED <<front, back, length, popped>>

Next ==
    /\ ~gone
    /\ \/ \E v \in Values : PushFront(v) \/ PushBack(v) \/ RemoveValue(v)
       \/ PopEmpty \/ PopFront \/ PopBack \/ Clear

Spec == Init /\ [][Next]_vars

---------------------------------------------------------------------------

\* kqueue implements the queue its header describes: the elements that an
\* iterator passes from begin() are the contents (kqueue.h:11).
Contents ==
    IF gone THEN <<>>
    ELSE [i \in DOMAIN NodesFrom(front) |-> node[NodesFrom(front)[i]].data]
Queue == INSTANCE Deque WITH contents <- Contents, popped <- popped
ImplementsDeque == Queue!Spec

\* The way back along prev is the way there along next, from back to front;
\* no pointer that an operation will follow leads to a deleted node
\* (push, pop and remove at both ends, in any order).
LinksAgree ==
    ~gone =>
    LET at == NodesFrom(front)
    IN  /\ \A i \in DOMAIN at :
              node[at[i]].prev = IF i = 1 THEN Null ELSE at[i - 1]
        /\ back = IF at = <<>> THEN Null ELSE at[Len(at)]

\* The nodes that remove() has taken out of the list, which nothing deletes.
Removed ==
    DOMAIN node \ {NodesFrom(front)[i] : i \in DOMAIN NodesFrom(front)}

\* get_length() is not "the length of the queue" (kqueue.h:124-127) once an
\* element has been removed: remove() does not count down (kqueue.h:173-191), so
\* that the length is too large by one for every element that was ever removed,
\* and by no more: push and pop count each element once.
LengthCountsRemoved ==
    ~gone => length = Len(Contents) + Cardinality(Removed)
=============================================================================
