---------------------------- MODULE KQueueProofs ----------------------------
(***************************************************************************)
(* Proofs about KQueue, for every set of elements and every number of      *)
(* nodes: the list is the queue that its header describes.                 *)
(***************************************************************************)
EXTENDS KQueue, SetInduction, SequenceTheorems

Fields == {"data", "next", "prev"}

\* A heap of nodes.
IsHeap(heap) ==
    /\ DOMAIN heap \subseteq 1 .. MaxNodes
    /\ \A n \in DOMAIN heap : DOMAIN heap[n] = Fields

\* The list of the k nodes `at' in a heap: no node twice, neighbours point to
\* each other, the queue to the ends.
IsList(heap, first, last, k, at) ==
    /\ \A i, j \in 1 .. k : at[i] = at[j] => i = j
    /\ first = IF k = 0 THEN Null ELSE at[1]
    /\ last = IF k = 0 THEN Null ELSE at[k]
    /\ \A i \in 1 .. k :
          /\ heap[at[i]].next = IF i = k THEN Null ELSE at[i + 1]
          /\ heap[at[i]].prev = IF i = 1 THEN Null ELSE at[i - 1]
HasList(heap, first, last) ==
    \E k \in Nat : \E at \in [1 .. k -> DOMAIN heap] :
        IsList(heap, first, last, k, at)

QueueInv ==
    ~gone => /\ IsHeap(node)
             /\ HasList(node, front, back)
             /\ length = Cardinality(DOMAIN node)

---------------------------------------------------------------------------

\* The iterator's way in a heap that is not that of the current state.
Path(heap, n) ==
    LET path[i \in 1 .. MaxNodes + 1] ==
            IF i = 1 THEN n
            ELSE IF path[i - 1] = Null THEN Null ELSE heap[path[i - 1]].next
    IN  path
Walk(heap, n) ==
    LET path == Path(heap, n)
        steps == Min({i \in 1 .. MaxNodes + 1 : path[i] = Null})
    IN  [i \in 1 .. steps - 1 |-> path[i]]
ContentsOf(heap, n) ==
    [i \in DOMAIN Walk(heap, n) |-> heap[Walk(heap, n)[i]].data]

LEMMA NodesFromIs ==
    /\ NodesFrom(front) = Walk(node, front)
    /\ (NodesFrom(front))' = Walk(node', front')
BY DEF NodesFrom, Walk, Path

LEMMA ContentsIs ==
    /\ Contents = IF gone THEN <<>> ELSE ContentsOf(node, front)
    /\ Contents' = IF gone' THEN <<>> ELSE ContentsOf(node', front')
BY NodesFromIs DEF Contents, ContentsOf

\* A list has no more nodes than the heap has addresses.
LEMMA ListIsShort ==
    ASSUME NEW heap, IsHeap(heap), NEW first, NEW last, NEW k \in Nat,
           NEW at \in [1 .. k -> DOMAIN heap],
           IsList(heap, first, last, k, at)
    PROVE  k <= MaxNodes
<1>1. at \in Injection(1 .. k, 1 .. MaxNodes)
  BY DEF IsHeap, IsList, Injection, IsInjective
<1>2. /\ IsFiniteSet(1 .. k) /\ Cardinality(1 .. k) = k
      /\ IsFiniteSet(1 .. MaxNodes) /\ Cardinality(1 .. MaxNodes) = MaxNodes
  BY FS_Interval, NodesAssumption
<1> QED BY <1>1, <1>2, FS_Injection

\* The iterator passes exactly the nodes of the list.
LEMMA WalkIsList ==
    ASSUME NEW heap, IsHeap(heap), NEW first, NEW last, NEW k \in Nat,
           NEW at \in [1 .. k -> DOMAIN heap],
           IsList(heap, first, last, k, at)
    PROVE  Walk(heap, first) = at
<1> USE NodesAssumption
<1> DEFINE Dom == 1 .. MaxNodes + 1
           Step(p) == [i \in Dom |->
                         IF i = 1 THEN first
                         ELSE IF p[i - 1] = Null THEN Null
                         ELSE heap[p[i - 1]].next]
           w == [i \in Dom |-> IF i <= k THEN at[i] ELSE Null]
           path == Path(heap, first)
<1>1. k <= MaxNodes
  BY ListIsShort
<1>2. \A i \in 1 .. k : at[i] \in 1 .. MaxNodes /\ at[i] # Null
  BY DEF IsHeap, Null
<1>3. w = Step(w)
  <2>1. ASSUME NEW i \in Dom PROVE w[i] = Step(w)[i]
    <3>1. CASE i = 1
      BY <3>1, <1>1 DEF IsList
    <3>2. CASE i # 1 /\ i - 1 > k
      BY <3>2, <1>1
    <3>3. CASE i # 1 /\ i - 1 = k
      <4>1. w[i - 1] = at[k] /\ w[i] = Null /\ k \in 1 .. k
        BY <3>3, <1>1
      <4> QED BY <3>3, <4>1, <1>2 DEF IsList
    <3>4. CASE i # 1 /\ i - 1 < k
      <4>1. w[i - 1] = at[i - 1] /\ w[i] = at[i] /\ i - 1 \in 1 .. k
        BY <3>4, <1>1
      <4> QED BY <3>4, <4>1, <1>2 DEF IsList
    <3> QED BY <3>1, <3>2, <3>3, <3>4
  <2> QED BY <2>1
<1>4. path = CHOOSE p : p = Step(p)
  BY DEF Path
<1>5. path = Step(path)
  <2> HIDE DEF Step, w
  <2> QED BY <1>3, <1>4
<1>6. \A n \in Nat : n + 1 \in Dom => path[n + 1] = w[n + 1]
  <2> DEFINE S == {n \in Nat : n + 1 \in Dom => path[n + 1] = w[n + 1]}
  <2>1. 0 \in S
    <3>1. path[1] = Step(path)[1] /\ w[1] = Step(w)[1]
      <4> HIDE DEF w, path, Step
      <4> QED BY <1>3, <1>5
    <3>2. path[0 + 1] = w[0 + 1]
      <4> HIDE DEF w, path
      <4> QED BY <3>1
    <3> HIDE DEF w, path
    <3> QED BY <3>2
  <2>2. ASSUME NEW n \in Nat, n \in S PROVE n + 1 \in S
    <3> SUFFICES ASSUME n + 2 \in Dom PROVE path[n + 2] = w[n + 2]
      OBVIOUS
    <3>1. path[n + 1] = w[n + 1] /\ n + 2 # 1 /\ (n + 2) - 1 = n + 1
      BY <2>2
    <3>2. path[n + 2] = Step(path)[n + 2] /\ w[n + 2] = Step(w)[n + 2]
      BY <1>3, <1>5
    <3> HIDE DEF w, path
    <3> QED BY <3>1, <3>2
  <2>3. \A n \in Nat : n \in S
    <3> HIDE DEF S
    <3> QED BY <2>1, <2>2, NatSetInduction
  <2> QED BY <2>3
<1>7. \A i \in Dom : path[i] = w[i]
  <2> SUFFICES ASSUME NEW i \in Dom PROVE path[i] = w[i]
    OBVIOUS
  <2>1. i - 1 \in Nat /\ (i - 1) + 1 = i
    OBVIOUS
  <2> HIDE DEF w, path
  <2> QED BY <2>1, <1>6
<1> DEFINE ends == {i \in Dom : path[i] = Null}
<1>8. ends = k + 1 .. MaxNodes + 1
  <2>1. ASSUME NEW i \in Dom PROVE path[i] = Null <=> i >= k + 1
    BY <1>1, <1>2, <1>7
  <2> HIDE DEF path
  <2> QED BY <2>1, <1>1
<1>9. Min(ends) = k + 1
  <2>1. ends \in SUBSET Nat /\ k + 1 \in ends
    BY <1>8, <1>1
  <2>2. Min(ends) \in ends /\ Min(ends) <= k + 1
    BY <2>1, LeastNumber
  <2> QED BY <2>2, <1>8
<1>10. Walk(heap, first) = [i \in 1 .. (k + 1) - 1 |-> path[i]]
  BY <1>9 DEF Walk
<1>11. \A i \in 1 .. k : path[i] = at[i]
  BY <1>1, <1>7
<1> HIDE DEF path
<1> QED BY <1>10, <1>11

\* So the contents of a queue are the data of the nodes of its list.
Data(heap) == {heap[n].data : n \in DOMAIN heap}
ContentsAre(c, heap, k, at) ==
    /\ c \in [1 .. k -> Data(heap)]
    /\ \A i \in 1 .. k : c[i] = heap[at[i]].data

LEMMA ContentsOfList ==
    ASSUME NEW heap, IsHeap(heap), NEW first, NEW last, NEW k \in Nat,
           NEW at \in [1 .. k -> DOMAIN heap],
           IsList(heap, first, last, k, at)
    PROVE  ContentsAre(ContentsOf(heap, first), heap, k, at)
<1>1. Walk(heap, first) = at /\ DOMAIN at = 1 .. k
  BY WalkIsList
<1> QED BY <1>1 DEF ContentsOf, ContentsAre, Data

---------------------------------------------------------------------------

\* What `new' and the writes through pointers leave in the heap.  A write
\* through a null pointer, which Assign skips, is a write to no node.
Allocated(new, heap, n, v, next, prev) ==
    /\ IsHeap(new) /\ DOMAIN new = DOMAIN heap \cup {n}
    /\ new[n].data = v /\ new[n].next = next /\ new[n].prev = prev
    /\ \A m \in DOMAIN heap : new[m] = heap[m]
Written(new, heap, p, v, q, u) ==
    /\ IsHeap(new) /\ DOMAIN new = DOMAIN heap
    /\ \A n \in DOMAIN heap :
          /\ new[n].next = IF n = p THEN v ELSE heap[n].next
          /\ new[n].prev = IF n = q THEN u ELSE heap[n].prev
          /\ new[n].data = heap[n].data

LEMMA NewAllocates ==
    ASSUME IsHeap(node), NEW n \in (1 .. MaxNodes) \ DOMAIN node,
           NEW v, NEW next, NEW prev
    PROVE  Allocated(New(n, v, next, prev), node, n, v, next, prev)
BY DEF Allocated, IsHeap, New, Fields

Any(S) == CHOOSE w \in S : TRUE
LEMMA AnyOfOne ==
    ASSUME NEW p, NEW f, NEW v
    PROVE  Any({<<p, f, v>>})[3] = v
<1>1. Any({<<p, f, v>>}) \in {<<p, f, v>>}
  BY DEF Any
<1> QED BY <1>1

\* The value that a write gives to a field, whatever the other writes are.
LEMMA AssignWrites ==
    ASSUME NEW heap, IsHeap(heap), NEW p, NEW v, NEW q, NEW u, NEW writes,
           \/ writes = {<<p, "next", v>>, <<q, "prev", u>>}
           \/ writes = {<<p, "next", v>>} /\ q = Null
           \/ writes = {<<q, "prev", u>>} /\ p = Null
    PROVE  Written(Assign(heap, writes), heap, p, v, q, u)
<1> DEFINE new == Assign(heap, writes)
<1>1. DOMAIN new = DOMAIN heap
  BY DEF Assign
<1>2. ASSUME NEW n \in DOMAIN heap
      PROVE  /\ DOMAIN new[n] = Fields
             /\ new[n].next = IF n = p THEN v ELSE heap[n].next
             /\ new[n].prev = IF n = q THEN u ELSE heap[n].prev
             /\ new[n].data = heap[n].data
  <2> DEFINE To(g) == {w \in writes : w[1] = n /\ w[2] = g}
             Value(g) == IF To(g) = {} THEN heap[n][g] ELSE Any(To(g))[3]
  <2>1. new[n] = [g \in Fields |-> Value(g)]
    BY DEF Assign, IsHeap, Any
  <2>2. n # Null
    BY DEF IsHeap, Null
  <2>3. /\ To("next") = IF n = p THEN {<<p, "next", v>>} ELSE {}
        /\ To("prev") = IF n = q THEN {<<q, "prev", u>>} ELSE {}
        /\ To("data") = {}
    BY <2>2
  <2>4. /\ Any({<<p, "next", v>>})[3] = v
        /\ Any({<<q, "prev", u>>})[3] = u
    BY AnyOfOne
  <2>5. /\ Value("next") = IF n = p THEN v ELSE heap[n].next
        /\ Value("prev") = IF n = q THEN u ELSE heap[n].prev
        /\ Value("data") = heap[n].data
    <3> HIDE DEF To
    <3> QED BY <2>3, <2>4
  <2> HIDE DEF Value
  <2> QED BY <2>1, <2>5 DEF Fields
<1> QED BY <1>1, <1>2 DEF IsHeap, Written

---------------------------------------------------------------------------

\* Functions on 1 .. k as sequences, and the operators on sequences of Deque.
LEMMA SeqOfPushFront ==
    ASSUME NEW S, NEW k \in Nat, NEW c \in [1 .. k -> S], NEW v \in S,
           NEW T, NEW d \in [1 .. k + 1 -> T],
           \A i \in 1 .. k + 1 : d[i] = IF i = 1 THEN v ELSE c[i - 1]
    PROVE  d = <<v>> \o c
<1>1. c \in Seq(S) /\ Len(c) = k /\ <<v>> \in Seq(S) /\ Len(<<v>>) = 1
  BY FunctionIsSeq
<1>2. \A i \in 1 .. k + 1 : (IF i = 1 THEN v ELSE c[i - 1]) \in S
  OBVIOUS
<1>3. d \in [1 .. k + 1 -> S]
  BY <1>2
<1>4. d \in Seq(S) /\ Len(d) = k + 1
  BY <1>3, FunctionIsSeq
<1>5. /\ <<v>> \o c \in Seq(S) /\ Len(<<v>> \o c) = 1 + k
      /\ \A i \in 1 .. 1 + k :
            (<<v>> \o c)[i] = IF i <= 1 THEN <<v>>[i] ELSE c[i - 1]
  BY <1>1, ConcatProperties
<1>6. \A i \in 1 .. k + 1 : d[i] = (<<v>> \o c)[i]
  BY <1>5
<1> QED BY <1>4, <1>5, <1>6, SeqEqual

LEMMA SeqOfPushBack ==
    ASSUME NEW S, NEW k \in Nat, NEW c \in [1 .. k -> S], NEW v \in S,
           NEW T, NEW d \in [1 .. k + 1 -> T],
           \A i \in 1 .. k + 1 : d[i] = IF i = k + 1 THEN v ELSE c[i]
    PROVE  d = Append(c, v)
<1>1. c \in Seq(S) /\ Len(c) = k
  BY FunctionIsSeq
<1>2. d \in [1 .. k + 1 -> S]
  OBVIOUS
<1>3. d \in Seq(S) /\ Len(d) = k + 1
  BY <1>2, FunctionIsSeq
<1>4. /\ Append(c, v) \in Seq(S) /\ Len(Append(c, v)) = k + 1
      /\ \A i \in 1 .. k : Append(c, v)[i] = c[i]
      /\ Append(c, v)[k + 1] = v
  BY <1>1, AppendProperties
<1>5. \A i \in 1 .. k + 1 : d[i] = Append(c, v)[i]
  BY <1>4
<1> QED BY <1>3, <1>4, <1>5, SeqEqual

LEMMA SeqOfPopFront ==
    ASSUME NEW S, NEW k \in Nat, NEW c \in [1 .. k -> S], k # 0,
           NEW T, NEW d \in [1 .. k - 1 -> T],
           \A i \in 1 .. k - 1 : d[i] = c[i + 1]
    PROVE  c # <<>> /\ Head(c) = c[1] /\ d = Tail(c)
<1>1. c \in Seq(S) /\ Len(c) = k /\ c # <<>>
  BY FunctionIsSeq, EmptySeq
<1>2. \A i \in 1 .. k - 1 : c[i + 1] \in S
  OBVIOUS
<1>3. d \in [1 .. k - 1 -> S] /\ k - 1 \in Nat
  BY <1>2
<1>4. d \in Seq(S) /\ Len(d) = k - 1
  BY <1>3, FunctionIsSeq
<1>5. /\ Head(c) = c[1] /\ Tail(c) \in Seq(S) /\ Len(Tail(c)) = k - 1
      /\ \A i \in 1 .. k - 1 : Tail(c)[i] = c[i + 1]
  BY <1>1, HeadTailProperties
<1>6. \A i \in 1 .. k - 1 : d[i] = Tail(c)[i]
  BY <1>5
<1> QED BY <1>1, <1>4, <1>5, <1>6, SeqEqual

LEMMA SeqOfPopBack ==
    ASSUME NEW S, NEW k \in Nat, NEW c \in [1 .. k -> S], k # 0,
           NEW T, NEW d \in [1 .. k - 1 -> T],
           \A i \in 1 .. k - 1 : d[i] = c[i]
    PROVE  /\ c # <<>> /\ Len(c) = k
           /\ d = SubSeq(c, 1, Len(c) - 1)
<1>1. c \in Seq(S) /\ Len(c) = k /\ c # <<>>
  BY FunctionIsSeq, EmptySeq
<1>2. SubSeq(c, 1, k - 1) = [i \in 1 .. k - 1 |-> c[i]]
  BY <1>1
<1> QED BY <1>1, <1>2

WithoutOne(d, c, k, m) ==
    /\ \E T : d \in [1 .. k - 1 -> T]
    /\ \A i \in 1 .. k - 1 : d[i] = IF i < m THEN c[i] ELSE c[i + 1]
LEMMA SeqOfRemove ==
    ASSUME NEW S, NEW k \in Nat, NEW c \in [1 .. k -> S], NEW m \in 1 .. k,
           NEW d, WithoutOne(d, c, k, m)
    PROVE  d = Queue!RemoveAt(c, m)
<1>. PICK T : d \in [1 .. k - 1 -> T]
  BY DEF WithoutOne
<1>. \A i \in 1 .. k - 1 : d[i] = IF i < m THEN c[i] ELSE c[i + 1]
  BY DEF WithoutOne
<1>1. c \in Seq(S) /\ Len(c) = k
  BY FunctionIsSeq
<1> DEFINE a == SubSeq(c, 1, m - 1)
           b == SubSeq(c, m + 1, k)
<1>2. /\ a \in Seq(S) /\ Len(a) = m - 1
      /\ \A i \in 1 .. m - 1 : a[i] = c[i]
  BY <1>1, SubSeqProperties
<1>3. /\ b \in Seq(S) /\ Len(b) = k - m
      /\ \A i \in 1 .. k - m : b[i] = c[m + i]
  BY <1>1, SubSeqProperties
<1> HIDE DEF a, b
<1>4. /\ a \o b \in Seq(S) /\ Len(a \o b) = k - 1
      /\ \A i \in 1 .. k - 1 :
            (a \o b)[i] = IF i <= m - 1 THEN a[i] ELSE b[i - (m - 1)]
  <2>1. /\ a \o b \in Seq(S) /\ Len(a \o b) = Len(a) + Len(b)
        /\ \A i \in 1 .. Len(a) + Len(b) :
              (a \o b)[i] = IF i <= Len(a) THEN a[i] ELSE b[i - Len(a)]
    BY <1>2, <1>3, ConcatProperties
  <2>2. Len(a) + Len(b) = k - 1
    BY <1>2, <1>3
  <2> QED BY <2>1, <2>2, <1>2
<1>5. \A i \in 1 .. k - 1 : (IF i < m THEN c[i] ELSE c[i + 1]) \in S
  OBVIOUS
<1>6. d \in [1 .. k - 1 -> S] /\ k - 1 \in Nat
  BY <1>5
<1>7. d \in Seq(S) /\ Len(d) = k - 1
  BY <1>6, FunctionIsSeq
<1>8. ASSUME NEW i \in 1 .. k - 1 PROVE d[i] = (a \o b)[i]
  <2>1. CASE i < m
    BY <2>1, <1>2, <1>4
  <2>2. CASE i >= m
    <3>1. i - (m - 1) \in 1 .. k - m /\ m + (i - (m - 1)) = i + 1
      BY <2>2
    <3> QED BY <2>2, <3>1, <1>3, <1>4
  <2>3. i < m \/ i >= m
    OBVIOUS
  <2> QED BY <2>1, <2>2, <2>3, Zenon
<1>9. d = a \o b
  BY <1>4, <1>7, <1>8, SeqEqual
<1> QED BY <1>1, <1>9 DEF Queue!RemoveAt, a, b

---------------------------------------------------------------------------

\* A queue and its contents; and the operations, each with the queue that it
\* leaves.
IsQueue(heap, first, last, c0) ==
    /\ IsHeap(heap) /\ HasList(heap, first, last)
    /\ c0 = ContentsOf(heap, first)

LEMMA PushFrontList ==
    ASSUME NEW heap, NEW first, NEW last, NEW c0,
           IsQueue(heap, first, last, c0),
           NEW n \in (1 .. MaxNodes) \ DOMAIN heap, NEW v,
           NEW mid, Allocated(mid, heap, n, v, first, Null),
           NEW new, Written(new, mid, Null, Null, first, n)
    PROVE  IsQueue(new, n, IF first = Null THEN n ELSE last, <<v>> \o c0)
<1>. /\ IsHeap(heap) /\ HasList(heap, first, last)
     /\ c0 = ContentsOf(heap, first)
  BY DEF IsQueue
<1>. PICK k \in Nat : \E at \in [1 .. k -> DOMAIN heap] :
                         IsList(heap, first, last, k, at)
  BY DEF HasList
<1>. PICK at \in [1 .. k -> DOMAIN heap] : IsList(heap, first, last, k, at)
  OBVIOUS
<1>. PICK at1 : at1 = [i \in 1 .. k + 1 |-> IF i = 1 THEN n ELSE at[i - 1]]
  OBVIOUS
<1>1. /\ DOMAIN mid = DOMAIN heap \cup {n}
      /\ mid[n].data = v /\ mid[n].next = first /\ mid[n].prev = Null
      /\ \A m \in DOMAIN heap : mid[m] = heap[m]
  BY DEF Allocated
<1>2. IsHeap(new) /\ DOMAIN new = DOMAIN heap \cup {n}
  BY <1>1 DEF Written
<1>3. \A m \in DOMAIN mid :
         /\ m # Null /\ new[m].data = mid[m].data
         /\ new[m].next = mid[m].next
         /\ new[m].prev = IF m = first THEN n ELSE mid[m].prev
  BY <1>1, <1>2 DEF Written, IsHeap, Null
<1>4. /\ 0 \notin DOMAIN heap /\ n # 0
      /\ \A i \in 1 .. k : at[i] \in DOMAIN heap /\ at[i] # n
  BY DEF IsHeap
<1>5. first \notin DOMAIN heap => first = Null /\ k = 0
  BY <1>4 DEF IsList
<1>6. at1 \in [1 .. k + 1 -> DOMAIN new]
  BY <1>2
<1>7. /\ new[n].data = v /\ new[n].next = first /\ new[n].prev = Null
      /\ \A i \in 1 .. k :
            /\ new[at[i]].data = heap[at[i]].data
            /\ new[at[i]].next = heap[at[i]].next
            /\ new[at[i]].prev = IF i = 1 THEN n ELSE heap[at[i]].prev
  <2>1. first # n
    BY <1>4, <1>5 DEF Null
  <2>2. ASSUME NEW i \in 1 .. k PROVE at[i] = first <=> i = 1
    BY DEF IsList
  <2> QED BY <1>1, <1>3, <1>4, <2>1, <2>2
<1>8. IsList(new, n, IF first = Null THEN n ELSE last, k + 1, at1)
  <2>1. ASSUME NEW i \in 1 .. k + 1, NEW j \in 1 .. k + 1, at1[i] = at1[j]
        PROVE  i = j
    <3>1. CASE i # 1 /\ j # 1
      <4>1. /\ i - 1 \in 1 .. k /\ j - 1 \in 1 .. k
            /\ at[i - 1] = at[j - 1]
        BY <2>1, <3>1
      <4>2. i - 1 = j - 1
        BY <4>1 DEF IsList
      <4> QED BY <4>2
    <3>2. CASE i = 1 \/ j = 1
      BY <2>1, <3>2, <1>4
    <3> QED BY <3>1, <3>2
  <2>2. (IF first = Null THEN n ELSE last) = at1[k + 1]
    BY <1>4 DEF IsList, Null
  <2>3. ASSUME NEW i \in 1 .. k + 1
        PROVE  /\ new[at1[i]].next = IF i = k + 1 THEN Null ELSE at1[i + 1]
               /\ new[at1[i]].prev = IF i = 1 THEN Null ELSE at1[i - 1]
    <3>1. CASE i = 1
      BY <3>1, <1>7 DEF IsList
    <3>2. CASE i # 1
      <4>1. i - 1 \in 1 .. k /\ at1[i] = at[i - 1]
        BY <3>2
      <4>2. /\ new[at1[i]].next = heap[at[i - 1]].next
            /\ new[at1[i]].prev = IF i - 1 = 1 THEN n ELSE heap[at[i - 1]].prev
        BY <4>1, <1>7
      <4>3. /\ heap[at[i - 1]].next = IF i - 1 = k THEN Null ELSE at[(i - 1) + 1]
            /\ heap[at[i - 1]].prev =
                  IF i - 1 = 1 THEN Null ELSE at[(i - 1) - 1]
        BY <4>1 DEF IsList
      <4>4. i # k + 1 => at1[i + 1] = at[(i - 1) + 1]
        BY <3>2
      <4>5. /\ i - 1 # 1 => at1[i - 1] = at[(i - 1) - 1]
            /\ i - 1 = 1 => at1[i - 1] = n
        BY <3>2
      <4> QED BY <3>2, <4>2, <4>3, <4>4, <4>5
    <3> QED BY <3>1, <3>2
  <2> QED BY <2>1, <2>2, <2>3 DEF IsList
<1>9. ASSUME NEW i \in 1 .. k + 1
      PROVE  new[at1[i]].data = IF i = 1 THEN v ELSE heap[at[i - 1]].data
  <2>1. CASE i = 1
    BY <2>1, <1>7
  <2>2. CASE i # 1
    <3>1. i - 1 \in 1 .. k /\ at1[i] = at[i - 1]
      BY <2>2
    <3> QED BY <2>2, <3>1, <1>7
  <2> QED BY <2>1, <2>2
<1>10. ContentsOf(new, n) = <<v>> \o ContentsOf(heap, first)
  <2>1. PICK c : c = ContentsOf(heap, first)
    OBVIOUS
  <2>2. PICK d : d = ContentsOf(new, n)
    OBVIOUS
  <2>3. ContentsAre(c, heap, k, at)
    BY <2>1, ContentsOfList
  <2>4. k + 1 \in Nat /\ ContentsAre(d, new, k + 1, at1)
    BY <2>2, <1>2, <1>6, <1>8, ContentsOfList
  <2>5. c \in [1 .. k -> Data(heap) \cup {v}] /\ d \in [1 .. k + 1 -> Data(new)]
    BY <2>3, <2>4 DEF ContentsAre
  <2>6. ASSUME NEW i \in 1 .. k + 1 PROVE d[i] = IF i = 1 THEN v ELSE c[i - 1]
    <3>1. d[i] = new[at1[i]].data
      BY <2>4 DEF ContentsAre
    <3>2. i # 1 => i - 1 \in 1 .. k /\ c[i - 1] = heap[at[i - 1]].data
      BY <2>3 DEF ContentsAre
    <3> QED BY <3>1, <3>2, <1>9
  <2>7. d = <<v>> \o c
    BY <2>5, <2>6, SeqOfPushFront
  <2> QED BY <2>1, <2>2, <2>7
<1>11. HasList(new, n, IF first = Null THEN n ELSE last)
  BY <1>6, <1>8 DEF HasList
<1> QED BY <1>2, <1>10, <1>11 DEF IsQueue

LEMMA PushBackList ==
    ASSUME NEW heap, NEW first, NEW last, NEW c0,
           IsQueue(heap, first, last, c0),
           NEW n \in (1 .. MaxNodes) \ DOMAIN heap, NEW v,
           NEW mid, Allocated(mid, heap, n, v, Null, last),
           NEW new, Written(new, mid, last, n, Null, Null)
    PROVE  IsQueue(new, IF last = Null THEN n ELSE first, n, Append(c0, v))
<1>. /\ IsHeap(heap) /\ HasList(heap, first, last)
     /\ c0 = ContentsOf(heap, first)
  BY DEF IsQueue
<1>. PICK k \in Nat : \E at \in [1 .. k -> DOMAIN heap] :
                         IsList(heap, first, last, k, at)
  BY DEF HasList
<1>. PICK at \in [1 .. k -> DOMAIN heap] : IsList(heap, first, last, k, at)
  OBVIOUS
<1>. PICK at1 : at1 = [i \in 1 .. k + 1 |-> IF i = k + 1 THEN n ELSE at[i]]
  OBVIOUS
<1>1. /\ DOMAIN mid = DOMAIN heap \cup {n}
      /\ mid[n].data = v /\ mid[n].next = Null /\ mid[n].prev = last
      /\ \A m \in DOMAIN heap : mid[m] = heap[m]
  BY DEF Allocated
<1>2. IsHeap(new) /\ DOMAIN new = DOMAIN heap \cup {n}
  BY <1>1 DEF Written
<1>3. \A m \in DOMAIN mid :
         /\ m # Null /\ new[m].data = mid[m].data
         /\ new[m].next = IF m = last THEN n ELSE mid[m].next
         /\ new[m].prev = mid[m].prev
  BY <1>1, <1>2 DEF Written, IsHeap, Null
<1>4. /\ 0 \notin DOMAIN heap /\ n # 0
      /\ \A i \in 1 .. k : at[i] \in DOMAIN heap /\ at[i] # n
  BY DEF IsHeap
<1>5. last \notin DOMAIN heap => last = Null /\ k = 0
  BY <1>4 DEF IsList
<1>6. at1 \in [1 .. k + 1 -> DOMAIN new]
  BY <1>2
<1>7. /\ new[n].data = v /\ new[n].next = Null /\ new[n].prev = last
      /\ \A i \in 1 .. k :
            /\ new[at[i]].data = heap[at[i]].data
            /\ new[at[i]].prev = heap[at[i]].prev
            /\ new[at[i]].next = IF i = k THEN n ELSE heap[at[i]].next
  <2>1. last # n
    BY <1>4, <1>5 DEF Null
  <2>2. ASSUME NEW i \in 1 .. k PROVE at[i] = last <=> i = k
    BY DEF IsList
  <2> QED BY <1>1, <1>3, <1>4, <2>1, <2>2
<1>8. IsList(new, IF last = Null THEN n ELSE first, n, k + 1, at1)
  <2>1. \A i, j \in 1 .. k + 1 : at1[i] = at1[j] => i = j
    BY <1>4 DEF IsList
  <2>2. (IF last = Null THEN n ELSE first) = at1[1]
    BY <1>4 DEF IsList, Null
  <2>3. ASSUME NEW i \in 1 .. k + 1
        PROVE  /\ new[at1[i]].next = IF i = k + 1 THEN Null ELSE at1[i + 1]
               /\ new[at1[i]].prev = IF i = 1 THEN Null ELSE at1[i - 1]
    <3>1. CASE i = k + 1
      BY <3>1, <1>7 DEF IsList
    <3>2. CASE i # k + 1
      <4>1. i \in 1 .. k /\ at1[i] = at[i]
        BY <3>2
      <4>2. /\ new[at1[i]].prev = heap[at[i]].prev
            /\ new[at1[i]].next = IF i = k THEN n ELSE heap[at[i]].next
        BY <4>1, <1>7
      <4> QED BY <3>2, <4>1, <4>2 DEF IsList
    <3> QED BY <3>1, <3>2
  <2> QED BY <2>1, <2>2, <2>3 DEF IsList
<1>9. ASSUME NEW i \in 1 .. k + 1
      PROVE  new[at1[i]].data = IF i = k + 1 THEN v ELSE heap[at[i]].data
  <2>1. CASE i = k + 1
    BY <2>1, <1>7
  <2>2. CASE i # k + 1
    <3>1. i \in 1 .. k /\ at1[i] = at[i]
      BY <2>2
    <3> QED BY <2>2, <3>1, <1>7
  <2> QED BY <2>1, <2>2
<1>10. ContentsOf(new, IF last = Null THEN n ELSE first) = Append(ContentsOf(heap, first), v)
  <2>1. PICK c : c = ContentsOf(heap, first)
    OBVIOUS
  <2>2. PICK d : d = ContentsOf(new, IF last = Null THEN n ELSE first)
    OBVIOUS
  <2>3. ContentsAre(c, heap, k, at)
    BY <2>1, ContentsOfList
  <2>4. k + 1 \in Nat /\ ContentsAre(d, new, k + 1, at1)
    BY <2>2, <1>2, <1>6, <1>8, ContentsOfList
  <2>5. c \in [1 .. k -> Data(heap) \cup {v}] /\ d \in [1 .. k + 1 -> Data(new)]
    BY <2>3, <2>4 DEF ContentsAre
  <2>6. ASSUME NEW i \in 1 .. k + 1 PROVE d[i] = IF i = k + 1 THEN v ELSE c[i]
    <3>1. d[i] = new[at1[i]].data
      BY <2>4 DEF ContentsAre
    <3>2. i # k + 1 => i \in 1 .. k /\ c[i] = heap[at[i]].data
      BY <2>3 DEF ContentsAre
    <3> QED BY <3>1, <3>2, <1>9
  <2> QED BY <2>1, <2>2, <2>5, <2>6, SeqOfPushBack
<1>11. HasList(new, IF last = Null THEN n ELSE first, n)
  BY <1>6, <1>8 DEF HasList
<1> QED BY <1>2, <1>10, <1>11 DEF IsQueue

LEMMA PopFrontList ==
    ASSUME NEW heap, NEW first, NEW last, NEW c0,
           IsQueue(heap, first, last, c0), first # Null,
           NEW mid, Written(mid, heap, Null, Null, heap[first].next, Null),
           NEW new, new = Free(mid, {first})
    PROVE  /\ IsQueue(new, heap[first].next,
                      IF heap[first].next = Null THEN Null ELSE last, Tail(c0))
           /\ first \in DOMAIN heap
           /\ c0 # <<>> /\ heap[first].data = Head(c0)
<1>. /\ IsHeap(heap) /\ HasList(heap, first, last)
     /\ c0 = ContentsOf(heap, first)
  BY DEF IsQueue
<1>. PICK k \in Nat : \E at \in [1 .. k -> DOMAIN heap] :
                         IsList(heap, first, last, k, at)
  BY DEF HasList
<1>. PICK at \in [1 .. k -> DOMAIN heap] : IsList(heap, first, last, k, at)
  OBVIOUS
<1>. PICK at1 : at1 = [i \in 1 .. k - 1 |-> at[i + 1]]
  OBVIOUS
<1>1. /\ k # 0 /\ 1 \in 1 .. k /\ k \in 1 .. k /\ first = at[1]
      /\ first \in DOMAIN heap /\ last = at[k]
  BY DEF IsList
<1>2. /\ IsHeap(new) /\ DOMAIN new = DOMAIN heap \ {first}
      /\ \A m \in DOMAIN heap \ {first} : new[m] = mid[m]
  BY DEF Written, IsHeap, Free
<1>3. \A i \in 1 .. k : at[i] # Null
  BY DEF IsHeap, Null
<1>4. heap[first].next = IF k = 1 THEN Null ELSE at[2]
  BY <1>1 DEF IsList
<1>5. ASSUME NEW i \in 1 .. k, i # 1
      PROVE  /\ at[i] \in DOMAIN heap \ {first}
             /\ new[at[i]].data = heap[at[i]].data
             /\ new[at[i]].next = IF i = k THEN Null ELSE at[i + 1]
             /\ new[at[i]].prev = IF i = 2 THEN Null ELSE at[i - 1]
  <2>1. at[i] \in DOMAIN heap \ {first}
    BY <1>1, <1>5 DEF IsList
  <2>2. at[i] = heap[first].next <=> i = 2
    <3>1. k # 1 /\ 2 \in 1 .. k
      BY <1>5
    <3> QED BY <3>1, <1>4 DEF IsList
  <2>3. /\ new[at[i]].data = heap[at[i]].data
        /\ new[at[i]].next = heap[at[i]].next
        /\ new[at[i]].prev = IF i = 2 THEN Null ELSE heap[at[i]].prev
    BY <2>1, <2>2, <1>2, <1>3 DEF Written
  <2> QED BY <2>1, <2>3, <1>5 DEF IsList
<1>6. ASSUME NEW i \in 1 .. k - 1
      PROVE  /\ i + 1 \in 1 .. k /\ i + 1 # 1 /\ at1[i] = at[i + 1]
             /\ i + 1 # k => at1[i + 1] = at[(i + 1) + 1]
             /\ i # 1 => at1[i - 1] = at[(i + 1) - 1]
  OBVIOUS
<1>7. at1 \in [1 .. k - 1 -> DOMAIN new]
  <2>1. ASSUME NEW i \in 1 .. k - 1 PROVE at[i + 1] \in DOMAIN new
    BY <1>6, <1>5, <1>2
  <2> QED BY <2>1
<1>8. IsList(new, heap[first].next,
             IF heap[first].next = Null THEN Null ELSE last, k - 1, at1)
  <2>1. ASSUME NEW i \in 1 .. k - 1, NEW j \in 1 .. k - 1, at1[i] = at1[j]
        PROVE  i = j
    <3>1. i + 1 = j + 1
      BY <2>1, <1>6 DEF IsList
    <3> QED BY <3>1
  <2>2. heap[first].next = IF k - 1 = 0 THEN Null ELSE at1[1]
    <3>1. k # 1 => at1[1] = at[1 + 1] /\ k - 1 # 0
      BY <1>1
    <3> QED BY <1>4, <3>1
  <2>3. (IF heap[first].next = Null THEN Null ELSE last)
            = IF k - 1 = 0 THEN Null ELSE at1[k - 1]
    <3>1. CASE k = 1
      BY <3>1, <1>4
    <3>2. CASE k # 1
      <4>1. /\ k - 1 \in 1 .. k - 1 /\ (k - 1) + 1 = k /\ 2 \in 1 .. k
            /\ k - 1 # 0
        BY <3>2, <1>1
      <4>2. at1[k - 1] = last /\ heap[first].next # Null
        BY <3>2, <4>1, <1>1, <1>3, <1>4, <1>6
      <4> QED BY <4>1, <4>2
    <3> QED BY <3>1, <3>2
  <2>4. ASSUME NEW i \in 1 .. k - 1
        PROVE  /\ new[at1[i]].next = IF i = k - 1 THEN Null ELSE at1[i + 1]
               /\ new[at1[i]].prev = IF i = 1 THEN Null ELSE at1[i - 1]
    <3>1. /\ new[at1[i]].next = IF i + 1 = k THEN Null ELSE at[(i + 1) + 1]
          /\ new[at1[i]].prev = IF i + 1 = 2 THEN Null ELSE at[(i + 1) - 1]
      BY <1>5, <1>6
    <3>2. (i + 1 = k <=> i = k - 1) /\ (i + 1 = 2 <=> i = 1)
      OBVIOUS
    <3> QED BY <3>1, <3>2, <1>6
  <2> QED BY <2>1, <2>2, <2>3, <2>4 DEF IsList
<1>9. \A i \in 1 .. k - 1 : new[at1[i]].data = heap[at[i + 1]].data
  BY <1>5, <1>6
<1>10. /\ ContentsOf(heap, first) # <<>>
       /\ heap[first].data = Head(ContentsOf(heap, first))
       /\ ContentsOf(new, heap[first].next) = Tail(ContentsOf(heap, first))
  <2>1. PICK c : c = ContentsOf(heap, first)
    OBVIOUS
  <2>2. PICK d : d = ContentsOf(new, heap[first].next)
    OBVIOUS
  <2>3. ContentsAre(c, heap, k, at)
    BY <2>1, ContentsOfList
  <2>4. k - 1 \in Nat /\ ContentsAre(d, new, k - 1, at1)
    <3>1. k - 1 \in Nat
      BY <1>1
    <3> QED BY <3>1, <2>2, <1>2, <1>7, <1>8, ContentsOfList
  <2>5. c \in [1 .. k -> Data(heap)] /\ d \in [1 .. k - 1 -> Data(new)]
    BY <2>3, <2>4 DEF ContentsAre
  <2>6. \A i \in 1 .. k - 1 : d[i] = c[i + 1]
    BY <2>3, <2>4, <1>6, <1>9 DEF ContentsAre
  <2>7. c[1] = heap[first].data
    BY <2>3, <1>1 DEF ContentsAre
  <2>8. c # <<>> /\ Head(c) = c[1] /\ d = Tail(c)
    BY <2>5, <2>6, <1>1, SeqOfPopFront
  <2> QED BY <2>1, <2>2, <2>7, <2>8
<1>11. HasList(new, heap[first].next,
               IF heap[first].next = Null THEN Null ELSE last)
  <2>1. k - 1 \in Nat
    BY <1>1
  <2> QED BY <2>1, <1>7, <1>8 DEF HasList
<1> QED BY <1>1, <1>2, <1>10, <1>11 DEF IsQueue

LEMMA PopBackList ==
    ASSUME NEW heap, NEW first, NEW last, NEW c0,
           IsQueue(heap, first, last, c0), last # Null,
           NEW mid, Written(mid, heap, heap[last].prev, Null, Null, Null),
           NEW new, new = Free(mid, {last})
    PROVE  /\ IsQueue(new, IF heap[last].prev = Null THEN Null ELSE first,
                      heap[last].prev, SubSeq(c0, 1, Len(c0) - 1))
           /\ last \in DOMAIN heap
           /\ c0 # <<>> /\ heap[last].data = c0[Len(c0)]
<1>. /\ IsHeap(heap) /\ HasList(heap, first, last)
     /\ c0 = ContentsOf(heap, first)
  BY DEF IsQueue
<1>. PICK k \in Nat : \E at \in [1 .. k -> DOMAIN heap] :
                         IsList(heap, first, last, k, at)
  BY DEF HasList
<1>. PICK at \in [1 .. k -> DOMAIN heap] : IsList(heap, first, last, k, at)
  OBVIOUS
<1>. PICK at1 : at1 = [i \in 1 .. k - 1 |-> at[i]]
  OBVIOUS
<1>1. /\ k # 0 /\ 1 \in 1 .. k /\ k \in 1 .. k /\ first = at[1]
      /\ last \in DOMAIN heap /\ last = at[k]
  BY DEF IsList
<1>2. /\ IsHeap(new) /\ DOMAIN new = DOMAIN heap \ {last}
      /\ \A m \in DOMAIN heap \ {last} : new[m] = mid[m]
  BY DEF Written, IsHeap, Free
<1>3. \A i \in 1 .. k : at[i] # Null
  BY DEF IsHeap, Null
<1>4. heap[last].prev = IF k = 1 THEN Null ELSE at[k - 1]
  BY <1>1 DEF IsList
<1>5. ASSUME NEW i \in 1 .. k - 1
      PROVE  /\ i \in 1 .. k /\ at[i] \in DOMAIN heap \ {last}
             /\ new[at[i]].data = heap[at[i]].data
             /\ new[at[i]].next = IF i = k - 1 THEN Null ELSE at[i + 1]
             /\ new[at[i]].prev = IF i = 1 THEN Null ELSE at[i - 1]
  <2>1. i \in 1 .. k /\ i # k /\ at[i] \in DOMAIN heap \ {last}
    BY <1>1 DEF IsList
  <2>2. at[i] = heap[last].prev <=> i = k - 1
    <3>1. k # 1 /\ k - 1 \in 1 .. k
      OBVIOUS
    <3> QED BY <3>1, <2>1, <1>4 DEF IsList
  <2>3. /\ new[at[i]].data = heap[at[i]].data
        /\ new[at[i]].prev = heap[at[i]].prev
        /\ new[at[i]].next = IF i = k - 1 THEN Null ELSE heap[at[i]].next
    BY <2>1, <2>2, <1>2, <1>3 DEF Written
  <2> QED BY <2>1, <2>3 DEF IsList
<1>6. at1 \in [1 .. k - 1 -> DOMAIN new]
  BY <1>2, <1>5
<1>7. IsList(new, IF heap[last].prev = Null THEN Null ELSE first,
             heap[last].prev, k - 1, at1)
  <2>1. \A i, j \in 1 .. k - 1 : at1[i] = at1[j] => i = j
    BY <1>5 DEF IsList
  <2>2. heap[last].prev = IF k - 1 = 0 THEN Null ELSE at1[k - 1]
    BY <1>1, <1>4
  <2>3. (IF heap[last].prev = Null THEN Null ELSE first)
            = IF k - 1 = 0 THEN Null ELSE at1[1]
    BY <1>1, <1>3, <1>4
  <2>4. ASSUME NEW i \in 1 .. k - 1
        PROVE  /\ new[at1[i]].next = IF i = k - 1 THEN Null ELSE at1[i + 1]
               /\ new[at1[i]].prev = IF i = 1 THEN Null ELSE at1[i - 1]
    <3>1. /\ at1[i] = at[i] /\ (i # 1 => at1[i - 1] = at[i - 1])
          /\ i # k - 1 => at1[i + 1] = at[i + 1]
      OBVIOUS
    <3> QED BY <3>1, <1>5
  <2> QED BY <2>1, <2>2, <2>3, <2>4 DEF IsList
<1>8. \A i \in 1 .. k - 1 : new[at1[i]].data = heap[at[i]].data
  BY <1>5
<1> DEFINE first1 == IF heap[last].prev = Null THEN Null ELSE first
<1>9. /\ ContentsOf(heap, first) # <<>>
      /\ heap[last].data = ContentsOf(heap, first)[Len(ContentsOf(heap, first))]
      /\ ContentsOf(new, first1) =
            SubSeq(ContentsOf(heap, first), 1, Len(ContentsOf(heap, first)) - 1)
  <2>1. PICK c : c = ContentsOf(heap, first)
    OBVIOUS
  <2>2. PICK d : d = ContentsOf(new, first1)
    OBVIOUS
  <2>3. ContentsAre(c, heap, k, at)
    BY <2>1, ContentsOfList
  <2>4. k - 1 \in Nat /\ ContentsAre(d, new, k - 1, at1)
    <3>1. k - 1 \in Nat
      BY <1>1
    <3> QED BY <3>1, <2>2, <1>2, <1>6, <1>7, ContentsOfList
  <2>5. c \in [1 .. k -> Data(heap)] /\ d \in [1 .. k - 1 -> Data(new)]
    BY <2>3, <2>4 DEF ContentsAre
  <2>6. ASSUME NEW i \in 1 .. k - 1 PROVE d[i] = c[i]
    <3>1. d[i] = new[at1[i]].data
      BY <2>4 DEF ContentsAre
    <3>2. c[i] = heap[at[i]].data
      BY <2>3 DEF ContentsAre
    <3> QED BY <3>1, <3>2, <1>8
  <2>7. c[k] = heap[last].data
    BY <2>3, <1>1 DEF ContentsAre
  <2>8. c # <<>> /\ Len(c) = k /\ d = SubSeq(c, 1, Len(c) - 1)
    BY <2>5, <2>6, <1>1, SeqOfPopBack
  <2> HIDE DEF first1
  <2> QED BY <2>1, <2>2, <2>7, <2>8
<1>10. HasList(new, first1, heap[last].prev)
  <2>1. k - 1 \in Nat
    BY <1>1
  <2> QED BY <2>1, <1>6, <1>7 DEF HasList
<1> QED BY <1>1, <1>2, <1>9, <1>10 DEF IsQueue

LEMMA RemoveList ==
    ASSUME NEW heap, IsHeap(heap), NEW first, NEW last, NEW k \in Nat,
           NEW at \in [1 .. k -> DOMAIN heap],
           IsList(heap, first, last, k, at), NEW m \in 1 .. k,
           NEW new, Written(new, heap, heap[at[m]].prev, heap[at[m]].next,
                            heap[at[m]].next, heap[at[m]].prev)
    PROVE  IsQueue(new, IF at[m] = first THEN heap[at[m]].next ELSE first,
                   IF at[m] = last THEN heap[at[m]].prev ELSE last,
                   Queue!RemoveAt(ContentsOf(heap, first), m))
<1>0. PICK at1 : at1 = [i \in 1 .. k - 1 |->
                                      IF i < m THEN at[i] ELSE at[i + 1]]
  OBVIOUS
<1> USE <1>0
<1>1. /\ k # 0 /\ 1 \in 1 .. k /\ k \in 1 .. k /\ first = at[1]
      /\ last = at[k]
  BY DEF IsList
<1>2. IsHeap(new) /\ DOMAIN new = DOMAIN heap
  BY DEF Written
<1>3. \A i \in 1 .. k : at[i] # Null /\ at[i] \in DOMAIN heap
  BY DEF IsHeap, Null
<1>4. /\ heap[at[m]].next = IF m = k THEN Null ELSE at[m + 1]
      /\ heap[at[m]].prev = IF m = 1 THEN Null ELSE at[m - 1]
  BY DEF IsList
<1>5. ASSUME NEW i \in 1 .. k
      PROVE  /\ at[i] = heap[at[m]].next <=> i = m + 1
             /\ at[i] = heap[at[m]].prev <=> i = m - 1
  <2>1. at[i] = heap[at[m]].next <=> i = m + 1
    <3>1. CASE m = k
      BY <3>1, <1>3, <1>4
    <3>2. CASE m # k
      <4>1. m + 1 \in 1 .. k /\ heap[at[m]].next = at[m + 1]
        BY <3>2, <1>4
      <4> QED BY <4>1 DEF IsList
    <3> QED BY <3>1, <3>2
  <2>2. at[i] = heap[at[m]].prev <=> i = m - 1
    <3>1. CASE m = 1
      BY <3>1, <1>3, <1>4
    <3>2. CASE m # 1
      <4>1. m - 1 \in 1 .. k /\ heap[at[m]].prev = at[m - 1]
        BY <3>2, <1>4
      <4> QED BY <4>1 DEF IsList
    <3> QED BY <3>1, <3>2
  <2> QED BY <2>1, <2>2
<1>6. ASSUME NEW i \in 1 .. k, i # m
      PROVE  /\ new[at[i]].data = heap[at[i]].data
             /\ new[at[i]].next =
                   IF i = m - 1 THEN IF m = k THEN Null ELSE at[m + 1]
                   ELSE IF i = k THEN Null ELSE at[i + 1]
             /\ new[at[i]].prev =
                   IF i = m + 1 THEN IF m = 1 THEN Null ELSE at[m - 1]
                   ELSE IF i = 1 THEN Null ELSE at[i - 1]
  <2>1. /\ new[at[i]].data = heap[at[i]].data
        /\ new[at[i]].next = IF at[i] = heap[at[m]].prev THEN heap[at[m]].next
                             ELSE heap[at[i]].next
        /\ new[at[i]].prev = IF at[i] = heap[at[m]].next THEN heap[at[m]].prev
                             ELSE heap[at[i]].prev
    BY <1>3 DEF Written
  <2>2. /\ heap[at[i]].next = IF i = k THEN Null ELSE at[i + 1]
        /\ heap[at[i]].prev = IF i = 1 THEN Null ELSE at[i - 1]
    BY DEF IsList
  <2> QED BY <2>1, <2>2, <1>4, <1>5
<1>7. ASSUME NEW i \in 1 .. k - 1
      PROVE  \E j \in 1 .. k : /\ j = IF i < m THEN i ELSE i + 1
                               /\ j # m /\ at1[i] = at[j]
  OBVIOUS
<1>8. at1 \in [1 .. k - 1 -> DOMAIN new]
  <2>1. ASSUME NEW i \in 1 .. k - 1
        PROVE  (IF i < m THEN at[i] ELSE at[i + 1]) \in DOMAIN new
    BY <1>2, <1>3
  <2> QED BY <2>1
<1>9. IsList(new, IF at[m] = first THEN heap[at[m]].next ELSE first,
             IF at[m] = last THEN heap[at[m]].prev ELSE last, k - 1, at1)
  <2>1. ASSUME NEW i \in 1 .. k - 1, NEW j \in 1 .. k - 1, at1[i] = at1[j]
        PROVE  i = j
    <3>1. PICK a \in 1 .. k : /\ a = IF i < m THEN i ELSE i + 1
                              /\ a # m /\ at1[i] = at[a]
      BY <1>7
    <3>2. PICK b \in 1 .. k : /\ b = IF j < m THEN j ELSE j + 1
                              /\ b # m /\ at1[j] = at[b]
      BY <1>7
    <3>3. a = b
      BY <2>1, <3>1, <3>2 DEF IsList
    <3> QED BY <3>1, <3>2, <3>3
  <2>2. (IF at[m] = first THEN heap[at[m]].next ELSE first)
            = IF k - 1 = 0 THEN Null ELSE at1[1]
    <3>1. at[m] = first <=> m = 1
      BY <1>1 DEF IsList
    <3>2. k # 1 => at1[1] = (IF 1 < m THEN at[1] ELSE at[1 + 1])
      BY <1>1
    <3> QED BY <3>1, <3>2, <1>1, <1>4
  <2>3. (IF at[m] = last THEN heap[at[m]].prev ELSE last)
            = IF k - 1 = 0 THEN Null ELSE at1[k - 1]
    <3>1. at[m] = last <=> m = k
      BY <1>1 DEF IsList
    <3>2. k # 1 => at1[k - 1] = (IF k - 1 < m THEN at[k - 1] ELSE at[(k - 1) + 1])
      BY <1>1
    <3> QED BY <3>1, <3>2, <1>1, <1>4
  <2>4. ASSUME NEW i \in 1 .. k - 1
        PROVE  new[at1[i]].next = IF i = k - 1 THEN Null ELSE at1[i + 1]
    <3>1. i # k - 1 => at1[i + 1] = (IF i + 1 < m THEN at[i + 1]
                                    ELSE at[(i + 1) + 1])
      OBVIOUS
    <3>2. CASE i < m - 1
      <4>1. at1[i] = at[i] /\ i \in 1 .. k /\ i # m /\ i # m - 1 /\ i # k
            /\ i # k - 1 /\ i + 1 < m
        BY <3>2
      <4> QED BY <4>1, <3>1, <1>6
    <3>3. CASE i = m - 1
      <4>1. at1[i] = at[i] /\ i \in 1 .. k /\ i # m /\ ~(i + 1 < m)
            /\ (i = k - 1 <=> m = k) /\ (i + 1) + 1 = m + 1
        BY <3>3
      <4> QED BY <4>1, <3>1, <3>3, <1>6
    <3>4. CASE i >= m
      <4>1. at1[i] = at[i + 1] /\ i + 1 \in 1 .. k /\ i + 1 # m
            /\ i + 1 # m - 1 /\ (i = k - 1 <=> i + 1 = k) /\ ~(i + 1 < m)
        BY <3>4
      <4> QED BY <4>1, <3>1, <1>6
    <3> QED BY <3>2, <3>3, <3>4
  <2>5. ASSUME NEW i \in 1 .. k - 1
        PROVE  new[at1[i]].prev = IF i = 1 THEN Null ELSE at1[i - 1]
    <3>1. i # 1 => at1[i - 1] = (IF i - 1 < m THEN at[i - 1]
                                 ELSE at[(i - 1) + 1])
      OBVIOUS
    <3>2. CASE i < m
      <4>1. at1[i] = at[i] /\ i \in 1 .. k /\ i # m /\ i # m + 1 /\ i - 1 < m
        BY <3>2
      <4> QED BY <4>1, <3>1, <1>6
    <3>3. CASE i = m
      <4>1. at1[i] = at[i + 1] /\ i + 1 \in 1 .. k /\ i + 1 # m
            /\ i + 1 = m + 1 /\ i - 1 < m /\ i - 1 = m - 1
        BY <3>3
      <4> QED BY <4>1, <3>1, <3>3, <1>6
    <3>4. CASE i > m
      <4>1. at1[i] = at[i + 1] /\ i + 1 \in 1 .. k /\ i + 1 # m
            /\ i + 1 # m + 1 /\ i # 1 /\ ~(i - 1 < m)
            /\ i + 1 # 1 /\ (i - 1) + 1 = (i + 1) - 1
        BY <3>4
      <4> QED BY <4>1, <3>1, <1>6
    <3> QED BY <3>2, <3>3, <3>4
  <2> QED BY <2>1, <2>2, <2>3, <2>4, <2>5 DEF IsList
<1>10. ASSUME NEW i \in 1 .. k - 1
       PROVE  new[at1[i]].data = IF i < m THEN heap[at[i]].data
                                 ELSE heap[at[i + 1]].data
  BY <1>6, <1>7
<1> DEFINE first1 == IF at[m] = first THEN heap[at[m]].next ELSE first
<1>11. k - 1 \in Nat
  BY <1>1
<1>12. ContentsOf(new, first1) = Queue!RemoveAt(ContentsOf(heap, first), m)
  <2>1. PICK c : c = ContentsOf(heap, first)
    OBVIOUS
  <2>2. PICK d : d = ContentsOf(new, first1)
    OBVIOUS
  <2>3. ContentsAre(c, heap, k, at)
    BY <2>1, ContentsOfList
  <2>4. k - 1 \in Nat /\ ContentsAre(d, new, k - 1, at1)
    <3>1. k - 1 \in Nat
      BY <1>1
    <3> QED BY <3>1, <2>2, <1>2, <1>8, <1>9, ContentsOfList
  <2>5. c \in [1 .. k -> Data(heap)] /\ d \in [1 .. k - 1 -> Data(new)]
    BY <2>3, <2>4 DEF ContentsAre
  <2>6. ASSUME NEW i \in 1 .. k - 1 PROVE d[i] = IF i < m THEN c[i] ELSE c[i + 1]
    <3>1. d[i] = new[at1[i]].data
      BY <2>4 DEF ContentsAre
    <3>2. c[i] = heap[at[i]].data /\ c[i + 1] = heap[at[i + 1]].data
      BY <2>3 DEF ContentsAre
    <3> QED BY <3>1, <3>2, <1>10
  <2>7. d = Queue!RemoveAt(c, m)
    <3>1. \A i \in 1 .. k - 1 : d[i] = IF i < m THEN c[i] ELSE c[i + 1]
      BY <2>6
    <3>2. WithoutOne(d, c, k, m)
      BY <2>5, <3>1 DEF WithoutOne
    <3> QED BY <2>5, <3>2, SeqOfRemove
  <2> HIDE DEF first1
  <2> QED BY <2>1, <2>2, <2>7
<1>13. HasList(new, first1, IF at[m] = last THEN heap[at[m]].prev ELSE last)
  BY <1>8, <1>9, <1>11 DEF HasList
<1> QED BY <1>2, <1>12, <1>13 DEF IsQueue

---------------------------------------------------------------------------

LEMMA InitQueue == Init => QueueInv
<1> SUFFICES ASSUME Init PROVE QueueInv
  OBVIOUS
<1>1. DOMAIN node = {}
  BY DEF Init
<1>2. IsHeap(node)
  BY <1>1 DEF IsHeap
<1>3. length = Cardinality(DOMAIN node)
  BY <1>1, FS_EmptySet DEF Init
<1>4. HasList(node, front, back)
  <2> DEFINE none == [i \in 1 .. 0 |-> 0]
  <2>1. none \in [1 .. 0 -> DOMAIN node] /\ 0 \in Nat
    OBVIOUS
  <2>2. IsList(node, front, back, 0, none)
    BY DEF IsList, Init
  <2> QED BY <2>1, <2>2 DEF HasList
<1> QED BY <1>2, <1>3, <1>4 DEF QueueInv

\* The nodes in the heap are counted.
LEMMA HeapIsFinite ==
    ASSUME NEW heap, IsHeap(heap)
    PROVE  IsFiniteSet(DOMAIN heap) /\ Cardinality(DOMAIN heap) \in Nat
<1>1. IsFiniteSet(1 .. MaxNodes)
  BY FS_Interval, NodesAssumption
<1> QED BY <1>1, FS_Subset, FS_CardinalityType DEF IsHeap

LEMMA FreeNodeIsFree ==
    ASSUME IsHeap(node), MayPush
    PROVE  FreeNode \in (1 .. MaxNodes) \ DOMAIN node
<1>1. (1 .. MaxNodes) \ DOMAIN node \in SUBSET Nat
  OBVIOUS
<1>2. (1 .. MaxNodes) \ DOMAIN node # {}
  BY DEF IsHeap, MayPush
<1> QED BY <1>1, <1>2, LeastNumber DEF FreeNode

\* What the invariant says of a queue that has not been destroyed.
LEMMA QueueInvIs ==
    /\ ~gone => (QueueInv <=> /\ IsQueue(node, front, back, Contents)
                              /\ length = Cardinality(DOMAIN node))
    /\ ~gone' => (QueueInv' <=> /\ IsQueue(node', front', back', Contents')
                                /\ length' = Cardinality(DOMAIN node'))
BY ContentsIs DEF QueueInv, IsQueue

LEMMA PushFrontStep ==
    ASSUME QueueInv, ~gone, NEW v, PushFront(v)
    PROVE  QueueInv' /\ Queue!PushFront(v)
<1>1. /\ IsQueue(node, front, back, Contents) /\ IsHeap(node) /\ ~gone'
      /\ length = Cardinality(DOMAIN node)
  BY QueueInvIs DEF IsQueue, PushFront
<1>2. PICK n \in (1 .. MaxNodes) \ DOMAIN node : n = FreeNode
  BY <1>1, FreeNodeIsFree DEF PushFront
<1>3. PICK mid : mid = New(n, v, front, Null)
  OBVIOUS
<1>4. Allocated(mid, node, n, v, front, Null)
  BY <1>1, <1>3, NewAllocates
<1>5. IsHeap(mid) /\ DOMAIN mid = DOMAIN node \cup {n}
  BY <1>4 DEF Allocated
<1>6. Written(node', mid, Null, Null, front, n)
  <2>1. node' = Assign(mid, {<<front, "prev", n>>})
    BY <1>2, <1>3 DEF PushFront
  <2> QED BY <2>1, <1>5, AssignWrites
<1>7. IsQueue(node', n, IF front = Null THEN n ELSE back, <<v>> \o Contents)
  BY <1>1, <1>4, <1>6, PushFrontList
<1>8. front' = n /\ back' = (IF front = Null THEN n ELSE back)
  BY <1>2 DEF PushFront
<1>9. IsQueue(node', front', back', <<v>> \o Contents)
  BY <1>7, <1>8
<1>10. Contents' = <<v>> \o Contents
  BY <1>1, <1>9, ContentsIs DEF IsQueue
<1>11. length' = Cardinality(DOMAIN node')
  <2>1. DOMAIN node' = DOMAIN node \cup {n}
    BY <1>5, <1>6 DEF Written
  <2> QED BY <1>1, <2>1, HeapIsFinite, FS_AddElement DEF PushFront
<1>12. QueueInv'
  BY <1>1, <1>9, <1>10, <1>11, QueueInvIs
<1> QED BY <1>10, <1>12 DEF PushFront, Queue!PushFront

LEMMA PushBackStep ==
    ASSUME QueueInv, ~gone, NEW v, PushBack(v)
    PROVE  QueueInv' /\ Queue!PushBack(v)
<1>1. /\ IsQueue(node, front, back, Contents) /\ IsHeap(node) /\ ~gone'
      /\ length = Cardinality(DOMAIN node)
  BY QueueInvIs DEF IsQueue, PushBack
<1>2. PICK n \in (1 .. MaxNodes) \ DOMAIN node : n = FreeNode
  BY <1>1, FreeNodeIsFree DEF PushBack
<1>3. PICK mid : mid = New(n, v, Null, back)
  OBVIOUS
<1>4. Allocated(mid, node, n, v, Null, back)
  BY <1>1, <1>3, NewAllocates
<1>5. IsHeap(mid) /\ DOMAIN mid = DOMAIN node \cup {n}
  BY <1>4 DEF Allocated
<1>6. Written(node', mid, back, n, Null, Null)
  <2>1. node' = Assign(mid, {<<back, "next", n>>})
    BY <1>2, <1>3 DEF PushBack
  <2> QED BY <2>1, <1>5, AssignWrites
<1>7. IsQueue(node', IF back = Null THEN n ELSE front, n, Append(Contents, v))
  BY <1>1, <1>4, <1>6, PushBackList
<1>8. front' = (IF back = Null THEN n ELSE front) /\ back' = n
  BY <1>2 DEF PushBack
<1>9. IsQueue(node', front', back', Append(Contents, v))
  BY <1>7, <1>8
<1>10. Contents' = Append(Contents, v)
  BY <1>1, <1>9, ContentsIs DEF IsQueue
<1>11. length' = Cardinality(DOMAIN node')
  <2>1. DOMAIN node' = DOMAIN node \cup {n}
    BY <1>5, <1>6 DEF Written
  <2> QED BY <1>1, <2>1, HeapIsFinite, FS_AddElement DEF PushBack
<1>12. QueueInv'
  BY <1>1, <1>9, <1>10, <1>11, QueueInvIs
<1> QED BY <1>10, <1>12 DEF PushBack, Queue!PushBack

\* A queue without a first node is empty.
LEMMA EmptyContents ==
    ASSUME QueueInv, ~gone, front = Null
    PROVE  Contents = <<>>
<1>1. IsHeap(node) /\ HasList(node, front, back)
  BY DEF QueueInv
<1>2. PICK k \in Nat : \E at \in [1 .. k -> DOMAIN node] :
                           IsList(node, front, back, k, at)
  BY <1>1 DEF HasList
<1>3. PICK at \in [1 .. k -> DOMAIN node] : IsList(node, front, back, k, at)
  BY <1>2
<1>4. k = 0
  <2> SUFFICES ASSUME k # 0 PROVE FALSE
    OBVIOUS
  <2>1. 1 \in 1 .. k /\ front = at[1]
    BY <1>3 DEF IsList
  <2> QED BY <2>1, <1>1 DEF IsHeap, Null
<1>5. ContentsAre(Contents, node, k, at)
  BY <1>1, <1>3, ContentsIs, ContentsOfList
<1>6. Contents \in [1 .. 0 -> Data(node)]
  BY <1>4, <1>5 DEF ContentsAre
<1>7. Contents \in Seq(Data(node)) /\ Len(Contents) = 0
  BY <1>6, FunctionIsSeq
<1> QED BY <1>7, EmptySeq

LEMMA PopEmptyStep ==
    ASSUME QueueInv, ~gone, PopEmpty
    PROVE  QueueInv' /\ Queue!PopEmpty
<1>1. UNCHANGED <<front, back, length, node, gone>> /\ front = Null
  BY DEF PopEmpty
<1>2. Contents = <<>> /\ Contents' = Contents
  BY <1>1, EmptyContents, ContentsIs
<1> QED BY <1>1, <1>2 DEF QueueInv, PopEmpty, Queue!PopEmpty

LEMMA PopFrontStep ==
    ASSUME QueueInv, ~gone, PopFront
    PROVE  QueueInv' /\ Queue!PopFront
<1>1. /\ IsQueue(node, front, back, Contents) /\ IsHeap(node) /\ ~gone'
      /\ length = Cardinality(DOMAIN node) /\ front # Null
  BY QueueInvIs DEF IsQueue, PopFront
<1>2. PICK next : next = node[front].next
  OBVIOUS
<1>3. PICK mid : mid = Assign(node, {<<next, "prev", Null>>})
  OBVIOUS
<1>4. Written(mid, node, Null, Null, next, Null)
  BY <1>1, <1>3, AssignWrites
<1>5. /\ node' = Free(mid, {front})
      /\ front' = next /\ back' = (IF next = Null THEN Null ELSE back)
      /\ popped' = node[front].data /\ length' = length - 1
  BY <1>2, <1>3 DEF PopFront
<1>6. /\ IsQueue(node', node[front].next,
                 IF node[front].next = Null THEN Null ELSE back, Tail(Contents))
      /\ front \in DOMAIN node
      /\ Contents # <<>> /\ node[front].data = Head(Contents)
  BY <1>1, <1>2, <1>4, <1>5, PopFrontList
<1>7. IsQueue(node', front', back', Tail(Contents))
  BY <1>2, <1>5, <1>6
<1>8. Contents' = Tail(Contents)
  BY <1>1, <1>7, ContentsIs DEF IsQueue
<1>9. length' = Cardinality(DOMAIN node')
  <2>1. DOMAIN node' = DOMAIN node \ {front}
    BY <1>4, <1>5 DEF Written, Free
  <2> QED BY <1>1, <1>5, <1>6, <2>1, HeapIsFinite, FS_RemoveElement
<1>10. QueueInv'
  BY <1>1, <1>7, <1>8, <1>9, QueueInvIs
<1> QED BY <1>5, <1>6, <1>8, <1>10 DEF Queue!PopFront

LEMMA PopBackStep ==
    ASSUME QueueInv, ~gone, PopBack
    PROVE  QueueInv' /\ Queue!PopBack
<1>1. /\ IsQueue(node, front, back, Contents) /\ IsHeap(node) /\ ~gone'
      /\ length = Cardinality(DOMAIN node) /\ back # Null
  BY QueueInvIs DEF IsQueue, PopBack
<1>2. PICK prev : prev = node[back].prev
  OBVIOUS
<1>3. PICK mid : mid = Assign(node, {<<prev, "next", Null>>})
  OBVIOUS
<1>4. Written(mid, node, prev, Null, Null, Null)
  BY <1>1, <1>3, AssignWrites
<1>5. /\ node' = Free(mid, {back})
      /\ back' = prev /\ front' = (IF prev = Null THEN Null ELSE front)
      /\ popped' = node[back].data /\ length' = length - 1
  BY <1>2, <1>3 DEF PopBack
<1>6. /\ IsQueue(node', IF node[back].prev = Null THEN Null ELSE front,
                 node[back].prev, SubSeq(Contents, 1, Len(Contents) - 1))
      /\ back \in DOMAIN node
      /\ Contents # <<>> /\ node[back].data = Contents[Len(Contents)]
  BY <1>1, <1>2, <1>4, <1>5, PopBackList
<1>7. IsQueue(node', front', back', SubSeq(Contents, 1, Len(Contents) - 1))
  BY <1>2, <1>5, <1>6
<1>8. Contents' = SubSeq(Contents, 1, Len(Contents) - 1)
  BY <1>1, <1>7, ContentsIs DEF IsQueue
<1>9. length' = Cardinality(DOMAIN node')
  <2>1. DOMAIN node' = DOMAIN node \ {back}
    BY <1>4, <1>5 DEF Written, Free
  <2> QED BY <1>1, <1>5, <1>6, <2>1, HeapIsFinite, FS_RemoveElement
<1>10. QueueInv'
  BY <1>1, <1>7, <1>8, <1>9, QueueInvIs
<1> QED BY <1>5, <1>6, <1>8, <1>10 DEF Queue!PopBack

\* The loop over the queue ends at the element that RemoveFirst removes.
LEMMA RemoveStep ==
    ASSUME QueueInv, ~gone, NEW v, RemoveValue(v)
    PROVE  QueueInv' /\ Queue!RemoveValue(v)
<1>1. /\ IsQueue(node, front, back, Contents) /\ IsHeap(node) /\ ~gone'
      /\ HasList(node, front, back) /\ Contents = ContentsOf(node, front)
      /\ length = Cardinality(DOMAIN node) /\ length' = length
  BY QueueInvIs DEF IsQueue, RemoveValue
<1>2. PICK k \in Nat : \E at \in [1 .. k -> DOMAIN node] :
                           IsList(node, front, back, k, at)
  BY <1>1 DEF HasList
<1>3. PICK at \in [1 .. k -> DOMAIN node] : IsList(node, front, back, k, at)
  BY <1>2
<1>4. NodesFrom(front) = at
  BY <1>1, <1>3, NodesFromIs, WalkIsList
<1>5. /\ Contents \in [1 .. k -> Data(node)] /\ Len(Contents) = k
      /\ \A i \in 1 .. k : Contents[i] = node[at[i]].data
  <2>1. ContentsAre(Contents, node, k, at)
    BY <1>1, <1>3, ContentsOfList
  <2> QED BY <2>1, FunctionIsSeq DEF ContentsAre
<1>6. PICK hits : hits = {i \in 1 .. k : node[at[i]].data = v}
  OBVIOUS
<1>7. hits = {i \in 1 .. Len(Contents) : Contents[i] = v}
  BY <1>5, <1>6
<1>8. Queue!RemoveFirst(Contents, v) =
         IF hits # {} THEN Queue!RemoveAt(Contents, Min(hits)) ELSE Contents
  <2>1. hits # {} <=> \E i \in 1 .. Len(Contents) : Contents[i] = v
    BY <1>7
  <2>2. hits # {} => Queue!SelectInSeq(Contents, LAMBDA x : x = v) = Min(hits)
    BY <1>7 DEF Queue!SelectInSeq, Queue!Min, Min
  <2> QED BY <2>1, <2>2 DEF Queue!RemoveFirst
<1>9. CASE hits = {}
  <2>1. UNCHANGED <<front, back, node, length, gone, popped>>
    BY <1>4, <1>6, <1>9 DEF RemoveValue
  <2>2. Contents' = Contents
    BY <2>1, ContentsIs
  <2> QED BY <1>8, <1>9, <2>1, <2>2 DEF QueueInv, Queue!RemoveValue
<1>10. CASE hits # {}
  <2>1. PICK m \in 1 .. k : m = Min(hits)
    <3>1. hits \in SUBSET Nat /\ hits \in SUBSET (1 .. k)
      BY <1>6
    <3>2. Min(hits) \in hits
      BY <3>1, <1>10, LeastNumber
    <3> QED BY <3>1, <3>2
  <2>2. Unlink(at[m]) /\ UNCHANGED <<length, gone, popped>>
    BY <1>4, <1>6, <1>10, <2>1 DEF RemoveValue
  <2>3. Written(node', node, node[at[m]].prev, node[at[m]].next,
                node[at[m]].next, node[at[m]].prev)
    <3>1. PICK next, prev : next = node[at[m]].next /\ prev = node[at[m]].prev
      OBVIOUS
    <3>2. node' = Assign(node, {<<prev, "next", next>>, <<next, "prev", prev>>})
      BY <2>2, <3>1 DEF Unlink
    <3>3. Written(node', node, prev, next, next, prev)
      BY <3>2, <1>1, AssignWrites
    <3> QED BY <3>1, <3>3
  <2>4. IsQueue(node', IF at[m] = front THEN node[at[m]].next ELSE front,
                IF at[m] = back THEN node[at[m]].prev ELSE back,
                Queue!RemoveAt(ContentsOf(node, front), m))
    BY <1>1, <1>3, <2>3, RemoveList
  <2>5. /\ front' = (IF at[m] = front THEN node[at[m]].next ELSE front)
        /\ back' = (IF at[m] = back THEN node[at[m]].prev ELSE back)
    BY <2>2 DEF Unlink
  <2>6. IsQueue(node', front', back', Queue!RemoveAt(Contents, m))
    BY <1>1, <2>4, <2>5
  <2>7. Contents' = Queue!RemoveAt(Contents, m)
    BY <1>1, <2>6, ContentsIs DEF IsQueue
  <2>8. length' = Cardinality(DOMAIN node')
    <3>1. DOMAIN node' = DOMAIN node
      BY <2>3 DEF Written
    <3> QED BY <3>1, <1>1
  <2>9. QueueInv'
    BY <1>1, <2>6, <2>7, <2>8, QueueInvIs
  <2> QED BY <1>8, <1>10, <2>1, <2>2, <2>7, <2>9 DEF Queue!RemoveValue
<1> QED BY <1>9, <1>10

LEMMA ClearStep ==
    ASSUME Clear
    PROVE  QueueInv' /\ Queue!Clear
BY ContentsIs DEF Clear, QueueInv, Queue!Clear

\* Every operation on the pointers is one on the sequence.
LEMMA NextStep ==
    ASSUME QueueInv, Next
    PROVE  QueueInv' /\ Queue!Next
<1>1. ~gone
  BY DEF Next
<1>2. ASSUME NEW v \in Values, PushFront(v) PROVE QueueInv' /\ Queue!Next
  BY <1>1, <1>2, PushFrontStep DEF Queue!Next
<1>3. ASSUME NEW v \in Values, PushBack(v) PROVE QueueInv' /\ Queue!Next
  BY <1>1, <1>3, PushBackStep DEF Queue!Next
<1>4. ASSUME NEW v \in Values, RemoveValue(v) PROVE QueueInv' /\ Queue!Next
  BY <1>1, <1>4, RemoveStep DEF Queue!Next
<1>5. CASE PopEmpty
  BY <1>1, <1>5, PopEmptyStep DEF Queue!Next
<1>6. CASE PopFront
  BY <1>1, <1>6, PopFrontStep DEF Queue!Next
<1>7. CASE PopBack
  BY <1>1, <1>7, PopBackStep DEF Queue!Next
<1>8. CASE Clear
  BY <1>8, ClearStep DEF Queue!Next
<1> QED BY <1>2, <1>3, <1>4, <1>5, <1>6, <1>7, <1>8 DEF Next

LEMMA QueueStep ==
    ASSUME QueueInv, [Next]_vars
    PROVE  QueueInv' /\ [Queue!Next]_<<Contents, popped>>
<1>1. CASE Next
  BY <1>1, NextStep
<1>2. CASE UNCHANGED vars
  <2>1. Contents' = Contents /\ popped' = popped
    BY <1>2, ContentsIs DEF vars
  <2> QED BY <1>2, <2>1 DEF QueueInv, vars
<1> QED BY <1>1, <1>2

\* The inductive invariant: front and back are the ends of a list that can be
\* walked both ways, and its nodes are the ones that length counts.
THEOREM QueueInvariant == Spec => []QueueInv
<1>1. QueueInv /\ [Next]_vars => QueueInv'
  BY QueueStep
<1> QED BY InitQueue, <1>1, PTL DEF Spec

\* After any sequence of operations, the way back is the way there, and no
\* pointer on it leads to a deleted node.
THEOREM ListIsSound == Spec => []LinksAgree
<1>1. QueueInv => LinksAgree
  <2> SUFFICES ASSUME QueueInv, ~gone PROVE LinksAgree
    BY DEF LinksAgree
  <2>1. IsHeap(node) /\ HasList(node, front, back)
    BY DEF QueueInv
  <2>2. PICK k \in Nat : \E at \in [1 .. k -> DOMAIN node] :
                             IsList(node, front, back, k, at)
    BY <2>1 DEF HasList
  <2>3. PICK at \in [1 .. k -> DOMAIN node] : IsList(node, front, back, k, at)
    BY <2>2
  <2>4. NodesFrom(front) = at
    BY <2>1, <2>3, NodesFromIs, WalkIsList
  <2>5. at \in Seq(DOMAIN node) /\ Len(at) = k /\ DOMAIN at = 1 .. k
    BY FunctionIsSeq
  <2>6. at = <<>> <=> k = 0
    BY <2>5, EmptySeq
  <2> QED BY <2>3, <2>4, <2>5, <2>6 DEF LinksAgree, IsList
<1> QED BY <1>1, QueueInvariant, PTL

\* get_length() is the number of elements and of the nodes that remove() has
\* left in the heap.
THEOREM LengthIsCount == Spec => []LengthCountsRemoved
<1>1. QueueInv => LengthCountsRemoved
  <2> SUFFICES ASSUME QueueInv, ~gone
               PROVE  length = Len(Contents) + Cardinality(Removed)
    BY DEF LengthCountsRemoved
  <2>1. /\ IsHeap(node) /\ HasList(node, front, back)
        /\ length = Cardinality(DOMAIN node)
    BY DEF QueueInv
  <2>2. PICK k \in Nat : \E at \in [1 .. k -> DOMAIN node] :
                             IsList(node, front, back, k, at)
    BY <2>1 DEF HasList
  <2>3. PICK at \in [1 .. k -> DOMAIN node] : IsList(node, front, back, k, at)
    BY <2>2
  <2>4. NodesFrom(front) = at /\ DOMAIN at = 1 .. k
    BY <2>1, <2>3, NodesFromIs, WalkIsList
  <2>5. Len(Contents) = k
    <3>1. Contents = [i \in 1 .. k |-> node[at[i]].data]
      BY <2>4 DEF Contents
    <3>2. PICK S : S = {node[at[i]].data : i \in 1 .. k}
      OBVIOUS
    <3>3. Contents \in [1 .. k -> S]
      BY <3>1, <3>2
    <3> QED BY <3>3, FunctionIsSeq
  <2>6. PICK R : R = {at[i] : i \in 1 .. k}
    OBVIOUS
  <2>7. IsFiniteSet(R) /\ Cardinality(R) = k
    <3>1. IsFiniteSet(1 .. k) /\ Cardinality(1 .. k) = k
      BY FS_Interval
    <3>2. at \in Bijection(1 .. k, R)
      BY <2>3, <2>6 DEF IsList, Bijection, Injection, Surjection, IsInjective
    <3>3. ExistsBijection(1 .. k, R)
      BY <3>2 DEF ExistsBijection
    <3> QED BY <3>1, <3>3, FS_Bijection
  <2>8. IsFiniteSet(DOMAIN node)
    BY <2>1, HeapIsFinite
  <2>9. R \subseteq DOMAIN node /\ DOMAIN node \cap R = R
    BY <2>6
  <2>10. Removed = DOMAIN node \ R
    BY <2>4, <2>6 DEF Removed
  <2>11. Cardinality(Removed) = Cardinality(DOMAIN node) - k
    <3>1. Cardinality(DOMAIN node \ R)
             = Cardinality(DOMAIN node) - Cardinality(DOMAIN node \cap R)
      BY <2>8, FS_Difference
    <3> QED BY <2>7, <2>9, <2>10, <3>1
  <2>12. Cardinality(DOMAIN node) \in Nat
    BY <2>8, FS_CardinalityType
  <2> QED BY <2>1, <2>5, <2>11, <2>12
<1> QED BY <1>1, QueueInvariant, PTL

\* The linked list implements the queue of its header, for every sequence of
\* operations at both ends and within.
THEOREM KQueueImplementsDeque == Spec => ImplementsDeque
<1>1. Init => Queue!Init
  <2> SUFFICES ASSUME Init PROVE Queue!Init
    OBVIOUS
  <2>1. QueueInv /\ ~gone
    BY InitQueue DEF Init
  <2>2. front = Null /\ popped = Nothing
    BY DEF Init
  <2>3. Contents = <<>>
    BY <2>1, <2>2, EmptyContents
  <2> QED BY <2>2, <2>3 DEF Queue!Init
<1>2. QueueInv /\ [Next]_vars => [Queue!Next]_<<Contents, popped>>
  BY QueueStep
<1> QED BY <1>1, <1>2, QueueInvariant, PTL DEF Spec, ImplementsDeque, Queue!Spec
=============================================================================
