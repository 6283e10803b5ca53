----------------------------- MODULE HeapProofs -----------------------------
(***************************************************************************)
(* Proofs about Heap when operations do not overlap: for every size of the *)
(* heap, every set of contexts and every set of requests.                  *)
(***************************************************************************)
EXTENDS Heap, TLAPS

\* The types of the header fields.
HeapType ==
    /\ blocks \in SUBSET Addr
    /\ next \in [blocks -> Addr \cup {Null}]
    /\ prev \in [blocks -> Addr \cup {Null}]
    /\ size \in [blocks -> Nat]
    /\ used \in [blocks -> BOOLEAN]

\* Unsigned subtraction of a smaller number is subtraction.
LEMMA USubExact ==
    ASSUME NEW a \in Nat, NEW b \in Nat, a < WordSpan
    PROVE  /\ b <= a => USub(a, b) = a - b
           /\ USub(a, b) \in Nat
  BY DEF USub, WordSpan

\* The distance to the next aligned address.
LEMMA AlignOffsetType ==
    ASSUME NEW a \in Nat, NEW align \in Nat \ {0}
    PROVE  /\ AlignOffset(a, align) \in Nat
           /\ AlignOffset(a, align) < align
<1>1. a % align \in 0..(align - 1)
  OBVIOUS
<1>2. align - (a % align) \in Nat
  BY <1>1
<1>3. (align - (a % align)) % align \in 0..(align - 1)
  BY <1>2
<1> QED BY <1>3 DEF AlignOffset

\* What a block of a tiled heap looks like, in plain inequalities.
LEMMA BlockBounds ==
    ASSUME HeapType, Tiled, NEW b \in blocks
    PROVE  /\ b \in Nat /\ b >= Base /\ b # Null
           /\ size[b] \in Nat \ {0}
           /\ b + HDR + size[b] <= End
           /\ size[b] < WordSpan
<1>1. b \in Nat /\ b >= Base /\ b # Null /\ size[b] \in Nat
  BY LayoutAssumption DEF HeapType, Addr, Null
<1>2. size[b] > 0 /\ b + HDR + size[b] <= End
  BY DEF Tiled, BlockEnd, Memory
<1> QED BY <1>1, <1>2, LayoutAssumption DEF HDR, WordSpan

\* block::split keeps the heap tiled.
LEMMA SplitTiled ==
    ASSUME HeapType, Tiled, NEW b \in blocks, NEW offset \in Nat \ {0},
           offset + HDR < size[b], Split(b, offset),
           NEW new, new = b + HDR + offset
    PROVE  /\ HeapType'
           /\ Tiled'
           /\ new \notin blocks
           /\ new # Null
           /\ blocks' = blocks \cup {new}
           /\ next' = [x \in blocks' |->
                        IF x = new THEN next[b] ELSE IF x = b THEN new ELSE next[x]]
           /\ used' = [x \in blocks' |-> x # new /\ used[x]]
           /\ size'[new] = size[b] - (offset + HDR)
           /\ size'[b] = offset
           /\ \A x \in blocks \ {b} : size'[x] = size[x]
<1> USE DEF HDR
<1>1. /\ b \in Nat /\ b >= Base /\ b # Null
      /\ size[b] \in Nat \ {0}
      /\ b + HDR + size[b] <= End
      /\ size[b] < WordSpan
  BY BlockBounds
<1>2. USub(size[b], offset + HDR) = size[b] - (offset + HDR)
  BY <1>1, USubExact
<1>3. /\ blocks' = blocks \cup {new}
      /\ next' = [x \in blocks' |->
                    IF x = new THEN next[b] ELSE IF x = b THEN new ELSE next[x]]
      /\ prev' = [x \in blocks' |->
                    IF x = new THEN b ELSE IF x = next[b] THEN new ELSE prev[x]]
      /\ size' = [x \in blocks' |->
                    IF x = new THEN size[b] - (offset + HDR)
                    ELSE IF x = b THEN offset ELSE size[x]]
      /\ used' = [x \in blocks' |-> x # new /\ used[x]]
  BY <1>2 DEF Split, Memory
<1>4. /\ new \in Addr /\ new # Null /\ new > b
      /\ new + HDR + (size[b] - (offset + HDR)) = b + HDR + size[b]
      /\ new < b + HDR + size[b]
      /\ new \notin blocks
  <2>1. /\ new \in Addr /\ new # Null /\ new > b
        /\ new + HDR + (size[b] - (offset + HDR)) = b + HDR + size[b]
        /\ new < b + HDR + size[b]
    BY <1>1, LayoutAssumption DEF Addr, Null
  <2>2. \A d \in blocks : b < d => b + HDR + size[b] <= d
    BY DEF Tiled, BlockEnd, Memory
  <2>3. new \notin blocks
    BY <1>1, <2>1, <2>2
  <2> QED BY <2>1, <2>3
<1>5. HeapType'
  BY <1>1, <1>3, <1>4 DEF HeapType
<1>6. /\ size'[new] = size[b] - (offset + HDR)
      /\ size'[b] = offset
      /\ \A x \in blocks \ {b} : size'[x] = size[x]
  BY <1>3, <1>4
<1>7. Tiled'
  <2>1. Base \in blocks'
    BY <1>3 DEF Tiled
  <2>2. /\ BlockEnd(new)' = BlockEnd(b)
        /\ BlockEnd(b)' = new
        /\ \A x \in blocks \ {b} : BlockEnd(x)' = BlockEnd(x)
    BY <1>1, <1>3, <1>4, <1>6 DEF BlockEnd, Memory
  <2>3. ASSUME NEW x \in blocks'
        PROVE  /\ size'[x] > 0
               /\ BlockEnd(x)' <= End
    <3>1. \A z \in blocks : size[z] > 0 /\ BlockEnd(z) <= End
      BY DEF Tiled
    <3>2. BlockEnd(b) = b + HDR + size[b]
      BY DEF BlockEnd, Memory
    <3>3. CASE x = new
      BY <3>1, <3>2, <3>3, <2>2, <1>1, <1>6
    <3>4. CASE x = b
      BY <3>1, <3>2, <3>4, <2>2, <1>1, <1>4, <1>6, LayoutAssumption DEF Addr
    <3>5. CASE x \in blocks /\ x # b
      BY <3>1, <3>5, <2>2, <1>6
    <3> QED BY <3>3, <3>4, <3>5, <1>3
  <2>4. ASSUME NEW x \in blocks' PROVE NextLink(x)'
    <3>0. \A z \in blocks : NextLink(z)
      BY DEF Tiled
    <3>1. CASE x = new
      BY <3>0, <3>1, <1>1, <1>3, <1>4, <2>2 DEF NextLink
    <3>2. CASE x = b
      BY <3>0, <3>2, <1>1, <1>3, <1>4, <2>2 DEF NextLink
    <3>3. CASE x \in blocks /\ x # b
      BY <3>0, <3>3, <1>1, <1>3, <1>4, <2>2 DEF NextLink
    <3> QED BY <3>1, <3>2, <3>3, <1>3
  <2>5. ASSUME NEW x \in blocks' PROVE PrevLink(x)'
    <3>0. \A z \in blocks : NextLink(z) /\ PrevLink(z)
      BY DEF Tiled
    <3>1. CASE x = new
      BY <3>1, <1>1, <1>3, <1>4 DEF PrevLink
    <3>2. CASE x # new /\ x = next[b]
      BY <3>0, <3>2, <1>1, <1>3, <1>4 DEF PrevLink, NextLink
    <3>3. CASE x \in blocks /\ x # next[b]
      BY <3>0, <3>3, <1>1, <1>3, <1>4 DEF PrevLink, NextLink
    <3> QED BY <3>1, <3>2, <3>3, <1>3
  <2>6. ASSUME NEW x \in blocks', NEW y \in blocks', x < y
        PROVE  BlockEnd(x)' <= y
    <3>0. \A z \in blocks : z \in Nat /\ BlockEnd(z) \in Nat /\ z < BlockEnd(z)
      BY BlockBounds DEF BlockEnd, Memory
    <3>1. \A z, d \in blocks : z < d => BlockEnd(z) <= d
      BY DEF Tiled
    <3>2. BlockEnd(b) = b + HDR + size[b]
      BY DEF BlockEnd, Memory
    <3>3. CASE x = new
      <4>1. new \in Int /\ y # new
        BY <3>3, <2>6, <1>4, LayoutAssumption DEF Addr
      <4>2. y \in blocks /\ y \in Int /\ b < y
        BY <4>1, <3>0, <3>3, <2>6, <1>1, <1>3, <1>4
      <4> QED BY <4>2, <3>1, <3>3, <2>2
    <3>4. CASE x = b
      <4>1. CASE y = new
        BY <4>1, <3>4, <2>2, <1>4, LayoutAssumption DEF Addr
      <4>2. CASE y \in blocks
        <5>1. BlockEnd(b) <= y /\ y \in Int
          BY <4>2, <3>0, <3>1, <3>4, <2>6
        <5> QED BY <5>1, <3>2, <3>4, <2>2, <1>1, <1>4, LayoutAssumption DEF Addr
      <4> QED BY <4>1, <4>2, <1>3
    <3>5. CASE x \in blocks /\ x # b
      <4>1. CASE y = new
        <5>1. x < b
          BY <4>1, <3>0, <3>1, <3>2, <3>5, <2>6, <1>1, <1>4
        <5> QED BY <4>1, <5>1, <3>0, <3>1, <3>5, <2>2, <1>1, <1>4
      <4>2. CASE y \in blocks
        BY <4>2, <3>0, <3>1, <3>5, <2>2, <2>6
      <4> QED BY <4>1, <4>2, <1>3
    <3> QED BY <3>3, <3>4, <3>5, <1>3
  <2> QED BY <2>1, <2>3, <2>4, <2>5, <2>6 DEF Tiled
<1> QED BY <1>3, <1>4, <1>5, <1>6, <1>7

\* block::merge of two neighbours keeps the heap tiled.
LEMMA MergeTiled ==
    ASSUME HeapType, Tiled, NEW a \in blocks, NEW b, b = next[a], b # Null,
           Merge(a, b)
    PROVE  /\ HeapType'
           /\ Tiled'
           /\ b \in blocks /\ a < b
           /\ prev[b] = a
           /\ blocks' = blocks \ {b}
           /\ next' = [x \in blocks' |-> IF x = a THEN next[b] ELSE next[x]]
           /\ prev' = [x \in blocks' |-> IF x = next[b] THEN a ELSE prev[x]]
           /\ used' = [x \in blocks' |-> used[x]]
           /\ size'[a] = size[a] + size[b] + HDR
           /\ \A x \in blocks' \ {a} : size'[x] = size[x]
<1> USE DEF HDR
<1>1. /\ blocks' = blocks \ {b}
      /\ next' = [x \in blocks' |-> IF x = a THEN next[b] ELSE next[x]]
      /\ prev' = [x \in blocks' |-> IF x = next[b] THEN a ELSE prev[x]]
      /\ size' = [x \in blocks' |->
                    IF x = a THEN size[a] + size[b] + HDR ELSE size[x]]
      /\ used' = [x \in blocks' |-> used[x]]
  BY DEF Merge
<1>2. \A z \in blocks : NextLink(z) /\ PrevLink(z)
  BY DEF Tiled
<1>3. \A z \in blocks : /\ z \in Nat /\ z # Null
                        /\ size[z] \in Nat \ {0}
                        /\ BlockEnd(z) = z + HDR + size[z]
                        /\ BlockEnd(z) <= End
  <2>1. \A z \in blocks : BlockEnd(z) = z + HDR + size[z] /\ BlockEnd(z) <= End
    BY DEF Tiled, BlockEnd, Memory
  <2> QED BY <2>1, BlockBounds
<1>4. b \in blocks /\ prev[b] = a /\ b = BlockEnd(a)
  BY <1>2 DEF NextLink
<1>5. a < b /\ a \in blocks'
  BY <1>1, <1>3, <1>4
<1>6. next[b] # b /\ next[b] # a
  BY <1>2, <1>3, <1>4, <1>5 DEF NextLink
<1>7. /\ size'[a] = size[a] + size[b] + HDR
      /\ \A x \in blocks' \ {a} : size'[x] = size[x]
  BY <1>1, <1>5
<1>8. /\ BlockEnd(a)' = BlockEnd(b)
      /\ \A x \in blocks' \ {a} : BlockEnd(x)' = BlockEnd(x)
  BY <1>3, <1>4, <1>7 DEF BlockEnd, Memory
<1>9. HeapType'
  BY <1>1, <1>3, <1>4 DEF HeapType
<1>10. Tiled'
  <2>1. Base \in blocks'
    <3>1. \A z \in blocks : z >= Base
      BY LayoutAssumption DEF HeapType, Addr
    <3>2. b # Base
      BY <1>3, <1>4, <1>5, <3>1, LayoutAssumption
    <3> QED BY <1>1, <3>2 DEF Tiled
  <2>2. ASSUME NEW x \in blocks' PROVE size'[x] > 0 /\ BlockEnd(x)' <= End
    <3>1. CASE x = a
      BY <3>1, <1>3, <1>4, <1>7, <1>8
    <3>2. CASE x # a
      BY <3>2, <1>1, <1>3, <1>7, <1>8
    <3> QED BY <3>1, <3>2
  <2>3. ASSUME NEW x \in blocks' PROVE NextLink(x)'
    <3>1. CASE x = a
      BY <3>1, <1>1, <1>2, <1>4, <1>5, <1>6, <1>8 DEF NextLink
    <3>2. CASE x # a
      <4>1. x \in blocks /\ next'[x] = next[x] /\ BlockEnd(x)' = BlockEnd(x)
        BY <3>2, <1>1, <1>8
      <4>2. next[x] # b
        BY <4>1, <3>2, <1>2, <1>3, <1>4 DEF NextLink
      <4>3. next[x] # Null => next[x] # next[b]
        <5>1. SUFFICES ASSUME next[x] # Null, next[x] = next[b] PROVE FALSE
          OBVIOUS
        <5>2. prev[next[x]] = x /\ prev[next[b]] = b
          BY <5>1, <4>1, <1>2, <1>4 DEF NextLink
        <5> QED BY <5>1, <5>2, <1>1
      <4> QED BY <4>1, <4>2, <4>3, <1>1, <1>2 DEF NextLink
    <3> QED BY <3>1, <3>2
  <2>4. ASSUME NEW x \in blocks' PROVE PrevLink(x)'
    <3>1. CASE x = next[b]
      BY <3>1, <1>1, <1>3, <1>5 DEF PrevLink
    <3>2. CASE x # next[b]
      <4>1. x \in blocks /\ prev'[x] = prev[x]
        BY <3>2, <1>1
      <4>2. prev[x] # b
        BY <4>1, <3>2, <1>2, <1>3, <1>4 DEF PrevLink
      <4>3. prev[x] # Null => prev[x] # a
        <5>1. SUFFICES ASSUME prev[x] # Null, prev[x] = a PROVE FALSE
          OBVIOUS
        <5>2. next[a] = x
          BY <5>1, <4>1, <1>2 DEF PrevLink
        <5> QED BY <5>2, <1>1
      <4> QED BY <4>1, <4>2, <4>3, <1>1, <1>2 DEF PrevLink
    <3> QED BY <3>1, <3>2
  <2>5. ASSUME NEW x \in blocks', NEW y \in blocks', x < y
        PROVE  BlockEnd(x)' <= y
    <3>1. \A z, d \in blocks : z < d => BlockEnd(z) <= d
      BY DEF Tiled
    <3>2. CASE x = a
      <4>1. y \in blocks /\ y # b /\ y \in Int
        BY <1>1, <1>3
      <4>2. b <= y
        BY <3>1, <3>2, <4>1, <2>5, <1>4
      <4>3. b < y
        BY <4>1, <4>2, <1>3, <1>4
      <4> QED BY <4>1, <4>3, <3>1, <3>2, <1>4, <1>8
    <3>3. CASE x # a
      BY <3>1, <3>3, <2>5, <1>1, <1>8
    <3> QED BY <3>2, <3>3
  <2> QED BY <2>1, <2>2, <2>3, <2>4, <2>5 DEF Tiled
<1> QED BY <1>1, <1>4, <1>5, <1>7, <1>9, <1>10

-----------------------------------------------------------------------------
(***************************************************************************)
(* The inductive invariant.  A call leaves the heap in intermediate states *)
(* in which two neighbours are free; the invariant says which, and what    *)
(* the context in the call knows of the block it works on.                 *)
(***************************************************************************)

\* At most one context is in a call.
OneAtATime == \A c, d \in All : ~Idle(c) /\ ~Idle(d) => c = d

\* What a context in a call knows of its block.
CallState(c) ==
    /\ req[c].align <= req[c].words
    /\ ~Idle(c) => cur[c] \in blocks
    /\ pc[c] = "front" => FitsBehind(cur[c], req[c])
    /\ pc[c] \in {"split", "mark"} =>
          ~used[cur[c]] /\ size[cur[c]] >= req[c].words
    /\ pc[c] \in {"merge_prev", "merge_next"} => ~used[cur[c]]
    /\ pc[c] = "merge_next" => prev[cur[c]] = Null \/ used[prev[cur[c]]]

\* A used block is always one a caller holds.
UsedOwned == \A b \in blocks : used[b] => \E m \in owned : m.addr = Memory(b)

\* A context that may be leaving b and its successor free for now.
Excused(b, n) ==
    \E c \in All :
        \/ pc[c] \in {"split", "mark", "merge_prev"} /\ n = cur[c]
        \/ pc[c] \in {"mark", "merge_prev", "merge_next"} /\ b = cur[c]

\* Two neighbours are free only while a call is dealing with them.
CoalescedOrExcused ==
    \A b \in blocks :
        next[b] # Null /\ ~used[b] /\ ~used[next[b]] => Excused(b, next[b])

HInv ==
    /\ TypeOK
    /\ Tiled
    /\ OneAtATime
    /\ \A c \in All : CallState(c)
    /\ OwnedIsAllocated
    /\ UsedOwned
    /\ CoalescedOrExcused
    /\ SearchSkipsNothing
    /\ mode # "corrupt"

\* The initial state satisfies the invariant.
LEMMA InitHInv == Init => HInv
<1> SUFFICES ASSUME Init PROVE HInv
  OBVIOUS
<1>1. /\ Base \in Addr /\ Base # Null
      /\ End - Base - HDR \in Nat \ {0}
      /\ Base + HDR + (End - Base - HDR) = End
  BY LayoutAssumption DEF Addr, Null, HDR
<1>2. TypeOK
  BY <1>1 DEF Init, TypeOK, NoRequest
<1>3. Tiled
  <2>1. BlockEnd(Base) = End /\ size[Base] > 0
    BY <1>1 DEF Init, BlockEnd, Memory
  <2>2. NextLink(Base) /\ PrevLink(Base)
    BY <2>1 DEF Init, NextLink, PrevLink
  <2>3. ~(Base < Base) /\ End <= End
    BY LayoutAssumption
  <2> QED BY <2>1, <2>2, <2>3 DEF Init, Tiled
<1>4. OneAtATime /\ \A c \in All : CallState(c)
  BY DEF Init, OneAtATime, CallState, Idle, NoRequest
<1>5. OwnedIsAllocated /\ UsedOwned /\ CoalescedOrExcused
  BY DEF Init, OwnedIsAllocated, UsedOwned, CoalescedOrExcused
<1>6. SearchSkipsNothing /\ mode # "corrupt"
  BY DEF Init, SearchSkipsNothing
<1> QED BY <1>2, <1>3, <1>4, <1>5, <1>6 DEF HInv

\* The context that takes a step is the only one in a call.
LEMMA OthersIdle ==
    ASSUME ~Preemptive, NEW c \in All, MayStep(c)
    PROVE  /\ mode = "ok"
           /\ \A d \in All \ {c} : pc[d] = "idle"
  BY DEF MayStep, Idle

\* A step of a call that changes no header, takes nothing from callers, and
\* starts where no two neighbours are free.
LEMMA SearchStep ==
    ASSUME HInv, NEW c \in All,
           \A d \in All \ {c} : pc[d] = "idle",
           pc[c] \in {"idle", "check"},
           UNCHANGED heapVars,
           mode = "ok", mode' # "corrupt",
           owned \subseteq owned', mode' = "ok" => owned' = owned,
           TypeOK',
           \A d \in All \ {c} : pc'[d] = "idle" /\ req'[d] = req[d],
           CallState(c)',
           pc'[c] = "check" =>
              \A b \in blocks : b < cur'[c] =>
                  ~FitsAtStart(b, req'[c]) /\ ~FitsBehind(b, req'[c])
    PROVE  HInv'
<1>1. UNCHANGED <<blocks, next, prev, size, used>>
  BY DEF heapVars
<1>2. Tiled'
  BY <1>1 DEF HInv, Tiled, NextLink, PrevLink, BlockEnd
<1>3. OneAtATime'
  BY DEF OneAtATime, Idle
<1>4. \A d \in All : CallState(d)'
  BY DEF HInv, CallState, Idle
<1>5. OwnedIsAllocated' /\ UsedOwned'
  BY <1>1 DEF HInv, OwnedIsAllocated, Allocated, UsedOwned
<1>6. CoalescedOrExcused'
  <2>1. \A b, n : ~Excused(b, n)
    BY DEF Excused
  <2> QED BY <1>1, <2>1 DEF HInv, CoalescedOrExcused
<1>7. SearchSkipsNothing'
  BY <1>1 DEF SearchSkipsNothing, FitsAtStart, FitsBehind, Fits
<1> QED BY <1>2, <1>3, <1>4, <1>5, <1>6, <1>7 DEF HInv

\* The start of a search preserves the invariant.
LEMMA AllocateHInv ==
    ASSUME ~Preemptive, HInv, NEW c \in All, NEW r \in Requests \cup IrqRequests,
           Allocate(c, r)
    PROVE  HInv'
<1>1. /\ mode = "ok" /\ pc[c] = "idle"
      /\ \A d \in All \ {c} : pc[d] = "idle"
  BY OthersIdle DEF Allocate, Idle
<1>2. /\ pc' = [pc EXCEPT ![c] = "check"]
      /\ cur' = [cur EXCEPT ![c] = Base]
      /\ ret' = [ret EXCEPT ![c] = Null]
      /\ req' = [req EXCEPT ![c] = r]
      /\ UNCHANGED <<blocks, next, prev, size, used, owned, mode>>
  BY DEF Allocate, heapVars
<1>3. /\ r \in [words : Nat \ {0}, align : Nat \ {0}]
      /\ r.align <= r.words
  BY RequestsAssumption
<1>4. Base \in blocks /\ Base \in Addr
  BY LayoutAssumption DEF HInv, Tiled, Addr, HDR
<1>5. TypeOK'
  BY <1>2, <1>3, <1>4 DEF HInv, TypeOK
<1>6. CallState(c)'
  BY <1>2, <1>3, <1>4 DEF HInv, TypeOK, CallState, Idle
<1>7. \A b \in blocks : ~(b < cur'[c])
  BY <1>2, LayoutAssumption DEF HInv, TypeOK, Addr
<1>8. \A d \in All \ {c} : pc'[d] = "idle" /\ req'[d] = req[d]
  BY <1>1, <1>2 DEF HInv, TypeOK
<1> QED BY <1>1, <1>2, <1>5, <1>6, <1>7, <1>8, SearchStep DEF heapVars

\* What is known of the memory of a block.
LEMMA MemoryFacts ==
    ASSUME HInv, NEW b \in blocks
    PROVE  /\ b \in Nat /\ b \in Addr /\ b # Null
           /\ size[b] \in Nat \ {0} /\ size[b] < WordSpan
           /\ Memory(b) \in Addr /\ Memory(b) \in Nat /\ Memory(b) # Null
<1>1. HeapType /\ Tiled
  BY DEF HInv, TypeOK, HeapType
<1>2. /\ b \in Nat /\ b >= Base /\ b # Null
      /\ size[b] \in Nat \ {0}
      /\ b + HDR + size[b] <= End
      /\ size[b] < WordSpan
  BY <1>1, BlockBounds
<1> QED BY <1>2, LayoutAssumption DEF Memory, Addr, HDR, Null

\* A block is never used both from its start and behind a free block.
LEMMA AtStartOrBehind ==
    ASSUME NEW b, NEW r, FitsAtStart(b, r)
    PROVE  ~FitsBehind(b, r)
  BY DEF FitsAtStart, FitsBehind, HDR

\* An iteration of the search preserves the invariant.
LEMMA CheckHInv ==
    ASSUME ~Preemptive, HInv, NEW c \in All, Check(c)
    PROVE  HInv'
<1>1. /\ mode = "ok" /\ pc[c] = "check"
      /\ \A d \in All \ {c} : pc[d] = "idle"
  BY OthersIdle DEF Check
<1>2. PICK b : b = cur[c]
  OBVIOUS
<1>3. PICK r : r = req[c]
  OBVIOUS
<1>4. /\ b \in blocks
      /\ r \in [words : Nat \ {0}, align : Nat \ {0}]
      /\ r.align <= r.words
  BY <1>1, <1>2, <1>3 DEF HInv, CallState, Idle, TypeOK
<1>5. PICK address : address = IF Fits(b, r) THEN Memory(b) ELSE ret[c]
  OBVIOUS
<1>6. address \in Addr \cup {Null}
  BY <1>4, <1>5, MemoryFacts DEF HInv, TypeOK
<1>7. UNCHANGED heapVars
  BY <1>2, <1>4 DEF Check
<1>8. ASSUME NEW label \in {"split", "front"},
             pc' = [pc EXCEPT ![c] = label],
             ret' = [ret EXCEPT ![c] = address],
             UNCHANGED <<cur, req, owned, mode>>,
             label = "split" => FitsAtStart(b, r),
             label = "front" => FitsBehind(b, r)
      PROVE  HInv'
  <2>1. TypeOK'
    BY <1>6, <1>7, <1>8 DEF HInv, TypeOK, heapVars
  <2>2. pc'[c] = label /\ cur'[c] = b /\ req'[c] = r
    BY <1>2, <1>3, <1>8 DEF HInv, TypeOK
  <2>3. CallState(c)'
    <3>1. ~used[b] /\ size[b] >= r.words
      BY <1>8 DEF FitsAtStart, FitsBehind, Fits
    <3>2. label = "front" => FitsBehind(b, r)'
      BY <1>7, <1>8 DEF FitsBehind, Fits, heapVars
    <3> QED BY <3>1, <3>2, <2>2, <1>4, <1>7 DEF CallState, Idle, heapVars
  <2>4. \A d \in All \ {c} : pc'[d] = "idle" /\ req'[d] = req[d]
    BY <1>1, <1>8 DEF HInv, TypeOK
  <2> QED BY <2>1, <2>2, <2>3, <2>4, <1>1, <1>7, <1>8, SearchStep
<1>9. ASSUME Return(c),
             \/ UNCHANGED <<owned, mode>>
             \/ /\ address # Null
                /\ owned' = owned \cup {Handed(c, address)}
                /\ mode' = "bogus"
      PROVE  HInv'
  <2>1. /\ pc' = [pc EXCEPT ![c] = "idle"]
        /\ cur' = [cur EXCEPT ![c] = Base]
        /\ ret' = [ret EXCEPT ![c] = Null]
        /\ req' = [req EXCEPT ![c] = NoRequest]
    BY <1>9 DEF Return
  <2>2. Base \in Addr /\ NoRequest \in [words : Nat \ {0}, align : Nat \ {0}]
        /\ NoRequest.align <= NoRequest.words
    BY LayoutAssumption DEF Addr, HDR, NoRequest
  <2>0. /\ owned' \subseteq [addr : Addr, by : All, words : Nat \ {0},
                              align : Nat \ {0}]
        /\ owned \subseteq owned'
        /\ mode' \in {"ok", "bogus"}
        /\ mode' = "ok" => owned' = owned
    BY <1>1, <1>3, <1>4, <1>6, <1>9 DEF HInv, TypeOK, Handed
  <2>3. TypeOK'
    BY <2>0, <2>1, <2>2, <1>7 DEF HInv, TypeOK, heapVars
  <2>4. CallState(c)'
    BY <2>1, <2>2 DEF HInv, TypeOK, CallState, Idle
  <2>5. \A d \in All \ {c} : pc'[d] = "idle" /\ req'[d] = req[d]
    BY <1>1, <2>1 DEF HInv, TypeOK
  <2>6. pc'[c] = "idle" /\ mode' # "corrupt"
    BY <2>0, <2>1 DEF HInv, TypeOK
  <2> QED BY <2>0, <2>3, <2>4, <2>5, <2>6, <1>1, <1>7, SearchStep
<1>10. ASSUME ~FitsAtStart(b, r), ~FitsBehind(b, r), ~LastBlock(b),
              cur' = [cur EXCEPT ![c] = next[b]],
              ret' = [ret EXCEPT ![c] = address],
              UNCHANGED <<pc, req, owned, mode>>
       PROVE  HInv'
  <2>1. /\ next[b] \in blocks
        /\ next[b] = BlockEnd(b)
        /\ \A d \in blocks : b < d => BlockEnd(b) <= d
    BY <1>4, <1>10 DEF HInv, Tiled, NextLink, LastBlock
  <2>2. TypeOK'
    BY <1>6, <1>7, <1>10, <2>1 DEF HInv, TypeOK, heapVars
  <2>3. pc'[c] = "check" /\ cur'[c] = next[b] /\ req'[c] = r
    BY <1>1, <1>3, <1>10 DEF HInv, TypeOK
  <2>4. CallState(c)'
    BY <2>1, <2>3, <1>4, <1>7 DEF CallState, Idle, heapVars
  <2>5. ASSUME NEW d \in blocks, d < next[b]
        PROVE  ~FitsAtStart(d, r) /\ ~FitsBehind(d, r)
    <3>1. d \in Nat /\ b \in Nat
      BY <1>4, MemoryFacts
    <3>2. next[b] \in Nat
      BY <2>1, MemoryFacts
    <3>3. ~(b < d)
      BY <2>1, <2>5, <3>1, <3>2
    <3>4. CASE d = b
      BY <3>4, <1>10
    <3>5. CASE d < b
      BY <3>5, <1>1, <1>2, <1>3 DEF HInv, SearchSkipsNothing
    <3> QED BY <3>1, <3>3, <3>4, <3>5
  <2>6. \A d \in All \ {c} : pc'[d] = "idle" /\ req'[d] = req[d]
    BY <1>1, <1>10
  <2>7. mode' # "corrupt" /\ owned' = owned
    BY <1>1, <1>10
  <2> QED BY <2>2, <2>3, <2>4, <2>5, <2>6, <2>7, <1>1, <1>7, SearchStep
<1>10a. FitsAtStart(b, r) => ~FitsBehind(b, r)
  BY AtStartOrBehind
<1>11. CASE FitsAtStart(b, r)
  BY <1>2, <1>3, <1>4, <1>5, <1>8, <1>10a, <1>11 DEF Check
<1>12. CASE ~FitsAtStart(b, r) /\ FitsBehind(b, r)
  BY <1>2, <1>3, <1>4, <1>5, <1>8, <1>12 DEF Check
<1>13. CASE ~FitsAtStart(b, r) /\ ~FitsBehind(b, r) /\ LastBlock(b)
  BY <1>2, <1>3, <1>4, <1>5, <1>9, <1>13 DEF Check
<1>14. CASE ~FitsAtStart(b, r) /\ ~FitsBehind(b, r) /\ ~LastBlock(b)
  BY <1>2, <1>3, <1>4, <1>5, <1>10, <1>14 DEF Check
<1> QED BY <1>11, <1>12, <1>13, <1>14

\* A split of a free block keeps every piece of memory that callers hold in
\* a used block of its own.
LEMMA SplitOwned ==
    ASSUME HInv, NEW b \in blocks, ~used[b], NEW offset \in Nat \ {0},
           offset + HDR < size[b], Split(b, offset), UNCHANGED owned,
           mode = "ok"
    PROVE  OwnedIsAllocated' /\ UsedOwned'
<1>1. PICK new : new = b + HDR + offset
  OBVIOUS
<1>2. HeapType /\ Tiled
  BY DEF HInv, TypeOK, HeapType
<1>3. /\ new \notin blocks
      /\ blocks' = blocks \cup {new}
      /\ used' = [x \in blocks' |-> x # new /\ used[x]]
      /\ \A x \in blocks \ {b} : size'[x] = size[x]
  BY <1>1, <1>2, SplitTiled
<1>4. \A x \in blocks' : used'[x] => x \in blocks /\ used[x]
  BY <1>3
<1>5. \A x \in blocks : used[x] => x \in blocks' /\ used'[x] /\ size'[x] = size[x]
  BY <1>3
<1>6. OwnedIsAllocated'
  BY <1>5 DEF HInv, OwnedIsAllocated, Allocated
<1>7. UsedOwned'
  BY <1>4 DEF HInv, UsedOwned
<1> QED BY <1>6, <1>7

\* Splitting off the front of a block preserves the invariant.
LEMMA SplitFrontHInv ==
    ASSUME ~Preemptive, HInv, NEW c \in All, SplitFront(c)
    PROVE  HInv'
<1>1. /\ mode = "ok" /\ pc[c] = "front"
      /\ \A d \in All \ {c} : pc[d] = "idle"
  BY OthersIdle DEF SplitFront
<1>2. PICK b : b = cur[c]
  OBVIOUS
<1>3. PICK r : r = req[c]
  OBVIOUS
<1>4. /\ b \in blocks
      /\ FitsBehind(b, r)
      /\ r \in [words : Nat \ {0}, align : Nat \ {0}]
      /\ r.align <= r.words
  BY <1>1, <1>2, <1>3 DEF HInv, CallState, Idle, TypeOK
<1>5. PICK o : o = AlignOffset(Memory(b), r.align)
  OBVIOUS
<1>6. /\ b \in Nat /\ b # Null
      /\ size[b] \in Nat \ {0} /\ size[b] < WordSpan
      /\ Memory(b) \in Nat
  BY <1>4, MemoryFacts
<1>7. o \in Nat /\ o < r.align
  BY <1>4, <1>5, <1>6, AlignOffsetType
<1>8. /\ ~used[b] /\ size[b] >= r.words
      /\ o > HDR /\ USub(size[b], o) >= r.words
  BY <1>4, <1>5 DEF FitsBehind, Fits
<1>9. o <= size[b] /\ USub(size[b], o) = size[b] - o
  BY <1>4, <1>6, <1>7, <1>8, USubExact
<1>10. PICK off : off = o - HDR
  OBVIOUS
<1>11. /\ off \in Nat \ {0}
       /\ off + HDR < size[b]
       /\ off <= size[b]
       /\ size[b] - (off + HDR) >= r.words
  BY <1>4, <1>6, <1>7, <1>8, <1>9, <1>10 DEF HDR
<1>12. USub(size[b], off) = size[b] - off
  BY <1>6, <1>11, USubExact
<1>13. SplitRoom(b, off)
  BY <1>6, <1>11, <1>12 DEF SplitRoom, HDR
<1>14. PICK new : new = b + HDR + off
  OBVIOUS
<1>15. HeapType /\ Tiled
  BY DEF HInv, TypeOK, HeapType
<1>16. new \in Addr /\ Memory(b) + off = new
  <2>1. b >= Base /\ b + HDR + size[b] <= End
    BY <1>4, <1>15, BlockBounds
  <2> QED BY <2>1, <1>6, <1>11, <1>14, LayoutAssumption DEF Memory, Addr, HDR
<1>17. /\ Split(b, off)
       /\ cur' = [cur EXCEPT ![c] = new]
       /\ pc' = [pc EXCEPT ![c] = "split"]
       /\ UNCHANGED <<ret, req, owned, mode>>
  BY <1>2, <1>3, <1>4, <1>5, <1>10, <1>13, <1>16 DEF SplitFront
<1>18. /\ HeapType' /\ Tiled'
       /\ new \notin blocks /\ new # Null
       /\ blocks' = blocks \cup {new}
       /\ next' = [x \in blocks' |->
                    IF x = new THEN next[b] ELSE IF x = b THEN new ELSE next[x]]
       /\ used' = [x \in blocks' |-> x # new /\ used[x]]
       /\ size'[new] = size[b] - (off + HDR)
  BY <1>4, <1>11, <1>14, <1>15, <1>17, SplitTiled
<1>19. TypeOK'
  BY <1>16, <1>17, <1>18 DEF HInv, TypeOK, HeapType
<1>20. /\ pc'[c] = "split" /\ cur'[c] = new /\ req'[c] = r
       /\ \A d \in All \ {c} : pc'[d] = "idle" /\ req'[d] = req[d]
  BY <1>1, <1>3, <1>17 DEF HInv, TypeOK
<1>21. OneAtATime'
  BY <1>20 DEF OneAtATime, Idle
<1>22. \A d \in All : CallState(d)'
  <2>1. ~used'[cur'[c]] /\ cur'[c] \in blocks'
    BY <1>18, <1>20
  <2>2. size'[cur'[c]] >= req'[c].words
    BY <1>11, <1>18, <1>20
  <2> QED BY <2>1, <2>2, <1>4, <1>20 DEF HInv, CallState, Idle
<1>23. OwnedIsAllocated' /\ UsedOwned'
  BY <1>1, <1>4, <1>8, <1>11, <1>17, SplitOwned
<1>24. CoalescedOrExcused'
  <2> SUFFICES ASSUME NEW x \in blocks', next'[x] # Null, ~used'[x],
                      ~used'[next'[x]]
               PROVE  Excused(x, next[x])'
    BY DEF CoalescedOrExcused
  <2>1. CASE next'[x] = new
    BY <2>1, <1>20 DEF Excused
  <2>2. CASE next'[x] # new
    <3>0. \A z \in blocks : next[z] # Null => next[z] \in blocks
      BY <1>15 DEF Tiled, NextLink
    <3>1. \A z \in blocks : ~(next[z] # Null /\ ~used[z] /\ ~used[next[z]])
      BY <1>1 DEF HInv, CoalescedOrExcused, Excused
    <3>2. x # b
      BY <2>2, <1>4, <1>18
    <3>3. CASE x = new
      BY <3>0, <3>1, <3>3, <1>4, <1>8, <1>18
    <3>4. CASE x \in blocks
      BY <3>0, <3>1, <3>2, <3>4, <1>18
    <3> QED BY <3>3, <3>4, <1>18
  <2> QED BY <2>1, <2>2
<1>25. SearchSkipsNothing'
  BY <1>20 DEF SearchSkipsNothing
<1> QED BY <1>1, <1>17, <1>18, <1>19, <1>21, <1>22, <1>23, <1>24, <1>25 DEF HInv

\* Splitting off the rest of a block preserves the invariant.
LEMMA SplitRestHInv ==
    ASSUME ~Preemptive, HInv, NEW c \in All, SplitRest(c)
    PROVE  HInv'
<1>1. /\ mode = "ok" /\ pc[c] = "split"
      /\ \A d \in All \ {c} : pc[d] = "idle"
  BY OthersIdle DEF SplitRest
<1>2. PICK b : b = cur[c]
  OBVIOUS
<1>3. PICK words : words = req[c].words
  OBVIOUS
<1>4. /\ b \in blocks /\ words \in Nat \ {0}
      /\ ~used[b] /\ size[b] >= words
  BY <1>1, <1>2, <1>3 DEF HInv, CallState, Idle, TypeOK
<1>5. /\ pc' = [pc EXCEPT ![c] = "mark"]
      /\ UNCHANGED <<cur, ret, req, owned, mode>>
  BY <1>2, <1>4 DEF SplitRest
<1>6. /\ pc'[c] = "mark" /\ cur'[c] = b /\ req'[c] = req[c]
      /\ \A d \in All \ {c} : pc'[d] = "idle" /\ req'[d] = req[d]
  BY <1>1, <1>2, <1>5 DEF HInv, TypeOK
<1>7. OneAtATime' /\ SearchSkipsNothing'
  BY <1>6 DEF OneAtATime, Idle, SearchSkipsNothing
<1>8. HeapType /\ Tiled
  BY DEF HInv, TypeOK, HeapType
<1>9. \A z \in blocks : next[z] # Null => next[z] \in blocks
  BY <1>8 DEF Tiled, NextLink
<1>10. \A z \in blocks : next[z] # Null /\ ~used[z] /\ ~used[next[z]] => next[z] = b
  BY <1>1, <1>2 DEF HInv, CoalescedOrExcused, Excused
<1>11. CASE size[b] > words /\ SplitRoom(b, words)
  <2>1. Split(b, words)
    BY <1>2, <1>3, <1>4, <1>11 DEF SplitRest
  <2>2. size[b] \in Nat /\ size[b] < WordSpan
    BY <1>4, MemoryFacts
  <2>3. USub(size[b], words) = size[b] - words
    BY <1>4, <2>2, USubExact
  <2>4. words + HDR < size[b]
    BY <1>4, <1>11, <2>2, <2>3 DEF SplitRoom, HDR
  <2>5. PICK new : new = b + HDR + words
    OBVIOUS
  <2>6. /\ HeapType' /\ Tiled'
        /\ new \notin blocks /\ new # Null
        /\ blocks' = blocks \cup {new}
        /\ next' = [x \in blocks' |->
                     IF x = new THEN next[b] ELSE IF x = b THEN new ELSE next[x]]
        /\ used' = [x \in blocks' |-> x # new /\ used[x]]
        /\ size'[b] = words
    BY <1>4, <1>8, <2>1, <2>4, <2>5, SplitTiled
  <2>7. TypeOK'
    BY <1>5, <2>6 DEF HInv, TypeOK, HeapType
  <2>8. \A d \in All : CallState(d)'
    <3>1. size'[cur'[c]] >= req'[c].words
      BY <1>3, <1>4, <1>6, <2>6
    <3>2. ~used'[cur'[c]] /\ cur'[c] \in blocks'
      BY <1>4, <1>6, <2>6
    <3> QED BY <3>1, <3>2, <1>6 DEF HInv, CallState, Idle
  <2>9. OwnedIsAllocated' /\ UsedOwned'
    BY <1>1, <1>4, <1>5, <2>1, <2>4, SplitOwned
  <2>10. CoalescedOrExcused'
    <3> SUFFICES ASSUME NEW x \in blocks', next'[x] # Null, ~used'[x],
                        ~used'[next'[x]]
                 PROVE  Excused(x, next[x])'
      BY DEF CoalescedOrExcused
    <3>1. CASE x = b \/ next'[x] = b
      BY <3>1, <1>6 DEF Excused
    <3>2. CASE x # b /\ next'[x] # b
      <4>1. CASE x = new
        BY <4>1, <3>2, <1>4, <1>9, <1>10, <2>6
      <4>2. CASE x \in blocks
        BY <4>2, <3>2, <1>9, <1>10, <2>6
      <4> QED BY <4>1, <4>2, <2>6
    <3> QED BY <3>1, <3>2
  <2> QED BY <1>1, <1>5, <1>7, <2>6, <2>7, <2>8, <2>9, <2>10 DEF HInv
<1>12. CASE ~(size[b] > words /\ SplitRoom(b, words))
  <2>1. UNCHANGED <<blocks, next, prev, size, used>>
    BY <1>2, <1>3, <1>4, <1>12 DEF SplitRest, heapVars
  <2>2. TypeOK'
    BY <1>5, <2>1 DEF HInv, TypeOK
  <2>3. Tiled'
    BY <2>1 DEF HInv, Tiled, NextLink, PrevLink, BlockEnd
  <2>4. \A d \in All : CallState(d)'
    <3>1. size'[cur'[c]] >= req'[c].words
      BY <1>3, <1>4, <1>6, <2>1
    <3>2. ~used'[cur'[c]] /\ cur'[c] \in blocks'
      BY <1>4, <1>6, <2>1
    <3> QED BY <3>1, <3>2, <1>6 DEF HInv, CallState, Idle
  <2>5. OwnedIsAllocated' /\ UsedOwned'
    BY <1>5, <2>1 DEF HInv, OwnedIsAllocated, Allocated, UsedOwned
  <2>6. CoalescedOrExcused'
    BY <1>6, <1>10, <2>1 DEF CoalescedOrExcused, Excused
  <2> QED BY <1>1, <1>5, <1>7, <2>2, <2>3, <2>4, <2>5, <2>6 DEF HInv
<1> QED BY <1>11, <1>12

\* What Return does to the locals.
LEMMA ReturnFacts ==
    ASSUME HInv, NEW c \in All, \A d \in All \ {c} : pc[d] = "idle", Return(c)
    PROVE  /\ \A d \in All : pc'[d] = "idle" /\ req'[d].align <= req'[d].words
           /\ pc' = [d \in All |-> "idle"]
           /\ cur' \in [All -> Addr]
           /\ ret' \in [All -> Addr \cup {Null}]
           /\ req' \in [All -> [words : Nat \ {0}, align : Nat \ {0}]]
           /\ OneAtATime'
           /\ \A d \in All : CallState(d)'
           /\ SearchSkipsNothing'
<1>1. /\ pc' = [pc EXCEPT ![c] = "idle"]
      /\ cur' = [cur EXCEPT ![c] = Base]
      /\ ret' = [ret EXCEPT ![c] = Null]
      /\ req' = [req EXCEPT ![c] = NoRequest]
  BY DEF Return
<1>2. Base \in Addr /\ NoRequest \in [words : Nat \ {0}, align : Nat \ {0}]
      /\ NoRequest.align <= NoRequest.words
  BY LayoutAssumption DEF Addr, HDR, NoRequest
<1>3. \A d \in All : pc'[d] = "idle" /\ req'[d].align <= req'[d].words
  BY <1>1, <1>2 DEF HInv, TypeOK, CallState
<1>4. /\ cur' \in [All -> Addr]
      /\ ret' \in [All -> Addr \cup {Null}]
      /\ req' \in [All -> [words : Nat \ {0}, align : Nat \ {0}]]
      /\ pc' = [d \in All |-> "idle"]
  BY <1>1, <1>2, <1>3 DEF HInv, TypeOK
<1>5. OneAtATime' /\ SearchSkipsNothing'
  BY <1>3 DEF OneAtATime, Idle, SearchSkipsNothing
<1>6. \A d \in All : CallState(d)'
  BY <1>3 DEF CallState, Idle
<1> QED BY <1>3, <1>4, <1>5, <1>6

\* Returning a block preserves the invariant: its memory is nobody else's.
LEMMA MarkUsedHInv ==
    ASSUME ~Preemptive, HInv, NEW c \in All, MarkUsed(c)
    PROVE  HInv'
<1>1. /\ mode = "ok" /\ pc[c] = "mark"
      /\ \A d \in All \ {c} : pc[d] = "idle"
  BY OthersIdle DEF MarkUsed
<1>2. PICK b : b = cur[c]
  OBVIOUS
<1>3. PICK m : m = Handed(c, Memory(b))
  OBVIOUS
<1>4. /\ b \in blocks /\ ~used[b] /\ size[b] >= req[c].words
      /\ req[c] \in [words : Nat \ {0}, align : Nat \ {0}]
  BY <1>1, <1>2 DEF HInv, CallState, Idle, TypeOK
<1>5. /\ used' = [used EXCEPT ![b] = TRUE]
      /\ owned' = owned \cup {m}
      /\ Return(c)
      /\ UNCHANGED <<blocks, next, prev, size, mode>>
  BY <1>2, <1>3, <1>4 DEF MarkUsed
<1>6. /\ \A d \in All : pc'[d] = "idle"
      /\ pc' = [d \in All |-> "idle"]
      /\ cur' \in [All -> Addr]
      /\ ret' \in [All -> Addr \cup {Null}]
      /\ req' \in [All -> [words : Nat \ {0}, align : Nat \ {0}]]
      /\ OneAtATime'
      /\ \A d \in All : CallState(d)'
      /\ SearchSkipsNothing'
  BY <1>1, <1>5, ReturnFacts
<1>7. /\ m \in [addr : Addr, by : All, words : Nat \ {0}, align : Nat \ {0}]
      /\ m.addr = Memory(b) /\ m.words = req[c].words
  BY <1>3, <1>4, MemoryFacts DEF Handed
<1>8. TypeOK'
  BY <1>5, <1>6, <1>7 DEF HInv, TypeOK
<1>9. Tiled'
  BY <1>5 DEF HInv, Tiled, NextLink, PrevLink, BlockEnd
<1>10. Header(m.addr) = b
  BY <1>4, <1>7, MemoryFacts DEF Header, Memory, HDR
<1>11. \A n \in owned : n.addr # m.addr
  BY <1>1, <1>4, <1>10 DEF HInv, OwnedIsAllocated, Allocated
<1>12. OwnedIsAllocated'
  <2>1. ASSUME NEW n \in owned'
        PROVE  /\ Header(n.addr) \in blocks'
               /\ used'[Header(n.addr)]
               /\ n.words <= size'[Header(n.addr)]
    <3>1. CASE n = m
      <4>1. used'[b] /\ b \in blocks' /\ size'[b] = size[b]
        BY <1>4, <1>5 DEF HInv, TypeOK
      <4>2. size[b] \in Nat /\ req[c].words \in Nat
        BY <1>4 DEF HInv, TypeOK
      <4> QED BY <3>1, <4>1, <4>2, <1>4, <1>7, <1>10
    <3>2. CASE n \in owned
      BY <3>2, <1>1, <1>5 DEF HInv, TypeOK, OwnedIsAllocated, Allocated
    <3> QED BY <3>1, <3>2, <1>5
  <2>2. ASSUME NEW n \in owned', NEW l \in owned', n.addr = l.addr
        PROVE  n = l
    BY <2>2, <1>1, <1>5, <1>11 DEF HInv, OwnedIsAllocated, Allocated
  <2> QED BY <2>1, <2>2 DEF OwnedIsAllocated, Allocated
<1>13. UsedOwned'
  BY <1>5, <1>7 DEF HInv, TypeOK, UsedOwned
<1>14. CoalescedOrExcused'
  <2> SUFFICES ASSUME NEW x \in blocks, next[x] # Null
               PROVE  used'[x] \/ used'[next[x]]
    BY <1>5 DEF CoalescedOrExcused
  <2>1. next[x] \in blocks
    BY DEF HInv, Tiled, NextLink
  <2>2. used'[b] /\ \A z \in blocks : used[z] => used'[z]
    BY <1>4, <1>5 DEF HInv, TypeOK
  <2>3. used[x] \/ used[next[x]] \/ x = b \/ next[x] = b
    BY <1>1, <1>2 DEF HInv, CoalescedOrExcused, Excused
  <2> QED BY <2>1, <2>2, <2>3
<1> QED BY <1>1, <1>5, <1>6, <1>8, <1>9, <1>12, <1>13, <1>14 DEF HInv

\* The start of free preserves the invariant.
LEMMA FreeHInv ==
    ASSUME ~Preemptive, HInv, NEW c \in All, NEW m \in owned, Free(c, m)
    PROVE  HInv'
<1>1. /\ mode = "ok" /\ pc[c] = "idle"
      /\ \A d \in All \ {c} : pc[d] = "idle"
  BY OthersIdle DEF Free, Idle
<1>2. PICK b : b = Header(m.addr)
  OBVIOUS
<1>3. b \in blocks /\ b \in Addr
  BY <1>1, <1>2 DEF HInv, OwnedIsAllocated, Allocated, TypeOK
<1>4. /\ owned' = owned \ {m}
      /\ used' = [used EXCEPT ![b] = FALSE]
      /\ cur' = [cur EXCEPT ![c] = b]
      /\ pc' = [pc EXCEPT ![c] = "merge_prev"]
      /\ UNCHANGED <<blocks, next, prev, size, ret, req, mode>>
  BY <1>2, <1>3 DEF Free
<1>5. TypeOK'
  BY <1>3, <1>4 DEF HInv, TypeOK
<1>6. /\ pc'[c] = "merge_prev" /\ cur'[c] = b
      /\ \A d \in All \ {c} : pc'[d] = "idle"
  BY <1>1, <1>4 DEF HInv, TypeOK
<1>7. Tiled'
  BY <1>4 DEF HInv, Tiled, NextLink, PrevLink, BlockEnd
<1>8. OneAtATime' /\ SearchSkipsNothing'
  BY <1>6 DEF OneAtATime, Idle, SearchSkipsNothing
<1>9. \A d \in All : CallState(d)'
  <2>1. ~used'[b] /\ b \in blocks'
    BY <1>3, <1>4 DEF HInv, TypeOK
  <2> QED BY <2>1, <1>4, <1>6 DEF HInv, CallState, Idle
<1>10. \A n \in owned : n.addr \in Nat
  BY LayoutAssumption DEF HInv, TypeOK, Addr
<1>11. \A n \in owned' : n \in owned /\ Header(n.addr) # b
  BY <1>1, <1>2, <1>4, <1>10 DEF HInv, OwnedIsAllocated, Allocated, Header, HDR
<1>12. OwnedIsAllocated'
  BY <1>1, <1>4, <1>11 DEF HInv, TypeOK, OwnedIsAllocated, Allocated
<1>13. UsedOwned'
  <2> SUFFICES ASSUME NEW x \in blocks, used'[x]
               PROVE  \E n \in owned' : n.addr = Memory(x)
    BY <1>4 DEF UsedOwned
  <2>1. x # b /\ used[x]
    BY <1>3, <1>4 DEF HInv, TypeOK
  <2>2. PICK n \in owned : n.addr = Memory(x)
    BY <2>1 DEF HInv, UsedOwned
  <2>3. Header(n.addr) = x
    BY <2>2, MemoryFacts DEF Header, Memory, HDR
  <2>4. n # m
    BY <2>1, <2>3, <1>2
  <2> QED BY <2>2, <2>4, <1>4
<1>14. CoalescedOrExcused'
  <2> SUFFICES ASSUME NEW x \in blocks, next[x] # Null, ~used'[x],
                      ~used'[next[x]]
               PROVE  Excused(x, next[x])'
    BY <1>4 DEF CoalescedOrExcused
  <2>1. next[x] \in blocks
    BY DEF HInv, Tiled, NextLink
  <2>2. used[x] \/ used[next[x]]
    BY <1>1 DEF HInv, CoalescedOrExcused, Excused
  <2>3. x = b \/ next[x] = b
    BY <2>1, <2>2, <1>4 DEF HInv, TypeOK
  <2> QED BY <2>3, <1>4, <1>6 DEF Excused
<1> QED BY <1>1, <1>4, <1>5, <1>7, <1>8, <1>9, <1>12, <1>13, <1>14 DEF HInv

\* Merging two free blocks keeps every piece of memory that callers hold in
\* a used block of its own.
LEMMA MergeOwned ==
    ASSUME HInv, NEW a \in blocks, NEW b, b = next[a], b # Null,
           ~used[a], ~used[b], Merge(a, b), UNCHANGED owned,
           mode = "ok"
    PROVE  OwnedIsAllocated' /\ UsedOwned'
<1>1. HeapType /\ Tiled
  BY DEF HInv, TypeOK, HeapType
<1>2. /\ b \in blocks
      /\ blocks' = blocks \ {b}
      /\ used' = [x \in blocks' |-> used[x]]
      /\ \A x \in blocks' \ {a} : size'[x] = size[x]
  BY <1>1, MergeTiled
<1>3. \A x \in blocks : used[x] => x \in blocks' /\ used'[x] /\ size'[x] = size[x]
  BY <1>2
<1>4. OwnedIsAllocated'
  BY <1>3 DEF HInv, OwnedIsAllocated, Allocated
<1>5. UsedOwned'
  BY <1>2 DEF HInv, UsedOwned
<1> QED BY <1>4, <1>5

\* Merging with the predecessor preserves the invariant.
LEMMA MergePrevHInv ==
    ASSUME ~Preemptive, HInv, NEW c \in All, MergePrev(c)
    PROVE  HInv'
<1>1. /\ mode = "ok" /\ pc[c] = "merge_prev"
      /\ \A d \in All \ {c} : pc[d] = "idle"
  BY OthersIdle DEF MergePrev
<1>2. PICK b : b = cur[c]
  OBVIOUS
<1>3. PICK a : a = prev[b]
  OBVIOUS
<1>4. b \in blocks /\ ~used[b]
  BY <1>1, <1>2 DEF HInv, CallState, Idle
<1>5. HeapType /\ Tiled
  BY DEF HInv, TypeOK, HeapType
<1>6. a # Null => a \in blocks /\ next[a] = b
  BY <1>3, <1>4, <1>5 DEF Tiled, PrevLink
<1>7. /\ IF a # Null /\ ~used[a]
         THEN Merge(a, b) /\ cur' = [cur EXCEPT ![c] = a]
         ELSE UNCHANGED <<heapVars, cur>>
      /\ pc' = [pc EXCEPT ![c] = "merge_next"]
      /\ UNCHANGED <<ret, req, owned, mode>>
  BY <1>2, <1>3, <1>4, <1>6 DEF MergePrev, IsContiguous
<1>8. /\ pc'[c] = "merge_next"
      /\ \A d \in All \ {c} : pc'[d] = "idle"
  BY <1>1, <1>7 DEF HInv, TypeOK
<1>9. OneAtATime' /\ SearchSkipsNothing'
  BY <1>8 DEF OneAtATime, Idle, SearchSkipsNothing
<1>10. \A z \in blocks : next[z] # Null => next[z] \in blocks /\ prev[next[z]] = z
  BY <1>5 DEF Tiled, NextLink
<1>11. \A z \in blocks : next[z] # Null /\ ~used[z] /\ ~used[next[z]] =>
          next[z] = b \/ z = b
  BY <1>1, <1>2 DEF HInv, CoalescedOrExcused, Excused
<1>12. CASE a # Null /\ ~used[a]
  <2>1. /\ Merge(a, b)
        /\ cur' = [cur EXCEPT ![c] = a]
        /\ b # Null /\ a \in blocks /\ b = next[a]
    BY <1>4, <1>6, <1>7, <1>12, MemoryFacts
  <2>2. /\ HeapType' /\ Tiled'
        /\ a < b
        /\ blocks' = blocks \ {b}
        /\ next' = [x \in blocks' |-> IF x = a THEN next[b] ELSE next[x]]
        /\ prev' = [x \in blocks' |-> IF x = next[b] THEN a ELSE prev[x]]
        /\ used' = [x \in blocks' |-> used[x]]
    BY <2>1, <1>5, MergeTiled
  <2>3. a # b /\ a \in blocks'
    BY <2>1, <2>2, <1>4, MemoryFacts
  <2>4. TypeOK'
    BY <2>1, <2>2, <2>3, <1>7 DEF HInv, TypeOK, HeapType
  <2>5. cur'[c] = a
    BY <2>1 DEF HInv, TypeOK
  <2>6. prev'[a] = Null \/ used'[prev'[a]]
    <3>1. SUFFICES ASSUME prev'[a] # Null PROVE used'[prev'[a]]
      OBVIOUS
    <3>2. PrevLink(a)'
      BY <2>2, <2>3 DEF Tiled
    <3>3. prev'[a] \in blocks' /\ next'[prev'[a]] = a
      BY <3>1, <3>2 DEF PrevLink
    <3>4. prev'[a] # a
      <4>1. prev'[a] = a => next'[a] = a
        BY <3>3
      <4>2. next'[a] = next[b]
        BY <2>2, <2>3
      <4>3. next[b] # a
        <5>1. SUFFICES ASSUME next[b] = a PROVE FALSE
          OBVIOUS
        <5>2. a = BlockEnd(b) /\ b \in Nat /\ size[b] \in Nat /\ a \in Nat
          BY <5>1, <2>1, <1>4, <1>5, MemoryFacts DEF Tiled, NextLink
        <5> QED BY <5>2, <2>2 DEF BlockEnd, Memory, HDR
      <4> QED BY <4>1, <4>2, <4>3
    <3>5. prev'[a] \in blocks /\ next[prev'[a]] = a
      BY <3>3, <3>4, <2>2
    <3>6. used[prev'[a]]
      BY <3>3, <3>5, <2>1, <2>2, <2>3, <1>11, <1>12
    <3> QED BY <3>3, <3>6, <2>2
  <2>7. \A d \in All : CallState(d)'
    <3>1. ~used'[a]
      BY <2>2, <2>3, <1>12
    <3> QED BY <3>1, <2>3, <2>5, <2>6, <1>7, <1>8 DEF HInv, CallState, Idle
  <2>8. OwnedIsAllocated' /\ UsedOwned'
    BY <2>1, <1>1, <1>4, <1>7, <1>12, MergeOwned
  <2>9. CoalescedOrExcused'
    <3> SUFFICES ASSUME NEW x \in blocks', next'[x] # Null, ~used'[x],
                        ~used'[next'[x]]
                 PROVE  Excused(x, next[x])'
      BY DEF CoalescedOrExcused
    <3>1. CASE x = a
      BY <3>1, <2>5, <1>8 DEF Excused
    <3>2. CASE x # a
      <4>1. x \in blocks /\ x # b /\ next'[x] = next[x] /\ ~used[x]
        BY <3>2, <2>2
      <4>2. next[x] \in blocks /\ prev[next[x]] = x
        BY <4>1, <1>10
      <4>3. next[x] # b
        BY <4>2, <3>2, <1>3
      <4>4. ~used[next[x]]
        BY <4>1, <4>2, <4>3, <2>2
      <4> QED BY <4>1, <4>3, <4>4, <1>11
    <3> QED BY <3>1, <3>2
  <2> QED BY <1>1, <1>7, <1>9, <2>2, <2>4, <2>7, <2>8, <2>9 DEF HInv
<1>13. CASE a = Null \/ used[a]
  <2>1. UNCHANGED <<blocks, next, prev, size, used, cur>>
    BY <1>7, <1>13 DEF heapVars
  <2>2. TypeOK'
    BY <1>7, <2>1 DEF HInv, TypeOK
  <2>3. Tiled'
    BY <2>1 DEF HInv, Tiled, NextLink, PrevLink, BlockEnd
  <2>4. \A d \in All : CallState(d)'
    BY <2>1, <1>2, <1>3, <1>4, <1>7, <1>8, <1>13 DEF HInv, CallState, Idle
  <2>5. OwnedIsAllocated' /\ UsedOwned'
    BY <1>7, <2>1 DEF HInv, OwnedIsAllocated, Allocated, UsedOwned
  <2>6. CoalescedOrExcused'
    <3> SUFFICES ASSUME NEW x \in blocks, next[x] # Null, ~used[x],
                        ~used[next[x]]
                 PROVE  Excused(x, next[x])'
      BY <2>1 DEF CoalescedOrExcused
    <3>1. next[x] # b
      BY <1>3, <1>10, <1>13, MemoryFacts
    <3>2. x = b
      BY <3>1, <1>11
    <3> QED BY <3>2, <2>1, <1>2, <1>8 DEF Excused
  <2> QED BY <1>1, <1>7, <1>9, <2>2, <2>3, <2>4, <2>5, <2>6 DEF HInv
<1> QED BY <1>12, <1>13

\* Merging with the successor preserves the invariant.
LEMMA MergeNextHInv ==
    ASSUME ~Preemptive, HInv, NEW c \in All, MergeNext(c)
    PROVE  HInv'
<1>1. /\ mode = "ok" /\ pc[c] = "merge_next"
      /\ \A d \in All \ {c} : pc[d] = "idle"
  BY OthersIdle DEF MergeNext
<1>2. PICK a : a = cur[c]
  OBVIOUS
<1>3. PICK b : b = next[a]
  OBVIOUS
<1>4. /\ a \in blocks /\ ~used[a]
      /\ prev[a] = Null \/ used[prev[a]]
  BY <1>1, <1>2 DEF HInv, CallState, Idle
<1>5. HeapType /\ Tiled
  BY DEF HInv, TypeOK, HeapType
<1>6. b # Null => b \in blocks /\ prev[b] = a
  BY <1>3, <1>4, <1>5 DEF Tiled, NextLink
<1>7. /\ IF b # Null /\ ~used[b] THEN Merge(a, b) ELSE UNCHANGED heapVars
      /\ Return(c)
      /\ UNCHANGED <<owned, mode>>
  BY <1>2, <1>3, <1>4, <1>6 DEF MergeNext, IsContiguous
<1>8. /\ \A d \in All : pc'[d] = "idle"
      /\ pc' = [d \in All |-> "idle"]
      /\ cur' \in [All -> Addr]
      /\ ret' \in [All -> Addr \cup {Null}]
      /\ req' \in [All -> [words : Nat \ {0}, align : Nat \ {0}]]
      /\ OneAtATime'
      /\ \A d \in All : CallState(d)'
      /\ SearchSkipsNothing'
  BY <1>1, <1>7, ReturnFacts
<1>9. \A z \in blocks : next[z] # Null => next[z] \in blocks /\ prev[next[z]] = z
  BY <1>5 DEF Tiled, NextLink
<1>10. \A z \in blocks : next[z] # Null /\ ~used[z] /\ ~used[next[z]] => z = a
  BY <1>1, <1>2 DEF HInv, CoalescedOrExcused, Excused
<1>11. CASE b # Null /\ ~used[b]
  <2>1. Merge(a, b)
    BY <1>7, <1>11
  <2>2. /\ HeapType' /\ Tiled'
        /\ b \in blocks /\ a < b
        /\ blocks' = blocks \ {b}
        /\ next' = [x \in blocks' |-> IF x = a THEN next[b] ELSE next[x]]
        /\ used' = [x \in blocks' |-> used[x]]
    BY <2>1, <1>3, <1>4, <1>5, <1>11, MergeTiled
  <2>3. TypeOK'
    BY <2>2, <1>7, <1>8 DEF HInv, TypeOK, HeapType
  <2>4. OwnedIsAllocated' /\ UsedOwned'
    BY <2>1, <1>1, <1>3, <1>4, <1>7, <1>11, MergeOwned
  <2>5. CoalescedOrExcused'
    <3> SUFFICES ASSUME NEW x \in blocks', next'[x] # Null, ~used'[x],
                        ~used'[next'[x]]
                 PROVE  FALSE
      BY DEF CoalescedOrExcused
    <3>1. NextLink(x)'
      BY <2>2 DEF Tiled
    <3>2. next'[x] \in blocks'
      BY <3>1 DEF NextLink
    <3>3. CASE x = a
      <4>1. next[b] # Null /\ ~used[b] /\ ~used[next[b]] /\ b # a
        BY <3>2, <3>3, <2>2, <1>4, <1>11, MemoryFacts
      <4> QED BY <4>1, <2>2, <1>10
    <3>4. CASE x # a
      BY <3>2, <3>4, <2>2, <1>10
    <3> QED BY <3>3, <3>4
  <2> QED BY <1>1, <1>7, <1>8, <2>2, <2>3, <2>4, <2>5 DEF HInv
<1>12. CASE b = Null \/ used[b]
  <2>1. UNCHANGED <<blocks, next, prev, size, used>>
    BY <1>7, <1>12 DEF heapVars
  <2>2. TypeOK'
    BY <1>7, <1>8, <2>1 DEF HInv, TypeOK
  <2>3. Tiled'
    BY <2>1 DEF HInv, Tiled, NextLink, PrevLink, BlockEnd
  <2>4. OwnedIsAllocated' /\ UsedOwned'
    BY <1>7, <2>1 DEF HInv, OwnedIsAllocated, Allocated, UsedOwned
  <2>5. CoalescedOrExcused'
    BY <2>1, <1>3, <1>10, <1>12 DEF CoalescedOrExcused
  <2> QED BY <1>1, <1>7, <1>8, <2>2, <2>3, <2>4, <2>5 DEF HInv
<1> QED BY <1>11, <1>12

\* When operations do not overlap, every step preserves the invariant.
LEMMA StepHInv ==
    ASSUME ~Preemptive, HInv, [Next]_vars
    PROVE  HInv'
<1>1. ASSUME NEW c \in All, NEW r \in Requests \cup IrqRequests, Allocate(c, r)
      PROVE  HInv'
  BY <1>1, AllocateHInv
<1>2. ASSUME NEW c \in All, Check(c) PROVE HInv'
  BY <1>2, CheckHInv
<1>3. ASSUME NEW c \in All, SplitFront(c) PROVE HInv'
  BY <1>3, SplitFrontHInv
<1>4. ASSUME NEW c \in All, SplitRest(c) PROVE HInv'
  BY <1>4, SplitRestHInv
<1>5. ASSUME NEW c \in All, MarkUsed(c) PROVE HInv'
  BY <1>5, MarkUsedHInv
<1>6. ASSUME NEW c \in All, NEW m \in owned, Free(c, m) PROVE HInv'
  BY <1>6, FreeHInv
<1>7. ASSUME NEW c \in All, MergePrev(c) PROVE HInv'
  BY <1>7, MergePrevHInv
<1>8. ASSUME NEW c \in All, MergeNext(c) PROVE HInv'
  BY <1>8, MergeNextHInv
<1>9. CASE UNCHANGED vars
  <2>1. UNCHANGED <<blocks, next, prev, size, used, pc, cur, ret, req, owned, mode>>
    BY <1>9 DEF vars, heapVars, localVars
  <2>2. TypeOK' /\ Tiled' /\ OneAtATime' /\ OwnedIsAllocated' /\ UsedOwned'
    BY <2>1 DEF HInv, TypeOK, Tiled, NextLink, PrevLink, BlockEnd, OneAtATime,
                Idle, OwnedIsAllocated, Allocated, UsedOwned
  <2>3. \A c \in All : CallState(c)'
    BY <2>1 DEF HInv, CallState, Idle, FitsBehind, Fits
  <2>4. CoalescedOrExcused' /\ SearchSkipsNothing' /\ mode' # "corrupt"
    BY <2>1 DEF HInv, CoalescedOrExcused, Excused, SearchSkipsNothing,
                FitsAtStart, FitsBehind, Fits
  <2> QED BY <2>2, <2>3, <2>4 DEF HInv
<1> QED BY <1>1, <1>2, <1>3, <1>4, <1>5, <1>6, <1>7, <1>8, <1>9 DEF Next

\* The inductive invariant holds when operations do not overlap.
THEOREM HeapInductive == ~Preemptive => (Spec => []HInv)
<1> SUFFICES ASSUME ~Preemptive PROVE Spec => []HInv
  OBVIOUS
<1>1. Init => HInv
  BY InitHInv
<1>2. HInv /\ [Next]_vars => HInv'
  BY StepHInv
<1> QED BY <1>1, <1>2, PTL DEF Spec

\* No sequence of calls of allocate and free breaks the block list: the
\* headers tile the heap, for every size of the heap and all requests.
THEOREM HeapTiled == ~Preemptive => (Spec => []Tiled)
<1>1. HInv => Tiled
  BY DEF HInv
<1> QED BY <1>1, HeapInductive, PTL

\* Every piece of memory a caller holds has a used block of its own, large
\* enough for it, until allocate returns an address that it did not allocate.
THEOREM AllocationsSound == ~Preemptive => (Spec => []OwnedIsAllocated)
<1>1. HInv => OwnedIsAllocated
  BY DEF HInv
<1> QED BY <1>1, HeapInductive, PTL

\* No block is lost: outside of a call of allocate or free a used block is
\* one that a caller holds and can free.
THEOREM NoBlockLost == ~Preemptive => (Spec => []UsedIsOwned)
<1>1. HInv => UsedIsOwned
  BY DEF HInv, UsedOwned, UsedIsOwned
<1> QED BY <1>1, HeapInductive, PTL

\* free always finds its neighbours: between calls no two neighbouring
\* blocks are free.
THEOREM FreeBlocksCoalesced == ~Preemptive => (Spec => []Coalesced)
<1>1. HInv => Coalesced
  <2> SUFFICES ASSUME HInv, \A c \in All : Idle(c),
                      NEW b \in blocks, next[b] # Null
               PROVE  used[b] \/ used[next[b]]
    BY DEF Coalesced
  <2> QED BY DEF HInv, CoalescedOrExcused, Excused, Idle
<1> QED BY <1>1, HeapInductive, PTL

\* The search is first fit and complete.
THEOREM SearchComplete == ~Preemptive => (Spec => []SearchSkipsNothing)
<1>1. HInv => SearchSkipsNothing
  BY DEF HInv
<1> QED BY <1>1, HeapInductive, PTL
-----------------------------------------------------------------------------
(***************************************************************************)
(* Alignment.  The block that allocate settles on is aligned from the end  *)
(* of the search on: either it was found so, or the split in front of it   *)
(* made it so.                                                             *)
(***************************************************************************)

\* Division with remainder by a variable divisor.
LEMMA DivMod ==
    ASSUME NEW a \in Nat, NEW n \in Nat \ {0}
    PROVE  /\ a = (n * (a \div n)) + (a % n)
           /\ a % n \in 0..(n - 1)
           /\ a \div n \in Nat
  OBVIOUS

\* A multiple leaves no remainder.
LEMMA MultipleMod ==
    ASSUME NEW n \in Nat \ {0}, NEW q \in Nat
    PROVE  (n * q) % n = 0
  OBVIOUS

\* A number below the divisor is its own remainder.
LEMMA SmallMod ==
    ASSUME NEW n \in Nat \ {0}, NEW r \in 0..(n - 1)
    PROVE  r % n = r
  OBVIOUS

\* The offset leads to a multiple of the alignment, and is 0 only there.
LEMMA OffsetAligns ==
    ASSUME NEW a \in Nat, NEW n \in Nat \ {0}
    PROVE  /\ (a + AlignOffset(a, n)) % n = 0
           /\ AlignOffset(a, n) = 0 => a % n = 0
<1> DEFINE q == a \div n
<1> DEFINE r == a % n
<1>1. a = (n * q) + r /\ r \in 0..(n - 1) /\ q \in Nat
  BY DivMod
<1>2. CASE r = 0
  <2>1. AlignOffset(a, n) = 0
    BY <1>2 DEF AlignOffset
  <2> QED BY <1>2, <2>1
<1>3. CASE r # 0
  <2>1. n - r \in 0..(n - 1) /\ n - r # 0
    BY <1>1, <1>3
  <2>2. AlignOffset(a, n) = n - r
    BY <2>1, SmallMod DEF AlignOffset
  <2>3. a + (n - r) = n * (q + 1)
    <3> HIDE DEF q, r
    <3> QED BY <1>1
  <2>4. (n * (q + 1)) % n = 0
    BY <1>1, MultipleMod
  <2> QED BY <2>1, <2>2, <2>3, <2>4
<1> QED BY <1>2, <1>3

\* The block of a call that has ended its search is aligned.
BlockAligned(c) ==
    pc[c] \in {"split", "mark"} => Memory(cur[c]) % req[c].align = 0

AlignedInv == OwnedIsAligned /\ \A c \in All : BlockAligned(c)

\* A context that leaves the search or is not in its last part, and changes
\* its own locals only, keeps the invariant.
LEMMA OthersAligned ==
    ASSUME AlignedInv, NEW c \in All, OwnedIsAligned', BlockAligned(c)',
           \A d \in All \ {c} : /\ pc'[d] = pc[d]
                                /\ cur'[d] = cur[d]
                                /\ req'[d] = req[d]
    PROVE  AlignedInv'
<1>1. ASSUME NEW d \in All \ {c} PROVE BlockAligned(d)'
  BY DEF AlignedInv, BlockAligned, Memory
<1> QED BY <1>1 DEF AlignedInv

LEMMA CheckAligned ==
    ASSUME HInv, AlignedInv, NEW c \in All, Check(c)
    PROVE  AlignedInv'
<1>1. OwnedIsAligned'
  <2>1. mode = "ok" /\ (mode' = "ok" => owned' = owned)
    BY DEF Check, MayStep, Corrupt
  <2> QED BY <2>1 DEF AlignedInv, OwnedIsAligned
<1>2. \A d \in All \ {c} : pc'[d] = pc[d] /\ cur'[d] = cur[d] /\ req'[d] = req[d]
  BY DEF HInv, TypeOK, Check, Corrupt, Return, localVars
<1>3. BlockAligned(c)'
  <2>1. pc[c] = "check"
    BY DEF Check
  <2>2. CASE pc'[c] \notin {"split", "mark"}
    BY <2>2 DEF BlockAligned
  <2>3. CASE pc'[c] \in {"split", "mark"}
    <3>1. cur' = cur /\ req' = req /\ cur[c] \in blocks
          /\ FitsAtStart(cur[c], req[c])
      BY <2>1, <2>3 DEF HInv, TypeOK, Check, Corrupt, Return, localVars
    <3>2. Memory(cur[c]) \in Nat /\ req[c].align \in Nat \ {0}
      BY <3>1, MemoryFacts DEF HInv, TypeOK
    <3>3. Memory(cur[c]) % req[c].align = 0
      BY <3>1, <3>2, OffsetAligns DEF FitsAtStart
    <3> QED BY <3>1, <3>3 DEF BlockAligned, Memory
  <2> QED BY <2>2, <2>3
<1> QED BY <1>1, <1>2, <1>3, OthersAligned

LEMMA SplitFrontAligned ==
    ASSUME HInv, AlignedInv, NEW c \in All, SplitFront(c)
    PROVE  AlignedInv'
<1>1. OwnedIsAligned'
  BY DEF AlignedInv, OwnedIsAligned, SplitFront, Corrupt
<1>2. \A d \in All \ {c} : pc'[d] = pc[d] /\ cur'[d] = cur[d] /\ req'[d] = req[d]
  BY DEF HInv, TypeOK, SplitFront, Corrupt, localVars
<1>3. BlockAligned(c)'
  <2>1. pc[c] = "front"
    BY DEF SplitFront
  <2>2. CASE pc'[c] \notin {"split", "mark"}
    BY <2>2 DEF BlockAligned
  <2>3. CASE pc'[c] \in {"split", "mark"}
    <3> DEFINE a == Memory(cur[c])
    <3> DEFINE n == req[c].align
    <3>1. req' = req /\ cur[c] \in blocks
          /\ cur' = [cur EXCEPT ![c] = a + (AlignOffset(a, n) - HDR)]
      BY <2>1, <2>3 DEF SplitFront, Corrupt, localVars
    <3>2. a \in Nat /\ n \in Nat \ {0}
      BY <3>1, MemoryFacts DEF HInv, TypeOK
    <3>3. AlignOffset(a, n) \in Nat
      BY <3>2, AlignOffsetType
    <3>4. cur'[c] = a + (AlignOffset(a, n) - HDR)
      BY <3>1 DEF HInv, TypeOK
    <3>5. Memory(cur'[c]) = a + AlignOffset(a, n)
      <4> HIDE DEF a, n
      <4> QED BY <3>2, <3>3, <3>4 DEF Memory, HDR
    <3>6. (a + AlignOffset(a, n)) % n = 0
      BY <3>2, OffsetAligns
    <3> QED BY <3>1, <3>5, <3>6 DEF BlockAligned, Memory
  <2> QED BY <2>2, <2>3
<1> QED BY <1>1, <1>2, <1>3, OthersAligned

LEMMA SplitRestAligned ==
    ASSUME HInv, AlignedInv, NEW c \in All, SplitRest(c)
    PROVE  AlignedInv'
<1>1. OwnedIsAligned'
  BY DEF AlignedInv, OwnedIsAligned, SplitRest, Corrupt
<1>2. /\ pc[c] = "split" /\ cur' = cur /\ req' = req
      /\ \A d \in All \ {c} : pc'[d] = pc[d]
  BY DEF HInv, TypeOK, SplitRest, Corrupt, localVars
<1>3. BlockAligned(c)'
  BY <1>2 DEF AlignedInv, BlockAligned, Memory
<1> QED BY <1>1, <1>2, <1>3, OthersAligned

LEMMA MarkUsedAligned ==
    ASSUME HInv, AlignedInv, NEW c \in All, MarkUsed(c)
    PROVE  AlignedInv'
<1>1. pc[c] = "mark" /\ Memory(cur[c]) % req[c].align = 0
  BY DEF MarkUsed, AlignedInv, BlockAligned
<1>2. CASE Corrupt
  BY <1>2 DEF Corrupt, AlignedInv, OwnedIsAligned, BlockAligned, localVars, Memory
<1>3. CASE ~Corrupt
  <2>1. /\ mode = "ok"
        /\ owned' = owned \cup {[addr |-> Memory(cur[c]), by |-> c,
                                 words |-> req[c].words,
                                 align |-> req[c].align]}
        /\ Return(c)
    BY <1>3 DEF MarkUsed, MayStep, Handed
  <2>2. OwnedIsAligned'
    BY <2>1, <1>1 DEF AlignedInv, OwnedIsAligned
  <2>3. BlockAligned(c)'
    BY <2>1 DEF Return, BlockAligned, HInv, TypeOK
  <2>4. \A d \in All \ {c} : pc'[d] = pc[d] /\ cur'[d] = cur[d] /\ req'[d] = req[d]
    BY <2>1 DEF Return, HInv, TypeOK
  <2> QED BY <2>2, <2>3, <2>4, OthersAligned
<1> QED BY <1>2, <1>3

\* The steps of free, and the first one of allocate, leave the context in a
\* part of its call that says nothing of alignment.
LEMMA OtherStepAligned ==
    ASSUME HInv, AlignedInv, NEW c \in All,
           \/ \E r \in Requests \cup IrqRequests : Allocate(c, r)
           \/ \E m \in owned : Free(c, m)
           \/ MergePrev(c)
           \/ MergeNext(c)
    PROVE  AlignedInv'
<1>1. mode = "ok" /\ owned' \subseteq owned
  BY DEF Allocate, Free, MergePrev, MergeNext, MayStep, Corrupt, Return
<1>2. OwnedIsAligned'
  BY <1>1 DEF AlignedInv, OwnedIsAligned
<1>3. CASE Corrupt
  BY <1>2, <1>3 DEF Corrupt, AlignedInv, BlockAligned, localVars, Memory
<1>4. CASE ~Corrupt
  <2>1. pc'[c] \notin {"split", "mark"}
    BY <1>4 DEF Allocate, Free, MergePrev, MergeNext, Return, HInv, TypeOK
  <2>2. \A d \in All \ {c} : pc'[d] = pc[d] /\ cur'[d] = cur[d] /\ req'[d] = req[d]
    BY <1>4 DEF Allocate, Free, MergePrev, MergeNext, Return, HInv, TypeOK
  <2> QED BY <2>1, <2>2, <1>2, OthersAligned DEF BlockAligned
<1> QED BY <1>3, <1>4

\* Memory is aligned as its caller asked, for every alignment and every
\* heap, whether or not the alignment is a power of two, until allocate
\* returns an address that it did not allocate.
THEOREM AllocationsAligned == ~Preemptive => (Spec => []OwnedIsAligned)
<1> SUFFICES ASSUME ~Preemptive PROVE Spec => []OwnedIsAligned
  OBVIOUS
<1>1. Init => AlignedInv
  BY DEF Init, AlignedInv, OwnedIsAligned, BlockAligned
<1>2. HInv /\ AlignedInv /\ [Next]_vars => AlignedInv'
  <2> SUFFICES ASSUME HInv, AlignedInv, [Next]_vars PROVE AlignedInv'
    OBVIOUS
  <2>1. CASE UNCHANGED vars
    BY <2>1 DEF vars, localVars, AlignedInv, OwnedIsAligned, BlockAligned, Memory
  <2>2. ASSUME NEW c \in All, Check(c) \/ SplitFront(c) \/ SplitRest(c) \/ MarkUsed(c)
        PROVE  AlignedInv'
    BY <2>2, CheckAligned, SplitFrontAligned, SplitRestAligned, MarkUsedAligned
  <2>3. ASSUME NEW c \in All, NEW r \in Requests \cup IrqRequests, Allocate(c, r)
        PROVE  AlignedInv'
    BY <2>3, OtherStepAligned
  <2>4. ASSUME NEW c \in All, (\E m \in owned : Free(c, m)) \/ MergePrev(c) \/ MergeNext(c)
        PROVE  AlignedInv'
    BY <2>4, OtherStepAligned
  <2> QED BY <2>1, <2>2, <2>3, <2>4 DEF Next
<1>3. AlignedInv => OwnedIsAligned
  BY DEF AlignedInv
<1> QED BY <1>1, <1>2, <1>3, HeapInductive, PTL DEF Spec
-----------------------------------------------------------------------------
(***************************************************************************)
(* The default alignment.  Every block that is large enough can be used    *)
(* from its start, so that return_address is null for as long as the       *)
(* search goes on, and no address is returned that was not allocated.      *)
(***************************************************************************)

\* Every request has the default alignment of one word.
DefaultRequests == \A r \in Requests \cup IrqRequests : r.align = 1

SearchingInv ==
    /\ mode # "bogus"
    /\ \A c \in All : /\ req[c].align = 1
                      /\ pc[c] = "check" => ret[c] = Null

\* Every address is a multiple of one word.
LEMMA NoOffset ==
    ASSUME NEW a \in Nat
    PROVE  AlignOffset(a, 1) = 0
<1>1. AlignOffset(a, 1) \in Nat /\ AlignOffset(a, 1) < 1
  BY AlignOffsetType
<1> QED BY <1>1

LEMMA CheckSearching ==
    ASSUME HInv, SearchingInv, NEW c \in All, Check(c)
    PROVE  SearchingInv'
<1>1. PICK b : b = cur[c]
  OBVIOUS
<1>2. PICK r : r = req[c]
  OBVIOUS
<1>3. pc[c] = "check" /\ mode = "ok" /\ b \in blocks
  BY <1>1 DEF Check, MayStep, HInv, CallState, Idle
<1>4. r.align = 1 /\ ret[c] = Null
  BY <1>2, <1>3 DEF SearchingInv
<1>5. Fits(b, r) => FitsAtStart(b, r)
  BY <1>3, <1>4, MemoryFacts, NoOffset DEF FitsAtStart
<1>6. CASE FitsAtStart(b, r)
  <2>1. \E address :
          /\ pc' = [pc EXCEPT ![c] = "split"]
          /\ ret' = [ret EXCEPT ![c] = address]
          /\ UNCHANGED <<cur, req, owned, mode>>
    BY <1>1, <1>2, <1>3, <1>6, AtStartOrBehind DEF Check
  <2> QED BY <2>1 DEF SearchingInv, HInv, TypeOK
<1>7. CASE ~FitsAtStart(b, r)
  <2>1. ~Fits(b, r) /\ ~FitsBehind(b, r)
    BY <1>5, <1>7 DEF FitsBehind
  <2>2. CASE LastBlock(b)
    <3>1. Return(c) /\ UNCHANGED mode
      BY <1>1, <1>2, <1>3, <1>4, <1>7, <2>1, <2>2 DEF Check
    <3> QED BY <3>1 DEF Return, NoRequest, SearchingInv, HInv, TypeOK
  <2>3. CASE ~LastBlock(b)
    <3>1. ret' = [ret EXCEPT ![c] = Null] /\ UNCHANGED <<pc, req, mode>>
      BY <1>1, <1>2, <1>3, <1>4, <1>7, <2>1, <2>3 DEF Check
    <3> QED BY <3>1 DEF SearchingInv, HInv, TypeOK
  <2> QED BY <2>2, <2>3
<1> QED BY <1>6, <1>7

\* The other steps start a search with a null address, or are not part of it.
LEMMA OtherSearching ==
    ASSUME DefaultRequests, HInv, SearchingInv, NEW c \in All,
           \/ \E r \in Requests \cup IrqRequests : Allocate(c, r)
           \/ SplitFront(c)
           \/ SplitRest(c)
           \/ MarkUsed(c)
           \/ \E m \in owned : Free(c, m)
           \/ MergePrev(c)
           \/ MergeNext(c)
    PROVE  SearchingInv'
<1>1. CASE Corrupt
  BY <1>1 DEF Corrupt, localVars, SearchingInv
<1>2. ASSUME NEW r \in Requests \cup IrqRequests, Allocate(c, r)
      PROVE  SearchingInv'
  BY <1>2 DEF Allocate, DefaultRequests, SearchingInv, HInv, TypeOK
<1>3. CASE ~Corrupt /\ \/ SplitFront(c) \/ SplitRest(c) \/ MergePrev(c)
                       \/ \E m \in owned : Free(c, m)
  <2>1. /\ \E label \in {"split", "mark", "merge_prev", "merge_next"} :
              pc' = [pc EXCEPT ![c] = label]
        /\ UNCHANGED <<ret, req, mode>>
    BY <1>3 DEF SplitFront, SplitRest, MergePrev, Free
  <2> QED BY <2>1 DEF SearchingInv, HInv, TypeOK
<1>4. CASE ~Corrupt /\ (MarkUsed(c) \/ MergeNext(c))
  <2>1. Return(c) /\ UNCHANGED mode
    BY <1>4 DEF MarkUsed, MergeNext
  <2> QED BY <2>1 DEF Return, NoRequest, SearchingInv, HInv, TypeOK
<1> QED BY <1>1, <1>2, <1>3, <1>4

\* With the default alignment, which is that of every call of new without an
\* alignment, allocate keeps the promise of mm.h: for every heap and all sizes
\* of requests it returns null or an aligned block of the caller's own.
THEOREM DefaultAlignmentKept ==
    ~Preemptive /\ DefaultRequests => (Spec => []AllocatedOrNull)
<1> SUFFICES ASSUME ~Preemptive, DefaultRequests PROVE Spec => []AllocatedOrNull
  OBVIOUS
<1>1. Init => SearchingInv
  BY DEF Init, NoRequest, SearchingInv
<1>2. HInv /\ SearchingInv /\ [Next]_vars => SearchingInv'
  <2> SUFFICES ASSUME HInv, SearchingInv, [Next]_vars PROVE SearchingInv'
    OBVIOUS
  <2>1. CASE UNCHANGED vars
    BY <2>1 DEF vars, localVars, SearchingInv
  <2>2. ASSUME NEW c \in All, Check(c) PROVE SearchingInv'
    BY <2>2, CheckSearching
  <2>3. ASSUME NEW c \in All, NEW r \in Requests \cup IrqRequests, Allocate(c, r)
        PROVE  SearchingInv'
    BY <2>3, OtherSearching
  <2>4. ASSUME NEW c \in All,
               \/ SplitFront(c) \/ SplitRest(c) \/ MarkUsed(c)
               \/ (\E m \in owned : Free(c, m)) \/ MergePrev(c) \/ MergeNext(c)
        PROVE  SearchingInv'
    BY <2>4, OtherSearching
  <2> QED BY <2>1, <2>2, <2>3, <2>4 DEF Next
<1>3. HInv /\ SearchingInv /\ OwnedIsAligned => AllocatedOrNull
  BY DEF HInv, TypeOK, SearchingInv, OwnedIsAllocated, OwnedIsAligned,
         AllocatedOrNull
<1> QED BY <1>1, <1>2, <1>3, HeapInductive, AllocationsAligned, PTL DEF Spec
=============================================================================
