-------------------------------- MODULE Heap --------------------------------
(***************************************************************************)
(* The kernel heap of mm.cpp: a doubly linked list of block headers, first *)
(* fit allocation with alignment, splitting, and merging on free.          *)
(*                                                                         *)
(* Addresses and sizes count 4-byte words: allocate rounds every size up   *)
(* to whole words, and every address it computes with is a multiple of 4.  *)
(* An operation is a sequence of steps, one for each place where another   *)
(* context could see a different heap: nothing in mm.cpp masks interrupts, *)
(* and each timer tick allocates and frees queue nodes (kqueue::push_back  *)
(* and pop_front, called by scheduler::interrupt).                         *)
(***************************************************************************)
EXTENDS Integers, FiniteSets

CONSTANTS
    Contexts,    \* the threads that use new and delete
    Irq,         \* the interrupt handler, a context of its own
    Requests,    \* [words, align]: the pairs of arguments of allocate
    IrqRequests, \* those of the interrupt handler
    Base,        \* the address of first_block
    End,         \* kernel_dataspace_end
    Preemptive,  \* TRUE: threads are preempted; FALSE: operations never overlap
    MaxOwned     \* bound: allocations that are live at the same time

\* sizeof(block): two pointers, a size and a padded bool.
HDR == 4

\* 2^32 bytes of address space, in words.
WordSpan == 1073741824

All == Contexts \cup {Irq}

ASSUME LayoutAssumption ==
    /\ Base \in Nat \ {0}
    /\ End \in Nat
    /\ Base + HDR < End
    /\ End < WordSpan

\* Every call of new with an alignment, in the kernel, asks for at least as
\* much memory as the alignment: see the operators new (mm.cpp:281), page
\* tables (1024 bytes at 1024), translation tables and stacks.
ASSUME RequestsAssumption ==
    \A r \in Requests \cup IrqRequests :
        /\ r \in [words : Nat \ {0}, align : Nat \ {0}]
        /\ r.align <= r.words

ASSUME ContextsAssumption ==
    /\ Irq \notin Contexts
    /\ Preemptive \in BOOLEAN
    /\ MaxOwned \in Nat

Null == 0

VARIABLES
    blocks,     \* the addresses that hold a block header
    next, prev, size, used,   \* the fields of the headers
    pc,         \* where each context is in allocate or free
    cur,        \* its local current_block (split_block, current)
    ret,        \* its local return_address
    req,        \* the arguments of its call of allocate
    owned,      \* what allocate has returned to callers and free has not
                \* taken back: [addr, by, words, align]
    mode        \* "ok"; "bogus": allocate has returned memory it did not
                \* allocate; "corrupt": a header was read where there is none

heapVars == <<blocks, next, prev, size, used>>
localVars == <<pc, cur, ret, req>>
vars == <<heapVars, localVars, owned, mode>>

Addr == Base..End

\* block::get_address, and its inverse in free.
Memory(b) == b + HDR
Header(a) == a - HDR

\* The distance to the next multiple of the alignment (a power of two).
AlignOffset(a, align) == (align - (a % align)) % align

\* Unsigned subtraction.
USub(a, b) == (a - b) % WordSpan

NoRequest == [words |-> 1, align |-> 1]

Idle(c) == pc[c] = "idle"

\* allocate or free returns, and its locals are gone.
Return(c) ==
    /\ pc' = [pc EXCEPT ![c] = "idle"]
    /\ cur' = [cur EXCEPT ![c] = Base]
    /\ ret' = [ret EXCEPT ![c] = Null]
    /\ req' = [req EXCEPT ![c] = NoRequest]

\* The interrupt handler is never interrupted.  Threads are preempted
\* anywhere, or not at all.
MayStep(c) ==
    /\ mode = "ok"
    /\ IF Preemptive THEN c = Irq \/ Idle(Irq)
       ELSE \A d \in All \ {c} : Idle(d)

-----------------------------------------------------------------------------
\* mm::initialize: one free block spans the heap.
Init ==
    /\ blocks = {Base}
    /\ next = [x \in blocks |-> Null]
    /\ prev = [x \in blocks |-> Null]
    /\ size = [x \in blocks |-> End - Base - HDR]
    /\ used = [x \in blocks |-> FALSE]
    /\ pc = [c \in All |-> "idle"]
    /\ cur = [c \in All |-> Base]
    /\ ret = [c \in All |-> Null]
    /\ req = [c \in All |-> NoRequest]
    /\ owned = {}
    /\ mode = "ok"

Corrupt ==
    /\ mode' = "corrupt"
    /\ UNCHANGED <<heapVars, localVars, owned>>

\* block::split refuses when the rest has no room for a header and a word.
SplitRoom(b, offset) == USub(size[b], offset) > HDR

\* The assignments of block::split.
Split(b, offset) ==
    LET new == Memory(b) + offset
    IN  /\ blocks' = blocks \cup {new}
        /\ next' = [x \in blocks' |->
                      IF x = new THEN next[b] ELSE IF x = b THEN new ELSE next[x]]
        /\ prev' = [x \in blocks' |->
                      IF x = new THEN b ELSE IF x = next[b] THEN new ELSE prev[x]]
        /\ size' = [x \in blocks' |->
                      IF x = new THEN USub(size[b], offset + HDR)
                      ELSE IF x = b THEN offset ELSE size[x]]
        /\ used' = [x \in blocks' |-> x # new /\ used[x]]

\* block::is_contigouous.
IsContiguous(a, b) == next[a] = b /\ prev[b] = a

\* Mutant: the block after the merged one keeps pointing back into it.
MergeForgetsPrev(a, b) ==
    /\ blocks' = blocks \ {b}
    /\ next' = [x \in blocks' |-> IF x = a THEN next[b] ELSE next[x]]
    /\ prev' = [x \in blocks' |-> prev[x]]
    /\ size' = [x \in blocks' |->
                  IF x = a THEN size[a] + size[b] + HDR ELSE size[x]]
    /\ used' = [x \in blocks' |-> used[x]]

\* The assignments of block::merge.  The header of b is no longer one.
Merge(a, b) ==
    /\ blocks' = blocks \ {b}
    /\ next' = [x \in blocks' |-> IF x = a THEN next[b] ELSE next[x]]
    /\ prev' = [x \in blocks' |-> IF x = next[b] THEN a ELSE prev[x]]
    /\ size' = [x \in blocks' |->
                  IF x = a THEN size[a] + size[b] + HDR ELSE size[x]]
    /\ used' = [x \in blocks' |-> used[x]]

-----------------------------------------------------------------------------
\* Mutant: the search starts behind first_block.
AllocateSkipsFirst(c, r) ==
    /\ MayStep(c)
    /\ Idle(c)
    /\ Cardinality(owned) < MaxOwned
    /\ pc' = [pc EXCEPT ![c] = "check"]
    /\ cur' = [cur EXCEPT ![c] = IF next[Base] = Null THEN Base ELSE next[Base]]
    /\ ret' = [ret EXCEPT ![c] = Null]
    /\ req' = [req EXCEPT ![c] = r]
    /\ UNCHANGED <<heapVars, owned, mode>>

\* A call of allocate: the search starts at first_block.
Allocate(c, r) ==
    /\ MayStep(c)
    /\ Idle(c)
    /\ Cardinality(owned) < MaxOwned
    /\ pc' = [pc EXCEPT ![c] = "check"]
    /\ cur' = [cur EXCEPT ![c] = Base]
    /\ ret' = [ret EXCEPT ![c] = Null]
    /\ req' = [req EXCEPT ![c] = r]
    /\ UNCHANGED <<heapVars, owned, mode>>

\* Mutant: a free block is taken whatever its size.
FitsAnySize(b, r) == ~used[b]

\* The block is free and large enough.
Fits(b, r) == size[b] >= r.words /\ ~used[b]

\* Mutant: the block is used from its start whatever the alignment.
FitsAtStartUnaligned(b, r) == Fits(b, r)

\* The block can be used from its start.
FitsAtStart(b, r) == Fits(b, r) /\ AlignOffset(Memory(b), r.align) = 0

\* The block can be used behind a free block that makes up the alignment.
FitsBehind(b, r) ==
    LET offset == AlignOffset(Memory(b), r.align)
    IN  Fits(b, r) /\ offset > HDR /\ USub(size[b], offset) >= r.words

\* Mutant: the end of the list is not tested for.
LastBlockNever(b) == FALSE

\* The loop of allocate ends at the block without a successor.
LastBlock(b) == next[b] = Null

\* The caller gets an address, with what it asked for.
Handed(c, address) ==
    [addr |-> address, by |-> c, words |-> req[c].words, align |-> req[c].align]

\* One iteration of the search loop.  return_address is assigned as soon as
\* a block is large enough, and kept when the block cannot be aligned: the
\* end of the search then hands the caller an address that was not allocated.
\* What becomes of the heap when the caller uses it is not modelled.
Check(c) ==
    /\ MayStep(c)
    /\ pc[c] = "check"
    /\ LET b == cur[c]
           r == req[c]
           address == IF Fits(b, r) THEN Memory(b) ELSE ret[c]
           Goto(label) == /\ pc' = [pc EXCEPT ![c] = label]
                          /\ ret' = [ret EXCEPT ![c] = address]
                          /\ UNCHANGED <<cur, req, owned, mode>>
       IN  IF b \notin blocks THEN Corrupt
           ELSE /\ \/ FitsAtStart(b, r) /\ Goto("split")
                   \/ FitsBehind(b, r) /\ Goto("front")
                   \/ /\ ~FitsAtStart(b, r) /\ ~FitsBehind(b, r)
                      /\ LastBlock(b)
                      /\ Return(c)
                      /\ IF address = Null
                         THEN UNCHANGED <<owned, mode>>
                         ELSE /\ owned' = owned \cup {Handed(c, address)}
                              /\ mode' = "bogus"
                   \/ /\ ~FitsAtStart(b, r) /\ ~FitsBehind(b, r)
                      /\ ~LastBlock(b)
                      /\ cur' = [cur EXCEPT ![c] = next[b]]
                      /\ ret' = [ret EXCEPT ![c] = address]
                      /\ UNCHANGED <<pc, req, owned, mode>>
                /\ UNCHANGED heapVars

\* The free block that makes up the alignment is split off in front.
SplitFront(c) ==
    /\ MayStep(c)
    /\ pc[c] = "front"
    /\ LET b == cur[c]
           offset == AlignOffset(Memory(b), req[c].align) - HDR
       IN  IF b \notin blocks \/ ~SplitRoom(b, offset)
                \/ Memory(b) + offset \notin Addr THEN Corrupt
           ELSE /\ Split(b, offset)
                /\ cur' = [cur EXCEPT ![c] = Memory(b) + offset]
                /\ pc' = [pc EXCEPT ![c] = "split"]
                /\ UNCHANGED <<ret, req, owned, mode>>

\* What the request does not need is split off behind.
SplitRest(c) ==
    /\ MayStep(c)
    /\ pc[c] = "split"
    /\ LET b == cur[c]
           words == req[c].words
       IN  IF b \notin blocks THEN Corrupt
           ELSE /\ IF size[b] > words /\ SplitRoom(b, words)
                   THEN Split(b, words)
                   ELSE UNCHANGED heapVars
                /\ pc' = [pc EXCEPT ![c] = "mark"]
                /\ UNCHANGED <<cur, ret, req, owned, mode>>

\* set_used, and allocate returns the address of the block.
MarkUsed(c) ==
    /\ MayStep(c)
    /\ pc[c] = "mark"
    /\ LET b == cur[c]
       IN  IF b \notin blocks THEN Corrupt
           ELSE /\ used' = [used EXCEPT ![b] = TRUE]
                /\ owned' = owned \cup {Handed(c, Memory(b))}
                /\ Return(c)
                /\ UNCHANGED <<blocks, next, prev, size, mode>>

\* Mutant: the block keeps its used mark.
FreeKeepsUsed(c, m) ==
    /\ MayStep(c)
    /\ Idle(c)
    /\ owned' = owned \ {m}
    /\ UNCHANGED <<heapVars, localVars, mode>>

\* A call of free: the block is unused from now on.
Free(c, m) ==
    /\ MayStep(c)
    /\ Idle(c)
    /\ LET b == Header(m.addr)
       IN  IF b \notin blocks THEN Corrupt
           ELSE /\ owned' = owned \ {m}
                /\ used' = [used EXCEPT ![b] = FALSE]
                /\ cur' = [cur EXCEPT ![c] = b]
                /\ pc' = [pc EXCEPT ![c] = "merge_prev"]
                /\ UNCHANGED <<blocks, next, prev, size, ret, req, mode>>

\* Mutant: the block is not merged with a free predecessor.
MergePrevSkipped(c) ==
    /\ MayStep(c)
    /\ pc[c] = "merge_prev"
    /\ pc' = [pc EXCEPT ![c] = "merge_next"]
    /\ UNCHANGED <<heapVars, cur, ret, req, owned, mode>>

\* The block is merged with a free predecessor.  merge returns null when the
\* two are not neighbours, and free dereferences that.
MergePrev(c) ==
    /\ MayStep(c)
    /\ pc[c] = "merge_prev"
    /\ LET b == cur[c]
           a == prev[b]
       IN  IF b \notin blocks \/ (a # Null /\ ~used[a] /\ ~IsContiguous(a, b))
           THEN Corrupt
           ELSE /\ IF a # Null /\ ~used[a]
                   THEN Merge(a, b) /\ cur' = [cur EXCEPT ![c] = a]
                   ELSE UNCHANGED <<heapVars, cur>>
                /\ pc' = [pc EXCEPT ![c] = "merge_next"]
                /\ UNCHANGED <<ret, req, owned, mode>>

\* The block is merged with a free successor.
MergeNext(c) ==
    /\ MayStep(c)
    /\ pc[c] = "merge_next"
    /\ LET a == cur[c]
           b == next[a]
       IN  IF a \notin blocks THEN Corrupt
           ELSE /\ IF b # Null /\ ~used[b] /\ IsContiguous(a, b)
                   THEN Merge(a, b)
                   ELSE UNCHANGED heapVars
                /\ Return(c)
                /\ UNCHANGED <<owned, mode>>

Next ==
    \/ \E c \in All :
          \/ \E r \in IF c = Irq THEN IrqRequests ELSE Requests : Allocate(c, r)
          \/ Check(c)
          \/ SplitFront(c)
          \/ SplitRest(c)
          \/ MarkUsed(c)
          \/ \E m \in owned : Free(c, m)
          \/ MergePrev(c)
          \/ MergeNext(c)

Spec == Init /\ [][Next]_vars

-----------------------------------------------------------------------------
\* The type invariant.
TypeOK ==
    /\ blocks \in SUBSET Addr
    /\ next \in [blocks -> Addr \cup {Null}]
    /\ prev \in [blocks -> Addr \cup {Null}]
    /\ size \in [blocks -> Nat]
    /\ used \in [blocks -> BOOLEAN]
    /\ pc \in [All -> {"idle", "check", "front", "split", "mark",
                       "merge_prev", "merge_next"}]
    /\ cur \in [All -> Addr]
    /\ ret \in [All -> Addr \cup {Null}]
    /\ req \in [All -> [words : Nat \ {0}, align : Nat \ {0}]]
    /\ owned \subseteq [addr : Addr, by : All, words : Nat \ {0},
                        align : Nat \ {0}]
    /\ mode \in {"ok", "bogus", "corrupt"}

\* The end of a block.
BlockEnd(b) == Memory(b) + size[b]

\* A block ends where its successor starts, or with the heap.
NextLink(b) ==
    IF next[b] = Null THEN BlockEnd(b) = End
    ELSE next[b] \in blocks /\ next[b] = BlockEnd(b) /\ prev[next[b]] = b

\* A block is the successor of its predecessor, or the first one.
PrevLink(b) ==
    IF prev[b] = Null THEN b = Base
    ELSE prev[b] \in blocks /\ next[prev[b]] = b

\* Whatever the sequence of calls, the headers tile the heap: the list runs
\* from first_block to the end of the heap without gap or overlap, every
\* block has room for a word, and next and prev are inverse to each other.
Tiled ==
    /\ Base \in blocks
    /\ \A b \in blocks : size[b] > 0 /\ BlockEnd(b) <= End
    /\ \A b \in blocks : NextLink(b) /\ PrevLink(b)
    /\ \A b, d \in blocks : b < d => BlockEnd(b) <= d

\* A piece of memory is allocated: it lies in a used block, at its start, and
\* the block is large enough for it.
Allocated(m) ==
    /\ Header(m.addr) \in blocks
    /\ used[Header(m.addr)]
    /\ m.words <= size[Header(m.addr)]

\* mm.h:41 promises "a newly allocated block of memory or `nullptr` if there
\* is no more memory available": every address that allocate has returned is
\* that of a used block of its own, which is large enough and aligned as the
\* caller asked.  Of calls that do not overlap it holds with the default
\* alignment.  With a larger one a block can be large enough and not be
\* alignable, and allocate then returns its address, neither allocated nor
\* aligned.
AllocatedOrNull ==
    /\ \A m \in owned : Allocated(m) /\ m.addr % m.align = 0
    /\ \A m, n \in owned : m.addr = n.addr => m = n

\* What callers hold was allocated for them, up to the first return of an
\* address that was not (see AllocatedOrNull): each piece of memory has a used
\* block of its own, which is large enough, and so no two pieces overlap and
\* none covers a header, whatever splits and merges come between.
OwnedIsAllocated ==
    mode = "ok" =>
        /\ \A m \in owned : Allocated(m)
        /\ \A m, n \in owned : m.addr = n.addr => m = n

\* No block is lost: outside of a call, a used block is one a caller holds.
UsedIsOwned ==
    (\A c \in All : Idle(c)) =>
        \A b \in blocks : used[b] => \E m \in owned : m.addr = Memory(b)

\* Outside of a call no two neighbouring blocks are free, so that freeing
\* everything gives back the one block that initialize made.
Coalesced ==
    (\A c \in All : Idle(c)) =>
        \A b \in blocks : next[b] # Null => used[b] \/ used[next[b]]

\* Memory is aligned as its caller asked, whether the block was aligned or
\* was made so by a split in front of it; again up to the first return of an
\* address that was not allocated (see AllocatedOrNull).
OwnedIsAligned == mode = "ok" => \A m \in owned : m.addr % m.align = 0

\* First fit: a search has passed no block that it could have taken, so that
\* it ends without memory only if there is no such block.
SearchSkipsNothing ==
    \A c \in All : pc[c] = "check" =>
        \A b \in blocks : b < cur[c] =>
            ~FitsAtStart(b, req[c]) /\ ~FitsBehind(b, req[c])

\* mm.h:41 promises "a newly allocated block of memory or `nullptr` if there
\* is no more memory available": what allocate returns is newly allocated,
\* also when the timer preempts it.
NewlyAllocated ==
    \A m, n \in owned : m.addr = n.addr => m = n
=============================================================================
