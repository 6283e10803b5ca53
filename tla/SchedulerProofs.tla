-------------------------- MODULE SchedulerProofs --------------------------
(***************************************************************************)
(* Proofs about Scheduler, for every finite set of processes and every set *)
(* of exit codes.  Most hold whoever forks; that no process is in the      *)
(* scheduler's hands twice, and the refinement, need that nobody does.     *)
(***************************************************************************)
EXTENDS Scheduler, SetInduction

(***************************************************************************)
(* Facts about the queue as a sequence.                                    *)
(***************************************************************************)

\* push_back adds one element at the end and keeps a queue without
\* duplicates free of them when the element is new.
LEMMA PushBack ==
    ASSUME NEW S, NEW s \in Seq(S), NEW x \in S
    PROVE  /\ Append(s, x) \in Seq(S)
           /\ Append(s, x) # <<>>
           /\ Range(Append(s, x)) = Range(s) \cup {x}
           /\ IsInjective(s) /\ x \notin Range(s) => IsInjective(Append(s, x))
<1> DEFINE t == Append(s, x)
<1>1. /\ t \in Seq(S)
      /\ DOMAIN s = 1..Len(s)
      /\ DOMAIN t = 1..(Len(s) + 1)
      /\ Len(s) \in Nat
      /\ t # <<>>
  OBVIOUS
<1>2. /\ \A i \in 1..Len(s) : t[i] = s[i]
      /\ t[Len(s) + 1] = x
  OBVIOUS
<1>3. Range(t) = Range(s) \cup {x}
  <2>1. ASSUME NEW y \in Range(t) PROVE y \in Range(s) \cup {x}
    <3>1. PICK i \in 1..(Len(s) + 1) : y = t[i]
      BY <1>1 DEF Range
    <3>2. CASE i = Len(s) + 1
      BY <3>1, <3>2, <1>2
    <3>3. CASE i \in 1..Len(s)
      BY <3>1, <3>3, <1>1, <1>2 DEF Range
    <3> QED BY <3>2, <3>3, <1>1
  <2>2. ASSUME NEW y \in Range(s) PROVE y \in Range(t)
    <3>1. PICK i \in 1..Len(s) : y = s[i]
      BY <1>1 DEF Range
    <3>2. i \in DOMAIN t /\ t[i] = y
      BY <3>1, <1>1, <1>2
    <3> QED BY <3>2 DEF Range
  <2>3. x \in Range(t)
    <3>1. Len(s) + 1 \in DOMAIN t
      BY <1>1
    <3> QED BY <3>1, <1>2 DEF Range
  <2> QED BY <2>1, <2>2, <2>3
<1>4. ASSUME IsInjective(s), x \notin Range(s) PROVE IsInjective(t)
  <2> SUFFICES ASSUME NEW a \in DOMAIN t, NEW b \in DOMAIN t, t[a] = t[b]
               PROVE  a = b
    BY DEF IsInjective
  <2>1. ASSUME NEW i \in 1..Len(s) PROVE t[i] # x
    BY <1>1, <1>2, <1>4 DEF Range
  <2>2. CASE a \in 1..Len(s) /\ b \in 1..Len(s)
    BY <2>2, <1>1, <1>2, <1>4 DEF IsInjective
  <2>3. CASE a = Len(s) + 1 \/ b = Len(s) + 1
    BY <2>3, <2>1, <1>1, <1>2
  <2> QED BY <2>2, <2>3, <1>1
<1> QED BY <1>1, <1>3, <1>4

\* pop_front takes the first element, the only occurrence of it in a queue
\* without duplicates, and leaves the others.
LEMMA PopFront ==
    ASSUME NEW S, NEW s \in Seq(S), s # <<>>
    PROVE  /\ Head(s) \in S
           /\ Tail(s) \in Seq(S)
           /\ Range(s) = Range(Tail(s)) \cup {Head(s)}
           /\ IsInjective(s) => /\ IsInjective(Tail(s))
                                /\ Head(s) \notin Range(Tail(s))
<1> DEFINE t == Tail(s)
<1>1. /\ t \in Seq(S)
      /\ Len(s) \in Nat \ {0}
      /\ DOMAIN s = 1..Len(s)
      /\ DOMAIN t = 1..(Len(s) - 1)
      /\ Head(s) = s[1]
  OBVIOUS
<1>2. \A i \in 1..(Len(s) - 1) : t[i] = s[i + 1]
  OBVIOUS
<1>3. Range(s) = Range(t) \cup {Head(s)}
  <2>1. ASSUME NEW y \in Range(s) PROVE y \in Range(t) \cup {Head(s)}
    <3>1. PICK i \in 1..Len(s) : y = s[i]
      BY <1>1 DEF Range
    <3>2. CASE i = 1
      BY <3>1, <3>2, <1>1
    <3>3. CASE i # 1
      <4>1. i - 1 \in 1..(Len(s) - 1) /\ (i - 1) + 1 = i
        BY <3>3, <1>1
      <4>2. t[i - 1] = y
        BY <4>1, <3>1, <1>2
      <4> QED BY <4>1, <4>2, <1>1 DEF Range
    <3> QED BY <3>2, <3>3
  <2>2. ASSUME NEW y \in Range(t) PROVE y \in Range(s)
    <3>1. PICK i \in 1..(Len(s) - 1) : y = t[i]
      BY <1>1 DEF Range
    <3>2. i + 1 \in DOMAIN s /\ s[i + 1] = y
      BY <3>1, <1>1, <1>2
    <3> QED BY <3>2 DEF Range
  <2>3. Head(s) \in Range(s)
    <3>1. 1 \in DOMAIN s
      BY <1>1
    <3> QED BY <3>1, <1>1 DEF Range
  <2> QED BY <2>1, <2>2, <2>3
<1>4. ASSUME IsInjective(s)
      PROVE  IsInjective(t) /\ Head(s) \notin Range(t)
  <2>1. ASSUME NEW a \in DOMAIN t, NEW b \in DOMAIN t, t[a] = t[b]
        PROVE  a = b
    <3>1. /\ a + 1 \in DOMAIN s /\ b + 1 \in DOMAIN s
          /\ s[a + 1] = s[b + 1]
          /\ a \in Int /\ b \in Int
      BY <2>1, <1>1, <1>2
    <3>2. a + 1 = b + 1
      BY <3>1, <1>4 DEF IsInjective
    <3> QED BY <3>1, <3>2
  <2>2. ASSUME Head(s) \in Range(t) PROVE FALSE
    <3>1. PICK i \in 1..(Len(s) - 1) : Head(s) = t[i]
      BY <2>2, <1>1 DEF Range
    <3>2. i + 1 \in DOMAIN s /\ 1 \in DOMAIN s /\ s[i + 1] = s[1] /\ i + 1 # 1
      BY <3>1, <1>1, <1>2
    <3> QED BY <3>2, <1>4 DEF IsInjective
  <2> QED BY <2>1, <2>2 DEF IsInjective
<1>5. Head(s) \in S
  BY <1>1
<1> QED BY <1>1, <1>3, <1>4, <1>5

-----------------------------------------------------------------------------
(***************************************************************************)
(* The inductive invariant.  The facts about waits need to know which      *)
(* thread the CPU runs, what a listener is and what a released block       *)
(* holds, and of the queue that nobody is missing from it: a fork queues a *)
(* process twice, and an exit then leaves a deleted one in the queue, but  *)
(* neither loses one.                                                      *)
(***************************************************************************)

\* Every process that has not exited is queued or is the current process.
NobodyMissing == alive \subseteq Range(queue) \cup {current}

\* While there is a current process it is the one the CPU runs.
CurrentOwnsCpu == current # Null => regblk = current

\* A released block holds the PID and the exit code of a deleted process.
ReleasedBlockReportsExit ==
    \A p \in Threads :
        block[p] # NoBlock /\ ~IsBlocking(p) /\ block[p].terminated # Null =>
            /\ block[p].terminated \notin alive
            /\ block[p].code = exitcode[block[p].terminated]

LifeInv ==
    /\ TypeOK
    /\ NobodyMissing
    /\ CurrentOwnsCpu
    /\ CpuOwnerReady
    /\ NoLostWakeup
    /\ NoDanglingListener
    /\ ReleasedBlockReportsExit
    /\ WaitReportsExit
    /\ WaitFailsOnlyForDead
    /\ HaltsOnlyWhenDone

\* The invariant of the behaviours in which nobody forks.
IInv == LifeInv /\ Conservation

(***************************************************************************)
(* What the pieces of the handlers do, as facts about the state.           *)
(***************************************************************************)

\* The queue that interrupt pops from holds every live process, and without
\* forks every one of them once and no other.
LEMMA QueueWithCurrentFacts ==
    ASSUME TypeOK
    PROVE  /\ QueueWithCurrent \in Seq(Threads)
           /\ NobodyMissing => alive \subseteq Range(QueueWithCurrent)
           /\ Conservation => /\ IsInjective(QueueWithCurrent)
                              /\ Range(QueueWithCurrent) = alive
<1>1. CASE current = Null
  <2>1. QueueWithCurrent = queue /\ Null \notin alive
    BY <1>1, ThreadsAssumption DEF QueueWithCurrent, TypeOK
  <2> QED BY <1>1, <2>1 DEF TypeOK, Conservation, NobodyMissing
<1>2. CASE current # Null
  <2>1. current \in Threads /\ queue \in Seq(Threads)
    BY <1>2 DEF TypeOK
  <2>2. QueueWithCurrent = Append(queue, current)
    BY <1>2 DEF QueueWithCurrent
  <2>3. /\ Append(queue, current) \in Seq(Threads)
        /\ Range(Append(queue, current)) = Range(queue) \cup {current}
        /\ IsInjective(queue) /\ current \notin Range(queue)
              => IsInjective(Append(queue, current))
    BY <2>1, PushBack
  <2> QED BY <1>2, <2>2, <2>3 DEF Conservation, NobodyMissing
<1> QED BY <1>1, <1>2

\* The process that get_process finds is alive, if the search for it did not
\* meet a deleted one before: its first entry was looked at.
LEMMA FoundIsAlive ==
    ASSUME TypeOK, NEW pid \in Threads, Found(pid), ~SearchTouchesDeleted(pid)
    PROVE  pid \in alive
<1> DEFINE I == {i \in Nat : i \in DOMAIN queue /\ queue[i] = pid}
<1>1. DOMAIN queue = 1..Len(queue) /\ Len(queue) \in Nat
  BY DEF TypeOK
<1>2. PICK k \in DOMAIN queue : queue[k] = pid
  BY DEF Found, Range
<1>3. I \in SUBSET Nat /\ I # {}
  <2>1. k \in I
    BY <1>1, <1>2
  <2> QED BY <2>1
<1>4. PICK m \in I : \A i \in I : m <= i
  <2> HIDE DEF I
  <2> QED BY <1>3, LeastNumber
<1>5. \A j \in 1..(m - 1) : queue[j] # pid
  <2> SUFFICES ASSUME NEW j \in 1..(m - 1), queue[j] = pid PROVE FALSE
    OBVIOUS
  <2>1. j \in I /\ j < m /\ m \in Nat
    BY <1>1
  <2> QED BY <2>1, <1>4
<1> QED BY <1>4, <1>5 DEF SearchTouchesDeleted

\* The block that the constructor of waitblock builds.
LEMMA NewWaitBlockFacts ==
    ASSUME NEW pid \in Threads \cup {AnyChild}, NEW stale \in ExitCodes
    PROVE  /\ NewWaitBlock(pid, stale) \in WaitBlock
           /\ NewWaitBlock(pid, stale) # NoBlock
           /\ NewWaitBlock(pid, stale).kind = "wait"
           /\ NewWaitBlock(pid, stale).waitpid = pid
           /\ NewWaitBlock(pid, stale).terminated = Null
           /\ NewWaitBlock(pid, stale).active <=> (pid \in Range(queue) /\ pid # AnyChild)
<1>1. SomeoneToWaitFor(pid) \in BOOLEAN
  BY DEF SomeoneToWaitFor
<1>2. SomeoneToWaitFor(pid) <=> (pid \in Range(queue) /\ pid # AnyChild)
  BY DEF SomeoneToWaitFor, NumChildren, Found
<1> QED BY <1>1, <1>2 DEF NewWaitBlock, WaitBlock, NoBlock

\* What process_terminated does to the blocks of the listeners.
LEMMA NotifyFacts ==
    ASSUME TypeOK, NoDanglingListener,
           NEW p \in alive, NEW c \in ExitCodes, Notify(p, c)
    PROVE  /\ block' \in [Threads -> WaitBlock \cup {NoBlock}]
           /\ \A w \in Threads \ listeners[p] : block'[w] = block[w]
           /\ \A w \in listeners[p] :
                /\ w \in alive
                /\ block[w] # NoBlock
                /\ IsBlocking(w)
                /\ block[w].waitpid = p
                /\ block'[w] # NoBlock
                /\ block'[w].kind = "wait"
                /\ ~IsBlocking(w)'
                /\ block'[w].waitpid = p
                /\ block'[w].terminated = p
                /\ block'[w].code = c
<1>1. p \in Threads /\ listeners[p] \subseteq Threads
  BY DEF TypeOK
<1>2. ASSUME NEW w \in listeners[p]
      PROVE  block[w] \in WaitBlock /\ block[w].waitpid = p
             /\ w \in alive /\ IsBlocking(w)
  BY <1>1, <1>2 DEF TypeOK, NoDanglingListener, IsBlocking, NoBlock
<1>3. ASSUME NEW w \in listeners[p]
      PROVE  LET b == [block[w] EXCEPT !.active = FALSE, !.terminated = p,
                                       !.code = c]
             IN  /\ b \in WaitBlock
                 /\ b.kind = "wait"
                 /\ b.active = FALSE
                 /\ b.waitpid = p
                 /\ b.terminated = p
                 /\ b.code = c
  BY <1>1, <1>2, <1>3 DEF WaitBlock
<1>4. \A b \in WaitBlock : b # NoBlock
  BY DEF WaitBlock, NoBlock
<1>5. \A w \in listeners[p] :
        block'[w] = [block[w] EXCEPT !.active = FALSE, !.terminated = p,
                                     !.code = c]
  BY <1>1 DEF Notify
<1>6. \A w \in Threads \ listeners[p] : block'[w] = block[w]
  BY DEF Notify
<1>7. block' \in [Threads -> WaitBlock \cup {NoBlock}]
  <2>1. \A w \in Threads : block'[w] \in WaitBlock \cup {NoBlock}
    <3> SUFFICES ASSUME NEW w \in Threads
                 PROVE  block'[w] \in WaitBlock \cup {NoBlock}
      OBVIOUS
    <3>1. CASE w \in listeners[p]
      BY <3>1, <1>3, <1>5
    <3>2. CASE w \notin listeners[p]
      BY <3>2, <1>6 DEF TypeOK
    <3> QED BY <3>1, <3>2
  <2>2. block' = [w \in Threads |-> block'[w]]
    BY DEF Notify
  <2> QED BY <2>1, <2>2
<1>8. \A w \in listeners[p] : ~IsBlocking(w)'
  BY <1>3, <1>5 DEF IsBlocking
<1> QED BY <1>1, <1>2, <1>3, <1>4, <1>5, <1>6, <1>7, <1>8

\* The initial states satisfy the invariant.
LEMMA InitIInv == Init => LifeInv /\ Conservation
<1> SUFFICES ASSUME Init PROVE LifeInv /\ Conservation
  OBVIOUS
<1>1. queue \in Seq(Threads)
  <2>1. Cardinality(Threads) \in Nat
    BY ThreadsAssumption, FS_CardinalityType
  <2> QED BY <2>1 DEF Init
<1>2. TypeOK
  BY <1>1, ExitCodesAssumption DEF Init, TypeOK
<1>3. Conservation /\ NobodyMissing
  BY ThreadsAssumption DEF Init, Conservation, NobodyMissing
<1>4. \A p \in Threads : ~IsBlocking(p) /\ block[p] = NoBlock
  BY DEF Init, IsBlocking, NoBlock
<1>5. CurrentOwnsCpu /\ CpuOwnerReady /\ HaltsOnlyWhenDone
  BY DEF Init, CurrentOwnsCpu, CpuOwnerReady, HaltsOnlyWhenDone
<1>6. NoLostWakeup /\ NoDanglingListener
  BY <1>4 DEF Init, NoLostWakeup, NoDanglingListener
<1>7. ReleasedBlockReportsExit /\ WaitReportsExit /\ WaitFailsOnlyForDead
  BY <1>4 DEF Init, ReleasedBlockReportsExit, WaitReportsExit,
              WaitFailsOnlyForDead
<1> QED BY <1>2, <1>3, <1>5, <1>6, <1>7 DEF LifeInv

\* Steps that leave processes, blocks and results alone.
LEMMA UnchangedLife ==
    ASSUME LifeInv,
           UNCHANGED <<alive, block, listeners, exitcode, result>>
    PROVE  /\ NoLostWakeup'
           /\ NoDanglingListener'
           /\ ReleasedBlockReportsExit'
           /\ WaitReportsExit'
           /\ WaitFailsOnlyForDead'
           /\ \A p \in Threads : IsBlocking(p)' <=> IsBlocking(p)
  BY DEF LifeInv, NoLostWakeup, NoDanglingListener, ReleasedBlockReportsExit,
         WaitReportsExit, WaitFailsOnlyForDead, IsBlocking

\* Undefined behaviour and halting change the mode only.
LEMMA ModeChangeLifeInv ==
    ASSUME LifeInv, mode' \in {"run", "halted", "fault"},
           mode' = "halted" => alive = {},
           UNCHANGED <<queue, current, regblk, alive, block, listeners,
                       exitcode, result>>
    PROVE  LifeInv'
<1>1. TypeOK' /\ NobodyMissing' /\ CurrentOwnsCpu' /\ HaltsOnlyWhenDone'
  BY DEF LifeInv, TypeOK, NobodyMissing, CurrentOwnsCpu, HaltsOnlyWhenDone
<1>2. CpuOwnerReady'
  BY DEF LifeInv, CpuOwnerReady, IsBlocking
<1> QED BY <1>1, <1>2, UnchangedLife DEF LifeInv

\* A timer tick preserves the invariant.
LEMMA TickLifeInv == ASSUME LifeInv, Tick PROVE LifeInv'
<1> DEFINE q == QueueWithCurrent
<1>0. PICK n : n = Head(q)
  OBVIOUS
<1>1. q \in Seq(Threads) /\ alive \subseteq Range(q)
  BY QueueWithCurrentFacts DEF LifeInv
<1>2. CASE TickHalts
  <2>1. alive = {}
    BY <1>1, <1>2 DEF TickHalts, Range
  <2> QED BY <1>2, <2>1, ModeChangeLifeInv DEF TickHalts
<1>3. CASE Fault
  BY <1>3, ModeChangeLifeInv DEF Fault
<1>4. ASSUME q # <<>>, n \in alive
      PROVE  /\ n \in Threads
             /\ n # Null
             /\ Tail(q) \in Seq(Threads)
             /\ alive \subseteq Range(Tail(q)) \cup {n}
  BY <1>0, <1>1, <1>4, PopFront, ThreadsAssumption DEF LifeInv, TypeOK
<1>5. ASSUME q # <<>>, n \in alive, TickFindsBlocked(n) PROVE LifeInv'
  <2>1. /\ queue' = Append(Tail(q), n)
        /\ current' = Null
        /\ UNCHANGED <<regblk, mode, alive, block, listeners, exitcode, result>>
    BY <1>5 DEF TickFindsBlocked
  <2>2. queue' \in Seq(Threads) /\ alive \subseteq Range(queue')
    <3>1. PICK t : t = Tail(q)
      OBVIOUS
    <3>2. /\ n \in Threads
          /\ t \in Seq(Threads)
          /\ alive \subseteq Range(t) \cup {n}
      BY <1>4, <1>5, <3>1
    <3>3. /\ Append(t, n) \in Seq(Threads)
          /\ Range(Append(t, n)) = Range(t) \cup {n}
      BY <3>2, PushBack
    <3> QED BY <2>1, <3>1, <3>2, <3>3
  <2>3. TypeOK'
    BY <2>1, <2>2 DEF LifeInv, TypeOK
  <2>4. NobodyMissing'
    BY <2>1, <2>2 DEF NobodyMissing
  <2>5. CurrentOwnsCpu' /\ HaltsOnlyWhenDone'
    BY <2>1 DEF LifeInv, CurrentOwnsCpu, HaltsOnlyWhenDone
  <2>6. CpuOwnerReady'
    BY <2>1 DEF LifeInv, CpuOwnerReady, IsBlocking
  <2> QED BY <2>1, <2>3, <2>4, <2>5, <2>6, UnchangedLife DEF LifeInv
<1>6. ASSUME q # <<>>, n \in alive, TickRuns(n), mode = "run" PROVE LifeInv'
  <2>1. /\ ~IsBlocking(n)
        /\ queue' = Tail(q)
        /\ current' = n
        /\ regblk' = n
        /\ UNCHANGED <<mode, alive, listeners, exitcode>>
    BY <1>6 DEF TickRuns
  <2>2. /\ \A p \in Threads \ {n} : block'[p] = block[p] /\ result'[p] = result[p]
        /\ block'[n] = NoBlock
        /\ ~IsBlocking(n)'
        /\ \/ result'[n] = result[n]
           \/ /\ block[n] # NoBlock
              /\ result'[n] = [call |-> "wait", pid |-> block[n].terminated,
                               status |-> block[n].code]
        /\ block' \in [Threads -> WaitBlock \cup {NoBlock}]
        /\ result' \in [Threads -> Result \cup {NoResult}]
    <3>0. /\ n \in Threads
          /\ block \in [Threads -> WaitBlock \cup {NoBlock}]
          /\ result \in [Threads -> Result \cup {NoResult}]
      BY <1>4, <1>6 DEF LifeInv, TypeOK
    <3>1. CASE block[n] = NoBlock
      BY <3>0, <3>1, <1>6 DEF TickRuns, IsBlocking, NoBlock
    <3>2. CASE block[n] # NoBlock
      <4>1. block' = [block EXCEPT ![n] = NoBlock] /\ BlockReturn(n)
        BY <3>2, <1>6 DEF TickRuns
      <4>2. [call |-> "wait", pid |-> block[n].terminated,
             status |-> block[n].code] \in Result
        BY <3>0, <3>2 DEF Result, WaitBlock
      <4>3. ~IsBlocking(n)'
        BY <4>1, <3>0 DEF IsBlocking, NoBlock
      <4> QED BY <3>0, <3>2, <4>1, <4>2, <4>3 DEF BlockReturn
    <3> QED BY <3>1, <3>2
  <2>3. \A p \in Threads \ {n} : IsBlocking(p)' <=> IsBlocking(p)
    BY <2>2 DEF IsBlocking
  <2>4. TypeOK'
    BY <2>1, <2>2, <1>4, <1>6 DEF LifeInv, TypeOK
  <2>5. NobodyMissing'
    BY <2>1, <1>4, <1>6 DEF NobodyMissing
  <2>6. CurrentOwnsCpu' /\ CpuOwnerReady' /\ HaltsOnlyWhenDone'
    BY <2>1, <2>2, <1>6 DEF CurrentOwnsCpu, CpuOwnerReady, HaltsOnlyWhenDone
  <2>7. NoLostWakeup'
    BY <2>1, <2>2, <2>3 DEF LifeInv, NoLostWakeup
  <2>8. NoDanglingListener'
    BY <2>1, <2>2, <2>3 DEF LifeInv, NoDanglingListener, TypeOK
  <2>9. ReleasedBlockReportsExit'
    BY <2>1, <2>2, <2>3 DEF LifeInv, ReleasedBlockReportsExit
  <2>10. WaitReportsExit'
    <3> SUFFICES ASSUME NEW p \in Threads,
                        result'[p] # NoResult, result'[p].call = "wait",
                        result'[p].pid # Null
                 PROVE  /\ result'[p].pid \notin alive'
                        /\ result'[p].status = exitcode'[result'[p].pid]
      BY DEF WaitReportsExit
    <3>1. CASE result'[p] = result[p]
      BY <3>1, <2>1 DEF LifeInv, WaitReportsExit
    <3>2. CASE result'[p] # result[p]
      <4>1. /\ p = n
            /\ block[n] # NoBlock
            /\ result'[n] = [call |-> "wait", pid |-> block[n].terminated,
                             status |-> block[n].code]
        BY <3>2, <2>2
      <4>2. /\ block[n].terminated \notin alive
            /\ block[n].code = exitcode[block[n].terminated]
        BY <4>1, <2>1, <1>4, <1>6 DEF LifeInv, ReleasedBlockReportsExit
      <4> QED BY <4>1, <4>2, <2>1
    <3> QED BY <3>1, <3>2
  <2>11. WaitFailsOnlyForDead'
    BY <2>1, <2>2, <2>3 DEF LifeInv, WaitFailsOnlyForDead, TypeOK
  <2> QED BY <2>4, <2>5, <2>6, <2>7, <2>8, <2>9, <2>10, <2>11 DEF LifeInv
<1> QED BY <1>0, <1>2, <1>3, <1>5, <1>6 DEF Tick

\* The process that a system call acts on is alive and not blocked, and no
\* listener of a live process belongs to it.
LEMMA CurrentFacts ==
    ASSUME LifeInv, current # Null
    PROVE  /\ current \in Threads
           /\ current \in alive
           /\ alive \subseteq Range(queue) \cup {current}
           /\ block[current] = NoBlock
           /\ ~IsBlocking(current)
           /\ \A t \in alive : current \notin listeners[t]
<1>1. current \in Threads /\ current \in alive
      /\ alive \subseteq Range(queue) \cup {current}
  BY DEF LifeInv, TypeOK, NobodyMissing, CurrentOwnsCpu, CpuOwnerReady
<1>2. block[current] = NoBlock /\ ~IsBlocking(current)
  BY <1>1 DEF LifeInv, CurrentOwnsCpu, CpuOwnerReady, IsBlocking, NoBlock
<1>3. \A t \in alive : current \notin listeners[t]
  BY <1>2 DEF LifeInv, NoDanglingListener
<1> QED BY <1>1, <1>2, <1>3

\* An exit preserves the invariant.
LEMMA ExitLifeInv == ASSUME LifeInv, NEW p \in Threads, Exit(p) PROVE LifeInv'
<1>1. CASE current = Null
  BY <1>1, ModeChangeLifeInv DEF Exit, Fault
<1>2. CASE current # Null
  <2>0. PICK d : d = current
    OBVIOUS
  <2>1. PICK c \in ExitCodes : DeleteCurrent(c)
    BY <1>2 DEF Exit
  <2>2. mode = "run"
    BY DEF Exit, Running
  <2>3. /\ d \in Threads /\ d \in alive /\ d # Null
        /\ alive \subseteq Range(queue) \cup {d}
        /\ ~IsBlocking(d)
        /\ \A t \in alive : d \notin listeners[t]
    BY <1>2, <2>0, CurrentFacts
  <2>4. /\ exitcode' = [exitcode EXCEPT ![d] = c]
        /\ Notify(d, c)
        /\ listeners' = [listeners EXCEPT ![d] = {}]
        /\ alive' = alive \ {d}
        /\ current' = Null
        /\ regblk' = Null
        /\ UNCHANGED <<queue, mode, result>>
    BY <2>0, <2>1 DEF DeleteCurrent
  <2>5. TypeOK /\ NoDanglingListener
    BY DEF LifeInv
  <2>6. /\ block' \in [Threads -> WaitBlock \cup {NoBlock}]
        /\ \A w \in Threads \ listeners[d] : block'[w] = block[w]
        /\ \A w \in listeners[d] :
             /\ w \in alive
             /\ block[w].waitpid = d
             /\ ~IsBlocking(w)'
             /\ block'[w].terminated = d
             /\ block'[w].code = c
    BY <2>3, <2>4, <2>5, NotifyFacts
  <2>7. \A w \in Threads \ listeners[d] : IsBlocking(w)' <=> IsBlocking(w)
    BY <2>6 DEF IsBlocking
  <2>8. TypeOK'
    BY <2>3, <2>4, <2>5, <2>6 DEF TypeOK
  <2>9. NobodyMissing'
    BY <2>3, <2>4 DEF NobodyMissing
  <2>10. CurrentOwnsCpu' /\ CpuOwnerReady' /\ HaltsOnlyWhenDone'
    BY <2>2, <2>4 DEF CurrentOwnsCpu, CpuOwnerReady, HaltsOnlyWhenDone
  <2>11. NoLostWakeup'
    <3> SUFFICES ASSUME NEW w \in Threads, w \in alive', IsBlocking(w)'
                 PROVE  /\ block'[w].waitpid \in alive'
                        /\ w \in listeners'[block'[w].waitpid]
      BY DEF NoLostWakeup
    <3>1. w \notin listeners[d] /\ IsBlocking(w) /\ block'[w] = block[w]
      BY <2>6, <2>7
    <3>2. block[w].waitpid \in alive /\ w \in listeners[block[w].waitpid]
      BY <3>1, <2>4 DEF LifeInv, NoLostWakeup
    <3> QED BY <3>1, <3>2, <2>3, <2>4, <2>5 DEF TypeOK
  <2>12. NoDanglingListener'
    <3> SUFFICES ASSUME NEW t \in alive', NEW w \in listeners'[t]
                 PROVE  w \in alive' /\ IsBlocking(w)' /\ block'[w].waitpid = t
      BY DEF NoDanglingListener
    <3>1. t \in alive /\ t # d /\ t \in Threads /\ listeners'[t] = listeners[t]
      BY <2>3, <2>4, <2>5 DEF TypeOK
    <3>2. w \in alive /\ w \in Threads /\ IsBlocking(w) /\ block[w].waitpid = t
      BY <3>1, <2>5 DEF NoDanglingListener, TypeOK
    <3>3. w # d /\ w \notin listeners[d]
      BY <3>1, <3>2, <2>3, <2>6
    <3> QED BY <3>2, <3>3, <2>4, <2>6, <2>7
  <2>13. \A x \in Threads : x \notin alive =>
            x \notin alive' /\ exitcode'[x] = exitcode[x]
    BY <2>3, <2>4, <2>5 DEF TypeOK
  <2>14. ReleasedBlockReportsExit'
    <3> SUFFICES ASSUME NEW w \in Threads, block'[w] # NoBlock,
                        ~IsBlocking(w)', block'[w].terminated # Null
                 PROVE  /\ block'[w].terminated \notin alive'
                        /\ block'[w].code = exitcode'[block'[w].terminated]
      BY DEF ReleasedBlockReportsExit
    <3>1. CASE w \in listeners[d]
      BY <3>1, <2>3, <2>4, <2>5, <2>6 DEF TypeOK
    <3>2. CASE w \notin listeners[d]
      <4>1. block'[w] = block[w] /\ ~IsBlocking(w)
        BY <3>2, <2>6, <2>7
      <4>2. /\ block[w].terminated \notin alive
            /\ block[w].code = exitcode[block[w].terminated]
        BY <4>1 DEF LifeInv, ReleasedBlockReportsExit
      <4>3. block[w].terminated \in Threads
        BY <4>1, <2>5 DEF TypeOK, WaitBlock
      <4> QED BY <4>1, <4>2, <4>3, <2>13
    <3> QED BY <3>1, <3>2
  <2>15. WaitReportsExit'
    <3> SUFFICES ASSUME NEW w \in Threads, result[w] # NoResult,
                        result[w].call = "wait", result[w].pid # Null
                 PROVE  /\ result[w].pid \notin alive'
                        /\ result[w].status = exitcode'[result[w].pid]
      BY <2>4 DEF WaitReportsExit
    <3>1. result[w].pid \in Threads
      BY <2>5 DEF TypeOK, Result
    <3>2. /\ result[w].pid \notin alive
          /\ result[w].status = exitcode[result[w].pid]
      BY DEF LifeInv, WaitReportsExit
    <3> QED BY <3>1, <3>2, <2>13
  <2>16. WaitFailsOnlyForDead'
    <3> SUFFICES ASSUME NEW w \in alive', block'[w] # NoBlock,
                        ~IsBlocking(w)', block'[w].terminated = Null
                 PROVE  block'[w].waitpid \notin alive' \ {w}
      BY DEF WaitFailsOnlyForDead
    <3>1. w \in alive /\ w \in Threads /\ w \notin listeners[d]
      BY <2>3, <2>4, <2>5, <2>6 DEF TypeOK
    <3>2. block'[w] = block[w] /\ ~IsBlocking(w)
      BY <3>1, <2>6, <2>7
    <3> QED BY <3>1, <3>2, <2>4 DEF LifeInv, WaitFailsOnlyForDead
  <2> QED BY <2>8, <2>9, <2>10, <2>11, <2>12, <2>14, <2>15, <2>16 DEF LifeInv
<1> QED BY <1>1, <1>2

\* A wait preserves the invariant.
LEMMA WaitLifeInv == ASSUME LifeInv, NEW p \in Threads, Wait(p) PROVE LifeInv'
<1>1. CASE Fault
  BY <1>1, ModeChangeLifeInv DEF Fault
<1>2. ASSUME NEW pid \in Threads \cup {AnyChild}, NEW stale \in ExitCodes,
             current # Null, BlockCurrent(pid, stale),
             ~(pid # AnyChild /\ SearchTouchesDeleted(pid))
      PROVE  LifeInv'
  <2>0. PICK d : d = current
    OBVIOUS
  <2>1. PICK b : b = NewWaitBlock(pid, stale)
    OBVIOUS
  <2>2. mode = "run"
    BY DEF Wait, Running
  <2>3. /\ d \in Threads /\ d \in alive /\ d # Null
        /\ alive \subseteq Range(queue) \cup {d}
        /\ ~IsBlocking(d)
        /\ \A t \in alive : d \notin listeners[t]
    BY <1>2, <2>0, CurrentFacts
  <2>4. /\ block' = [block EXCEPT ![d] = b]
        /\ Listen(pid)
        /\ queue' = Append(queue, d)
        /\ current' = Null
        /\ regblk' = Null
        /\ UNCHANGED <<mode, alive, exitcode, result>>
    BY <1>2, <2>0, <2>1 DEF BlockCurrent
  <2>5. /\ b \in WaitBlock /\ b # NoBlock /\ b.kind = "wait"
        /\ b.waitpid = pid /\ b.terminated = Null
        /\ b.active <=> (pid \in Range(queue) /\ pid # AnyChild)
        /\ b.active => pid \in alive
    <3>1. b.active => pid \in Threads /\ Found(pid) /\ pid # AnyChild
      BY <2>1, NewWaitBlockFacts DEF Found
    <3>2. b.active => pid \in alive
      BY <1>2, <3>1, FoundIsAlive DEF LifeInv
    <3> QED BY <2>1, <3>2, NewWaitBlockFacts
  <2>6. TypeOK
    BY DEF LifeInv
  <2>7. /\ block'[d] = b
        /\ \A w \in Threads \ {d} : block'[w] = block[w]
        /\ IsBlocking(d)' <=> b.active
        /\ \A w \in Threads \ {d} : IsBlocking(w)' <=> IsBlocking(w)
    BY <2>3, <2>4, <2>5, <2>6 DEF TypeOK, IsBlocking
  <2>8. /\ listeners' \in [Threads -> SUBSET Threads]
        /\ \A t \in Threads : t # pid => listeners'[t] = listeners[t]
        /\ b.active => pid \in Threads /\ listeners'[pid] = listeners[pid] \cup {d}
        /\ ~b.active => listeners' = listeners
    <3>1. CASE b.active
      <4>1. pid \in Threads /\ pid # AnyChild /\ Found(pid)
        BY <3>1, <2>5 DEF Found
      <4>2. listeners' = [listeners EXCEPT ![pid] = @ \cup {d}]
        BY <4>1, <2>0, <2>4 DEF Listen
      <4> QED BY <3>1, <4>1, <4>2, <2>3, <2>6 DEF TypeOK
    <3>2. CASE ~b.active
      <4>1. listeners' = listeners
        BY <3>2, <2>4, <2>5 DEF Listen, Found
      <4> QED BY <3>2, <4>1, <2>6 DEF TypeOK
    <3> QED BY <3>1, <3>2
  <2>9. queue' \in Seq(Threads) /\ alive \subseteq Range(queue')
    <3>1. queue \in Seq(Threads)
      BY <2>6 DEF TypeOK
    <3> QED BY <3>1, <2>3, <2>4, PushBack
  <2>10. TypeOK'
    BY <2>3, <2>4, <2>5, <2>6, <2>8, <2>9 DEF TypeOK
  <2>11. NobodyMissing'
    BY <2>4, <2>9 DEF NobodyMissing
  <2>12. CurrentOwnsCpu' /\ CpuOwnerReady' /\ HaltsOnlyWhenDone'
    BY <2>2, <2>4 DEF CurrentOwnsCpu, CpuOwnerReady, HaltsOnlyWhenDone
  <2>13. NoLostWakeup'
    <3> SUFFICES ASSUME NEW w \in Threads, w \in alive, IsBlocking(w)'
                 PROVE  /\ block'[w].waitpid \in alive
                        /\ w \in listeners'[block'[w].waitpid]
      BY <2>4 DEF NoLostWakeup
    <3>1. CASE w = d
      BY <3>1, <2>3, <2>5, <2>7, <2>8
    <3>2. CASE w # d
      <4>1. block'[w] = block[w] /\ IsBlocking(w)
        BY <3>2, <2>7
      <4>2. block[w].waitpid \in alive /\ w \in listeners[block[w].waitpid]
        BY <4>1 DEF LifeInv, NoLostWakeup
      <4>3. \A t \in Threads : w \in listeners[t] => w \in listeners'[t]
        BY <2>8
      <4> QED BY <4>1, <4>2, <4>3, <2>6 DEF TypeOK
    <3> QED BY <3>1, <3>2
  <2>14. NoDanglingListener'
    <3> SUFFICES ASSUME NEW t \in alive, NEW w \in listeners'[t]
                 PROVE  w \in alive /\ IsBlocking(w)' /\ block'[w].waitpid = t
      BY <2>4 DEF NoDanglingListener
    <3>0. t \in Threads
      BY <2>6 DEF TypeOK
    <3>1. CASE w \in listeners[t]
      <4>1. w \in alive /\ w \in Threads /\ IsBlocking(w) /\ block[w].waitpid = t
        BY <3>1, <2>6 DEF LifeInv, NoDanglingListener, TypeOK
      <4>2. w # d
        BY <3>1, <2>3
      <4> QED BY <4>1, <4>2, <2>7
    <3>2. CASE w \notin listeners[t]
      <4>1. t = pid /\ b.active /\ w = d
        BY <3>0, <3>2, <2>8
      <4> QED BY <4>1, <2>3, <2>5, <2>7
    <3> QED BY <3>1, <3>2
  <2>15. ReleasedBlockReportsExit'
    BY <2>4, <2>5, <2>7 DEF LifeInv, ReleasedBlockReportsExit
  <2>16. WaitReportsExit'
    BY <2>4 DEF LifeInv, WaitReportsExit
  <2>17. WaitFailsOnlyForDead'
    <3> SUFFICES ASSUME NEW w \in alive, block'[w] # NoBlock,
                        ~IsBlocking(w)', block'[w].terminated = Null
                 PROVE  block'[w].waitpid \notin alive \ {w}
      BY <2>4 DEF WaitFailsOnlyForDead
    <3>1. CASE w = d
      BY <3>1, <2>3, <2>5, <2>6, <2>7, ThreadsAssumption DEF TypeOK
    <3>2. CASE w # d
      BY <3>2, <2>6, <2>7 DEF LifeInv, WaitFailsOnlyForDead, TypeOK
    <3> QED BY <3>1, <3>2
  <2> QED BY <2>10, <2>11, <2>12, <2>13, <2>14, <2>15, <2>16, <2>17 DEF LifeInv
<1> QED BY <1>1, <1>2 DEF Wait

\* A fork preserves the invariant: it only queues the caller once more and
\* tells it a PID.
LEMMA ForkLifeInv == ASSUME LifeInv, NEW p \in Threads, Fork(p) PROVE LifeInv'
<1>1. CASE Fault
  BY <1>1, ModeChangeLifeInv DEF Fault
<1>2. ASSUME current # Null, queue' = Append(queue, current),
             result' = [result EXCEPT ![p] = [call |-> "fork", pid |-> current,
                                              status |-> 0]],
             UNCHANGED <<current, regblk, mode, alive, block, listeners,
                         exitcode>>
      PROVE  LifeInv'
  <2>1. current \in Threads /\ queue \in Seq(Threads)
    BY <1>2 DEF LifeInv, TypeOK
  <2>2. queue' \in Seq(Threads) /\ Range(queue') = Range(queue) \cup {current}
    BY <1>2, <2>1, PushBack
  <2>3. PICK r : r = [call |-> "fork", pid |-> current, status |-> 0]
    OBVIOUS
  <2>4. r \in Result /\ r.call = "fork"
    BY <2>1, <2>3, ExitCodesAssumption DEF Result
  <2>5. /\ result'[p] = r
        /\ \A w \in Threads \ {p} : result'[w] = result[w]
        /\ result' \in [Threads -> Result \cup {NoResult}]
    BY <1>2, <2>3, <2>4 DEF LifeInv, TypeOK
  <2>6. TypeOK'
    BY <1>2, <2>2, <2>5 DEF LifeInv, TypeOK
  <2>7. NobodyMissing' /\ CurrentOwnsCpu' /\ CpuOwnerReady' /\ HaltsOnlyWhenDone'
    BY <1>2, <2>2 DEF LifeInv, NobodyMissing, CurrentOwnsCpu, CpuOwnerReady,
                      HaltsOnlyWhenDone
  <2>8. /\ NoLostWakeup' /\ NoDanglingListener' /\ ReleasedBlockReportsExit'
        /\ WaitFailsOnlyForDead'
    BY <1>2 DEF LifeInv, NoLostWakeup, NoDanglingListener,
                ReleasedBlockReportsExit, WaitFailsOnlyForDead, IsBlocking
  <2>9. WaitReportsExit'
    <3> SUFFICES ASSUME NEW w \in Threads, result'[w] # NoResult,
                        result'[w].call = "wait", result'[w].pid # Null
                 PROVE  /\ result'[w].pid \notin alive'
                        /\ result'[w].status = exitcode'[result'[w].pid]
      BY DEF WaitReportsExit
    <3>1. w # p
      BY <2>4, <2>5
    <3>2. result'[w] = result[w]
      BY <3>1, <2>5
    <3> QED BY <1>2, <3>2 DEF LifeInv, WaitReportsExit
  <2> QED BY <2>6, <2>7, <2>8, <2>9 DEF LifeInv
<1> QED BY <1>1, <1>2 DEF Fork

\* Every step preserves the invariant.
LEMMA StepLifeInv == ASSUME LifeInv, [Next]_vars PROVE LifeInv'
<1>1. CASE Tick
  BY <1>1, TickLifeInv
<1>2. ASSUME NEW p \in Threads, Exit(p) PROVE LifeInv'
  BY <1>2, ExitLifeInv
<1>3. ASSUME NEW p \in Threads, Wait(p) PROVE LifeInv'
  BY <1>3, WaitLifeInv
<1>4. ASSUME NEW p \in Threads, Fork(p) PROVE LifeInv'
  BY <1>4, ForkLifeInv
<1>5. CASE UNCHANGED vars
  BY <1>5, ModeChangeLifeInv DEF vars, LifeInv, TypeOK, HaltsOnlyWhenDone
<1> QED BY <1>1, <1>2, <1>3, <1>4, <1>5 DEF Next

\* The invariant holds of every behaviour, whoever forks.
THEOREM SchedulerInductive == Spec => []LifeInv
<1>1. Init => LifeInv
  BY InitIInv
<1>2. LifeInv /\ [Next]_vars => LifeInv'
  BY StepLifeInv
<1> QED BY <1>1, <1>2, PTL DEF Spec

\* The theorems about the checked properties follow from the invariant.
\* The type invariant of the scheduler's state.
THEOREM TypeCorrect == Spec => []TypeOK
<1>1. LifeInv => TypeOK
  BY DEF LifeInv
<1> QED BY <1>1, SchedulerInductive, PTL

\* register_block always belongs to a live process that is not blocked, or
\* is null.
THEOREM CpuOwnerIsReady == Spec => []CpuOwnerReady
<1>1. LifeInv => CpuOwnerReady
  BY DEF LifeInv
<1> QED BY <1>1, SchedulerInductive, PTL

\* Every active wait block is registered with a live process, whose
\* destructor will release it.
THEOREM WakeupsNotLost == Spec => []NoLostWakeup
<1>1. LifeInv => NoLostWakeup
  BY DEF LifeInv
<1> QED BY <1>1, SchedulerInductive, PTL

\* Every listener that the destructor of a process will call is an active
\* wait block of a live process.
THEOREM ListenersNotDangling == Spec => []NoDanglingListener
<1>1. LifeInv => NoDanglingListener
  BY DEF LifeInv
<1> QED BY <1>1, SchedulerInductive, PTL

\* What wait returns is true: a PID only of a process that has exited, with
\* its exit code.
THEOREM WaitIsTruthful == Spec => []WaitReportsExit
<1>1. LifeInv => WaitReportsExit
  BY DEF LifeInv
<1> QED BY <1>1, SchedulerInductive, PTL

\* A wait for a process is refused only if that process was not there.
THEOREM WaitFailureIsTruthful == Spec => []WaitFailsOnlyForDead
<1>1. LifeInv => WaitFailsOnlyForDead
  BY DEF LifeInv
<1> QED BY <1>1, SchedulerInductive, PTL

\* The kernel halts only when every process has exited.
THEOREM HaltIsFinal == Spec => []HaltsOnlyWhenDone
<1>1. LifeInv => HaltsOnlyWhenDone
  BY DEF LifeInv
<1> QED BY <1>1, SchedulerInductive, PTL

-----------------------------------------------------------------------------
(***************************************************************************)
(* Conservation, when nobody forks.                                        *)
(***************************************************************************)

\* Without forks nobody who is deleted is queued, and the current process is
\* not queued.
LEMMA CurrentNotQueued ==
    ASSUME IInv, current # Null
    PROVE  /\ current \notin Range(queue)
           /\ alive = Range(queue) \cup {current}
           /\ Null \notin Range(queue)
  BY ThreadsAssumption DEF IInv, LifeInv, TypeOK, Conservation

\* A timer tick pops the only entry of a process and queues it again, or
\* makes it the current process.
LEMMA TickConserves == ASSUME IInv, Tick PROVE Conservation'
<1> DEFINE q == QueueWithCurrent
<1>0. PICK n : n = Head(q)
  OBVIOUS
<1>1. /\ q \in Seq(Threads)
      /\ IsInjective(q)
      /\ Range(q) = alive
      /\ Null \notin alive
  BY QueueWithCurrentFacts, ThreadsAssumption DEF IInv, LifeInv, TypeOK
<1>2. CASE UNCHANGED <<queue, current, alive>>
  BY <1>2 DEF IInv, Conservation
<1>3. ASSUME q # <<>>
      PROVE  /\ n \in Threads
             /\ Tail(q) \in Seq(Threads)
             /\ IsInjective(Tail(q))
             /\ n \notin Range(Tail(q))
             /\ alive = Range(Tail(q)) \cup {n}
  BY <1>0, <1>1, <1>3, PopFront
<1>4. ASSUME q # <<>>, TickFindsBlocked(n) PROVE Conservation'
  <2>1. PICK t : t = Tail(q)
    OBVIOUS
  <2>2. queue' = Append(t, n) /\ current' = Null /\ alive' = alive
    BY <1>4, <2>1 DEF TickFindsBlocked
  <2>3. /\ n \in Threads
        /\ t \in Seq(Threads)
        /\ IsInjective(t)
        /\ n \notin Range(t)
        /\ alive = Range(t) \cup {n}
    BY <1>3, <1>4, <2>1
  <2>4. IsInjective(queue') /\ Range(queue') = alive
    BY <2>2, <2>3, PushBack
  <2> QED BY <2>2, <2>4, <1>1 DEF Conservation
<1>5. ASSUME q # <<>>, TickRuns(n) PROVE Conservation'
  <2>1. queue' = Tail(q) /\ current' = n /\ alive' = alive
    BY <1>5 DEF TickRuns
  <2> QED BY <2>1, <1>1, <1>3, <1>5 DEF Conservation
<1> QED BY <1>0, <1>2, <1>4, <1>5 DEF Tick, TickHalts, Fault

\* An exit takes the current process, which is not queued, out of the
\* scheduler's hands.
LEMMA ExitConserves ==
    ASSUME IInv, NEW p \in Threads, Exit(p) PROVE Conservation'
<1>1. CASE Fault
  BY <1>1 DEF Fault, IInv, Conservation
<1>2. ASSUME current # Null, NEW c \in ExitCodes, DeleteCurrent(c)
      PROVE  Conservation'
  BY <1>2, CurrentNotQueued DEF IInv, Conservation, DeleteCurrent
<1> QED BY <1>1, <1>2 DEF Exit

\* A wait queues the current process, which was not queued.
LEMMA WaitConserves ==
    ASSUME IInv, NEW p \in Threads, Wait(p) PROVE Conservation'
<1>1. CASE Fault
  BY <1>1 DEF Fault, IInv, Conservation
<1>2. ASSUME current # Null, NEW pid, NEW stale, BlockCurrent(pid, stale)
      PROVE  Conservation'
  <2>1. /\ current \in Threads /\ queue \in Seq(Threads)
        /\ IsInjective(queue) /\ current \notin Range(queue)
    BY <1>2 DEF IInv, LifeInv, TypeOK, Conservation
  <2>2. /\ queue' = Append(queue, current) /\ current' = Null
        /\ alive' = alive
    BY <1>2 DEF BlockCurrent
  <2>3. IsInjective(queue') /\ Range(queue') = Range(queue) \cup {current}
    BY <2>1, <2>2, PushBack
  <2> QED BY <1>2, <2>2, <2>3, CurrentNotQueued, ThreadsAssumption
          DEF Conservation, IInv, LifeInv, TypeOK
<1> QED BY <1>1, <1>2 DEF Wait

\* Without forks, no step loses or duplicates a process.
LEMMA StepIInv ==
    ASSUME Forkers = {}, IInv, [Next]_vars
    PROVE  IInv'
<1>1. LifeInv'
  BY StepLifeInv DEF IInv
<1>2. CASE Tick
  BY <1>1, <1>2, TickConserves DEF IInv
<1>3. ASSUME NEW p \in Threads, Exit(p) PROVE IInv'
  BY <1>1, <1>3, ExitConserves DEF IInv
<1>4. ASSUME NEW p \in Threads, Wait(p) PROVE IInv'
  BY <1>1, <1>4, WaitConserves DEF IInv
<1>5. ASSUME NEW p \in Threads, Fork(p) PROVE FALSE
  BY <1>5 DEF Fork
<1>6. CASE UNCHANGED vars
  BY <1>1, <1>6 DEF vars, IInv, Conservation
<1> QED BY <1>2, <1>3, <1>4, <1>5, <1>6 DEF Next

\* The invariant with Conservation holds of every behaviour in which nobody
\* forks.
THEOREM ConservationInductive == Forkers = {} => (Spec => []IInv)
<1> SUFFICES ASSUME Forkers = {} PROVE Spec => []IInv
  OBVIOUS
<1>1. Init => IInv
  BY InitIInv DEF IInv
<1>2. IInv /\ [Next]_vars => IInv'
  BY StepIInv
<1> QED BY <1>1, <1>2, PTL DEF Spec

\* No interleaving of ticks, exits and waits loses or duplicates a process.
THEOREM ProcessesConserved == Forkers = {} => (Spec => []Conservation)
<1>1. IInv => Conservation
  BY DEF IInv
<1> QED BY <1>1, ConservationInductive, PTL

-----------------------------------------------------------------------------
(***************************************************************************)
(* The scheduler implements ProcessLife.                                   *)
(***************************************************************************)

\* Processes that keep their blocks keep what they wait for.
LEMMA SameWaiting ==
    ASSUME UNCHANGED block PROVE UNCHANGED waiting
  BY DEF waiting, IsBlocking

\* A tick is a return from wait or changes nothing ProcessLife knows of.
LEMMA TickLife ==
    ASSUME IInv, Tick
    PROVE  Life!Next \/ UNCHANGED Life!vars
<1>1. CASE UNCHANGED <<alive, block, exitcode, result>>
  BY <1>1, SameWaiting DEF Life!vars
<1>2. CASE ~(UNCHANGED <<alive, block, exitcode, result>>)
  <2>1. PICK n : n = Head(QueueWithCurrent)
    OBVIOUS
  <2>2. /\ n \in alive
        /\ TickRuns(n)
        /\ block[n] # NoBlock
    BY <1>2, <2>1 DEF Tick, TickHalts, Fault, TickFindsBlocked, TickRuns
  <2>3. /\ ~IsBlocking(n)
        /\ block' = [block EXCEPT ![n] = NoBlock]
        /\ result' = [result EXCEPT ![n] = [call |-> "wait",
                                            pid |-> block[n].terminated,
                                            status |-> block[n].code]]
        /\ UNCHANGED <<alive, exitcode>>
    BY <2>2 DEF TickRuns, BlockReturn
  <2>4. /\ n \in Threads
        /\ block[n] \in WaitBlock
        /\ block \in [Threads -> WaitBlock \cup {NoBlock}]
    BY <2>2 DEF IInv, LifeInv, TypeOK
  <2>5. waiting[n] = {block[n].terminated}
    BY <2>2, <2>3, <2>4 DEF waiting
  <2>6. waiting' = [waiting EXCEPT ![n] = {}]
    BY <2>3, <2>4 DEF waiting, IsBlocking
  <2>7. /\ block[n].code \in ExitCodes
        /\ block[n].terminated \notin alive
        /\ block[n].terminated # Null =>
              block[n].code = exitcode[block[n].terminated]
    <3>1. block[n].code \in ExitCodes
      BY <2>4 DEF WaitBlock
    <3>2. CASE block[n].terminated = Null
      BY <3>1, <3>2, ThreadsAssumption DEF IInv, LifeInv, TypeOK
    <3>3. CASE block[n].terminated # Null
      BY <3>1, <3>3, <2>2, <2>3, <2>4 DEF IInv, LifeInv, ReleasedBlockReportsExit
    <3> QED BY <3>2, <3>3
  <2>8. Life!Return(n)
    BY <2>2, <2>3, <2>5, <2>6, <2>7 DEF Life!Return
  <2> QED BY <2>4, <2>8 DEF Life!Next
<1> QED BY <1>1, <1>2

\* syscall_exit is an exit of ProcessLife, or undefined.
LEMMA ExitLife ==
    ASSUME IInv, NEW p \in Threads, Exit(p)
    PROVE  Life!Next \/ UNCHANGED Life!vars
<1>1. CASE current = Null
  BY <1>1, SameWaiting DEF Exit, Fault, Life!vars
<1>2. CASE current # Null
  <2>0. PICK d : d = current
    OBVIOUS
  <2>1. PICK c \in ExitCodes : DeleteCurrent(c)
    BY <1>2 DEF Exit
  <2>2. /\ d \in Threads
        /\ d \in alive
        /\ block[d] = NoBlock
    BY <1>2, <2>0, CurrentFacts DEF IInv
  <2>3. /\ exitcode' = [exitcode EXCEPT ![d] = c]
        /\ Notify(d, c)
        /\ alive' = alive \ {d}
        /\ UNCHANGED result
    BY <2>0, <2>1 DEF DeleteCurrent
  <2>4. TypeOK /\ NoDanglingListener
    BY DEF IInv, LifeInv
  <2>5. UNCHANGED waiting
    <3> SUFFICES ASSUME NEW w \in Threads PROVE waiting'[w] = waiting[w]
      BY DEF waiting
    <3>1. CASE w \in listeners[d]
      <4>1. waiting[w] = {d}
        BY <3>1, <2>2, <2>3, <2>4, NotifyFacts DEF waiting
      <4>2. waiting'[w] = {d}
        BY <3>1, <2>2, <2>3, <2>4, NotifyFacts DEF waiting
      <4> QED BY <4>1, <4>2
    <3>2. CASE w \notin listeners[d]
      <4>1. block'[w] = block[w]
        BY <3>2, <2>2, <2>3, <2>4, NotifyFacts
      <4> QED BY <4>1 DEF waiting, IsBlocking
    <3> QED BY <3>1, <3>2
  <2>6. waiting[d] = {}
    BY <2>2 DEF waiting
  <2>7. Life!Exit(d)
    BY <2>2, <2>3, <2>5, <2>6 DEF Life!Exit
  <2> QED BY <2>2, <2>7 DEF Life!Next
<1> QED BY <1>1, <1>2

\* syscall_wait is the start of a wait of ProcessLife, or undefined.
LEMMA WaitLife ==
    ASSUME IInv, NEW p \in Threads, Wait(p)
    PROVE  Life!Next \/ UNCHANGED Life!vars
<1>1. CASE Fault
  BY <1>1, SameWaiting DEF Fault, Life!vars
<1>2. ASSUME NEW pid \in Threads \cup {AnyChild}, NEW stale \in ExitCodes,
             current # Null, BlockCurrent(pid, stale)
      PROVE  Life!Next
  <2>0. PICK d : d = current
    OBVIOUS
  <2>1. PICK b : b = NewWaitBlock(pid, stale)
    OBVIOUS
  <2>2. /\ d \in Threads
        /\ d \in alive
        /\ d \notin Range(queue)
        /\ alive = Range(queue) \cup {d}
        /\ block[d] = NoBlock
    BY <1>2, <2>0, CurrentFacts, CurrentNotQueued DEF IInv
  <2>3. /\ block' = [block EXCEPT ![d] = b]
        /\ UNCHANGED <<alive, exitcode, result>>
    BY <1>2, <2>0, <2>1 DEF BlockCurrent
  <2>4. /\ b # NoBlock /\ b.kind = "wait"
        /\ b.waitpid = pid /\ b.terminated = Null
        /\ b.active <=> (pid \in Range(queue) /\ pid # AnyChild)
    BY <2>1, NewWaitBlockFacts
  <2>5. block \in [Threads -> WaitBlock \cup {NoBlock}]
    BY DEF IInv, LifeInv, TypeOK
  <2>6. PICK t : t = IF b.active THEN pid ELSE Null
    OBVIOUS
  <2>7. t \in (alive \ {d}) \cup {Null}
    BY <2>2, <2>4, <2>6
  <2>8. waiting' = [waiting EXCEPT ![d] = {t}]
    <3>1. waiting'[d] = {t}
      BY <2>2, <2>3, <2>4, <2>5, <2>6 DEF waiting, IsBlocking
    <3>2. \A w \in Threads \ {d} : waiting'[w] = waiting[w]
      BY <2>2, <2>3, <2>5 DEF waiting, IsBlocking
    <3> QED BY <3>1, <3>2, <2>2 DEF waiting
  <2>9. waiting[d] = {}
    BY <2>2 DEF waiting
  <2>10. Life!StartWait(d)
    BY <2>2, <2>3, <2>7, <2>8, <2>9 DEF Life!StartWait
  <2> QED BY <2>2, <2>10 DEF Life!Next
<1> QED BY <1>1, <1>2 DEF Wait

\* Every behaviour of the scheduler in which nobody forks is, seen through
\* alive, waiting, exitcode and result, a behaviour of ProcessLife.
THEOREM SchedulerImplementsLife == Forkers = {} => (Spec => ImplementsProcessLife)
<1> SUFFICES ASSUME Forkers = {} PROVE Spec => Life!Spec
  BY DEF ImplementsProcessLife
<1>1. Init => Life!Init
  BY DEF Init, Life!Init, waiting, NoResult
<1>2. IInv /\ [Next]_vars => [Life!Next]_(Life!vars)
  <2> SUFFICES ASSUME IInv, [Next]_vars
               PROVE  Life!Next \/ UNCHANGED Life!vars
    OBVIOUS
  <2>1. CASE Tick
    BY <2>1, TickLife
  <2>2. ASSUME NEW p \in Threads, Exit(p)
        PROVE  Life!Next \/ UNCHANGED Life!vars
    BY <2>2, ExitLife
  <2>3. ASSUME NEW p \in Threads, Wait(p)
        PROVE  Life!Next \/ UNCHANGED Life!vars
    BY <2>3, WaitLife
  <2>4. ASSUME NEW p \in Threads, Fork(p) PROVE FALSE
    BY <2>4 DEF Fork
  <2>5. CASE UNCHANGED vars
    BY <2>5, SameWaiting DEF vars, Life!vars
  <2> QED BY <2>1, <2>2, <2>3, <2>4, <2>5 DEF Next
<1>3. Spec => []IInv
  BY ConservationInductive
<1> QED BY <1>1, <1>2, <1>3, PTL DEF Spec, Life!Spec
=============================================================================
