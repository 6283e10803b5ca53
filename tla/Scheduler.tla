----------------------------- MODULE Scheduler -----------------------------
(***************************************************************************)
(* The process scheduler: scheduler.cpp, the wait blocks it creates        *)
(* (waitblock.cpp), the termination listeners of process.cpp and the part  *)
(* of context_switch.S and interrupts.S that decides which thread the CPU  *)
(* runs.                                                                   *)
(*                                                                         *)
(* The machine has one CPU.  Thread code runs with interrupts enabled, so  *)
(* a timer tick may come between any two of its instructions.  Exception   *)
(* handlers (the tick and the system calls) run with interrupts masked, so *)
(* each of them is one step.  A context switch runs the thread whose       *)
(* register contents `register_block' points to, or idles in a wfi loop    *)
(* when it is null; `current_process' is a separate variable, and nothing  *)
(* but the code below keeps the two together.                              *)
(*                                                                         *)
(* A process is identified with its PID.  kernel_main schedules every      *)
(* process before it starts the timer.  Every one is a kernel thread:      *)
(* enable_addrspace selects the kernel's table for all of them, so the     *)
(* address space is no part of the state.                                  *)
(***************************************************************************)
EXTENDS Integers, Sequences, FiniteSets, Functions

CONSTANTS
    Threads,    \* the processes scheduled before the timer is started
    ExitCodes,  \* the arguments of exit, and the contents of stale memory
    Forkers,    \* the processes that use the fork system call
    MaxQueue,   \* bound: nobody forks when the queue has this many entries
    AnyChild,   \* the PID arguments -1 and 0 of wait: "any child"
    Null        \* the null pointer, and the PID -1 that wait returns

ASSUME ThreadsAssumption ==
    /\ IsFiniteSet(Threads)
    /\ Threads # {}
    /\ AnyChild \notin Threads
    /\ Null \notin Threads
    /\ AnyChild # Null

ASSUME ExitCodesAssumption == 0 \in ExitCodes

ASSUME ForkersAssumption == Forkers \subseteq Threads

VARIABLES
    queue,      \* scheduler::process_queue
    current,    \* scheduler::current_process
    regblk,     \* register_block: whose registers a context switch uses
    mode,       \* "run", "halted" (kernel::halt) or "fault" (undefined)
    alive,      \* the process objects that have not been deleted
    block,      \* process::block of each process
    listeners,  \* the processes whose wait block listens to each process
    exitcode,   \* process::exit_code
    result      \* what the last returned system call left to its caller

vars == <<queue, current, regblk, mode, alive, block, listeners, exitcode,
          result>>

NoBlock == [kind |-> "none"]
NoResult == [call |-> "none"]

\* The fields of a waitblock.  The pid field terminated is the value that
\* wait will return; code is the status it will store.
WaitBlock == [kind : {"wait"}, waitpid : Threads \cup {AnyChild},
              active : BOOLEAN, terminated : Threads \cup {Null},
              code : ExitCodes]

Result == [call : {"wait", "fork"}, pid : Threads \cup {Null},
           status : ExitCodes]

\* process::is_blocking: there is a block and it is active.
IsBlocking(p) == block[p].kind = "wait" /\ block[p].active

\* process::get_num_children.  The only code that adds a child is the body
\* of process::fork, and that is commented out.
NumChildren(p) == 0

\* Mutant: the search looks at the first entry only.
FoundAtHead(pid) == queue # <<>> /\ Head(queue) = pid

\* scheduler::get_process: the search of the queue.  It finds a process that
\* is queued; the current process is not.
Found(pid) == pid \in Range(queue)

\* The search dereferences every queued process up to the one it looks for.
SearchTouchesDeleted(pid) ==
    \E i \in DOMAIN queue :
        queue[i] \notin alive /\ \A j \in 1..(i - 1) : queue[j] # pid

-----------------------------------------------------------------------------
Init ==
    /\ queue \in [1..Cardinality(Threads) -> Threads]
    /\ Range(queue) = Threads
    /\ IsInjective(queue)
    /\ current = Null
    /\ regblk = Null
    /\ mode = "run"
    /\ alive = Threads
    /\ block = [p \in Threads |-> NoBlock]
    /\ listeners = [p \in Threads |-> {}]
    /\ exitcode = [p \in Threads |-> 0]
    /\ result = [p \in Threads |-> NoResult]

\* Undefined behaviour: nothing is known of the machine afterwards.
Fault ==
    /\ mode' = "fault"
    /\ UNCHANGED <<queue, current, regblk, alive, block, listeners, exitcode,
                   result>>

(***************************************************************************)
(* The timer interrupt: switch_context saves the registers of the running  *)
(* thread, calls scheduler::interrupt and restores those `register_block'  *)
(* then points to.                                                         *)
(***************************************************************************)

\* The queue once interrupt has pushed the current process back into it.
QueueWithCurrent == IF current = Null THEN queue ELSE Append(queue, current)

\* Mutant: with nothing to run the tick returns instead of halting.
TickHaltsNever == QueueWithCurrent = <<>> /\ UNCHANGED vars

\* The queue is empty: the timer is stopped and the kernel halts.
TickHalts ==
    /\ QueueWithCurrent = <<>>
    /\ mode' = "halted"
    /\ UNCHANGED <<queue, current, regblk, alive, block, listeners, exitcode,
                   result>>

\* Mutant: a blocking process goes back to the front of the queue.
TickFindsBlockedKeepsHead(p) ==
    /\ IsBlocking(p)
    /\ queue' = QueueWithCurrent
    /\ current' = Null
    /\ UNCHANGED <<regblk, mode, alive, block, listeners, exitcode, result>>

\* Mutant: a blocking process is dropped instead of pushed back.
TickFindsBlockedDrops(p) ==
    /\ IsBlocking(p)
    /\ queue' = Tail(QueueWithCurrent)
    /\ current' = Null
    /\ UNCHANGED <<regblk, mode, alive, block, listeners, exitcode, result>>

\* The process taken from the queue is blocking.  It is queued again, and
\* interrupt returns before it has assigned `register_block'.
TickFindsBlocked(p) ==
    /\ IsBlocking(p)
    /\ queue' = Append(Tail(QueueWithCurrent), p)
    /\ current' = Null
    /\ UNCHANGED <<regblk, mode, alive, block, listeners, exitcode, result>>

\* waitblock::block_return: the PID goes to the caller's r0 and the exit code
\* to the status location, whatever they hold.
BlockReturn(p) ==
    result' = [result EXCEPT ![p] = [call |-> "wait",
                                     pid |-> block[p].terminated,
                                     status |-> block[p].code]]

\* Mutant: a process that is still blocking is run as well.
TickRunsUnchecked(p) ==
    /\ queue' = Tail(QueueWithCurrent)
    /\ current' = p
    /\ regblk' = p
    /\ UNCHANGED <<mode, alive, block, listeners, exitcode, result>>

\* Mutant: the block is not removed once it has been released.
TickRunsKeepsBlock(p) ==
    /\ ~IsBlocking(p)
    /\ queue' = Tail(QueueWithCurrent)
    /\ current' = p
    /\ regblk' = p
    /\ IF block[p] = NoBlock THEN UNCHANGED result ELSE BlockReturn(p)
    /\ UNCHANGED <<mode, alive, block, listeners, exitcode>>

\* The process taken from the queue runs.  A released block is returned from
\* and deleted first.
TickRuns(p) ==
    /\ ~IsBlocking(p)
    /\ queue' = Tail(QueueWithCurrent)
    /\ current' = p
    /\ regblk' = p
    /\ IF block[p] = NoBlock
       THEN UNCHANGED <<block, result>>
       ELSE /\ BlockReturn(p)
            /\ block' = [block EXCEPT ![p] = NoBlock]
    /\ UNCHANGED <<mode, alive, listeners, exitcode>>

\* scheduler::interrupt.  Calling a virtual method of a deleted process is
\* undefined.
Tick ==
    /\ mode = "run"
    /\ \/ TickHalts
       \/ /\ QueueWithCurrent # <<>>
          /\ LET next == Head(QueueWithCurrent)
             IN  IF next \in alive
                 THEN TickFindsBlocked(next) \/ TickRuns(next)
                 ELSE Fault

-----------------------------------------------------------------------------
(***************************************************************************)
(* The system calls.  int_svc saves the caller's context and calls the     *)
(* handler; the caller is the thread the CPU runs, but the handlers act on *)
(* `current_process', and dereference it without a test.                   *)
(***************************************************************************)
Running(p) == mode = "run" /\ regblk = p

\* Mutant: only one of the listeners is called.
NotifyOne(p, c) ==
    IF listeners[p] = {} THEN block' = block
    ELSE \E w \in listeners[p] :
            block' = [block EXCEPT ![w].active = FALSE,
                                   ![w].terminated = p, ![w].code = c]

\* Mutant: the block is released but the exit code is not copied.
NotifyWithoutCode(p, c) ==
    block' = [w \in Threads |->
                IF w \in listeners[p]
                THEN [block[w] EXCEPT !.active = FALSE, !.terminated = p]
                ELSE block[w]]

\* The destructor of process p calls waitblock::process_terminated of all
\* its termination listeners.
Notify(p, c) ==
    block' = [w \in Threads |->
                IF w \in listeners[p]
                THEN [block[w] EXCEPT !.active = FALSE, !.terminated = p,
                                      !.code = c]
                ELSE block[w]]

\* Mutant: register_block still points into the deleted process.
DeleteKeepsRegisters(c) ==
    /\ exitcode' = [exitcode EXCEPT ![current] = c]
    /\ Notify(current, c)
    /\ listeners' = [listeners EXCEPT ![current] = {}]
    /\ alive' = alive \ {current}
    /\ current' = Null
    /\ UNCHANGED <<queue, regblk, mode, result>>

\* set_exit_code, delete current_process, and the two pointers reset; the
\* CPU then waits for the next tick in force_reschedule.
DeleteCurrent(c) ==
    /\ exitcode' = [exitcode EXCEPT ![current] = c]
    /\ Notify(current, c)
    /\ listeners' = [listeners EXCEPT ![current] = {}]
    /\ alive' = alive \ {current}
    /\ current' = Null
    /\ regblk' = Null
    /\ UNCHANGED <<queue, mode, result>>

\* scheduler::syscall_exit.
Exit(p) ==
    /\ Running(p)
    /\ IF current = Null THEN Fault
       ELSE \E c \in ExitCodes : DeleteCurrent(c)

\* Mutant: the PID to return starts as the one that was asked for.
NewWaitBlockReturnsArgument(pid, stale) ==
    [kind |-> "wait", waitpid |-> pid,
     active |-> NumChildren(current) # 0 \/ Found(pid),
     terminated |-> pid, code |-> stale]

\* Mutant: the new block is active although there is nobody to wait for.
NewWaitBlockAlwaysActive(pid, stale) ==
    [kind |-> "wait", waitpid |-> pid, active |-> TRUE,
     terminated |-> Null, code |-> stale]

\* A child for the PIDs -1 and 0, the named process for any other.
SomeoneToWaitFor(pid) ==
    \/ pid = AnyChild /\ NumChildren(current) # 0
    \/ pid # AnyChild /\ Found(pid)

\* The constructor of waitblock.  Nothing initialises exit_code, so it holds
\* what the allocated memory held before.
NewWaitBlock(pid, stale) ==
    [kind |-> "wait", waitpid |-> pid,
     active |-> SomeoneToWaitFor(pid),
     terminated |-> Null, code |-> stale]

\* add_termination_listener of the process that was found.
Listen(pid) ==
    listeners' = IF pid # AnyChild /\ Found(pid)
                 THEN [listeners EXCEPT ![pid] = @ \cup {current}]
                 ELSE listeners

\* Mutant: the waiting process is not queued again.
BlockCurrentNotQueued(pid, stale) ==
    /\ block' = [block EXCEPT ![current] = NewWaitBlock(pid, stale)]
    /\ Listen(pid)
    /\ UNCHANGED queue
    /\ current' = Null
    /\ regblk' = Null
    /\ UNCHANGED <<mode, alive, exitcode, result>>

\* The new block is set, the process queued and the two pointers reset; the
\* CPU then waits for the next tick in force_reschedule.
BlockCurrent(pid, stale) ==
    /\ block' = [block EXCEPT ![current] = NewWaitBlock(pid, stale)]
    /\ Listen(pid)
    /\ queue' = Append(queue, current)
    /\ current' = Null
    /\ regblk' = Null
    /\ UNCHANGED <<mode, alive, exitcode, result>>

\* scheduler::syscall_wait.
Wait(p) ==
    /\ Running(p)
    /\ \E pid \in Threads \cup {AnyChild} :
          IF current = Null \/ (pid # AnyChild /\ SearchTouchesDeleted(pid))
          THEN Fault
          ELSE \E stale \in ExitCodes : BlockCurrent(pid, stale)

\* scheduler::syscall_fork.  process::fork has no body and returns whatever
\* is left in r0: its own `this' pointer, or an unrelated word.
Fork(p) ==
    /\ Running(p)
    /\ p \in Forkers
    /\ Len(queue) < MaxQueue
    /\ \/ Fault
       \/ /\ current # Null
          /\ queue' = Append(queue, current)
          /\ result' = [result EXCEPT ![p] = [call |-> "fork",
                                              pid |-> current, status |-> 0]]
          /\ UNCHANGED <<current, regblk, mode, alive, block, listeners,
                         exitcode>>

Next == Tick \/ \E p \in Threads : Exit(p) \/ Wait(p) \/ Fork(p)

\* The timer is started in repeating mode and thread code never masks
\* interrupts, so ticks keep coming.  Threads owe nothing.
Spec == Init /\ [][Next]_vars /\ WF_vars(Tick)

-----------------------------------------------------------------------------
(***************************************************************************)
(* The scheduler as an implementation of ProcessLife, which says what exit *)
(* and wait promise and knows neither queue nor CPU.                       *)
(***************************************************************************)
waiting ==
    [p \in Threads |->
        IF block[p] = NoBlock THEN {}
        ELSE IF IsBlocking(p) THEN {block[p].waitpid}
        ELSE {block[p].terminated}]

Life == INSTANCE ProcessLife

\* Whatever the order of ticks, exits and waits, the scheduler's processes
\* live the lives of ProcessLife: a wait returns only when the process it
\* named is gone, with that process's exit code, and a waiting process
\* neither exits nor waits again.
ImplementsProcessLife == Life!Spec

-----------------------------------------------------------------------------
\* The type invariant.
TypeOK ==
    /\ queue \in Seq(Threads)
    /\ current \in Threads \cup {Null}
    /\ regblk \in Threads \cup {Null}
    /\ mode \in {"run", "halted", "fault"}
    /\ alive \in SUBSET Threads
    /\ block \in [Threads -> WaitBlock \cup {NoBlock}]
    /\ listeners \in [Threads -> SUBSET Threads]
    /\ exitcode \in [Threads -> ExitCodes]
    /\ result \in [Threads -> Result \cup {NoResult}]

\* Process conservation.  Through any interleaving of ticks, exits and waits
\* every process that has not exited is in the scheduler's hands exactly
\* once, as the current process or as one queue entry, and no exited process
\* is: interrupt, syscall_wait and syscall_exit neither lose nor duplicate a
\* process.  (It needs that nobody forks.)
Conservation ==
    /\ IsInjective(queue)
    /\ current \notin Range(queue)
    /\ alive = Range(queue) \cup ({current} \ {Null})

\* The CPU only ever runs, and the next tick only ever stores registers
\* into, a process that is not deleted and has no wait pending, although
\* interrupt may leave register_block alone when it finds a blocked process.
CpuOwnerReady ==
    regblk # Null => regblk \in alive /\ block[regblk] = NoBlock

\* No lost wake-up: a process blocked in wait is registered with a process
\* that is still there to call it, so waitblock never stays active after the
\* process it waits for was deleted.
NoLostWakeup ==
    \A p \in Threads : p \in alive /\ IsBlocking(p) =>
        /\ block[p].waitpid \in alive
        /\ p \in listeners[block[p].waitpid]

\* No dangling listener: every listener that the destructor of a process
\* would call is the active wait block of a process that still exists and
\* waits for exactly this process.
NoDanglingListener ==
    \A t \in alive : \A p \in listeners[t] :
        /\ p \in alive
        /\ IsBlocking(p)
        /\ block[p].waitpid = t

\* What wait tells its caller is true: when it returns a PID, that process
\* has been deleted and the status is the code it passed to exit.
WaitReportsExit ==
    \A p \in Threads :
        result[p] # NoResult /\ result[p].call = "wait" /\ result[p].pid # Null =>
            /\ result[p].pid \notin alive
            /\ result[p].status = exitcode[result[p].pid]

\* A wait that has failed had nobody to wait for: the process it named does
\* not exist any more, or is the caller itself.  get_process searches the
\* queue only, so this rests on every other live process being queued.
WaitFailsOnlyForDead ==
    \A p \in alive :
        block[p] # NoBlock /\ ~IsBlocking(p) /\ block[p].terminated = Null =>
            block[p].waitpid \notin alive \ {p}

\* interrupt halts the kernel only when every process has exited.
HaltsOnlyWhenDone == mode = "halted" => alive = {}

\* Round robin: a process that is neither blocked nor current gets the CPU
\* as current process, whatever the others do.
ReadyProcessRuns ==
    \A p \in Threads :
        (mode = "run" /\ p \in alive /\ ~IsBlocking(p))
            ~> (current = p \/ mode = "fault")

\* A wait whose process has exited returns to the waiting process.
ReleasedWaitReturns ==
    \A p \in Threads :
        (mode = "run" /\ p \in alive /\ block[p] # NoBlock /\ ~IsBlocking(p))
            ~> (block[p] = NoBlock \/ mode = "fault")

\* When the last process has exited the kernel halts.
HaltsWhenDone == (mode = "run" /\ alive = {}) ~> (mode = "halted")
=============================================================================
