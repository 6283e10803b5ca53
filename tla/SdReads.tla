------------------------------ MODULE SdReads ------------------------------
(***************************************************************************)
(* Reading blocks from the SD card while the kernel runs: the read queue   *)
(* and the interrupt handler of sd.cpp, the operation objects of           *)
(* io_operation.cpp, and their clients, threads in block_device's          *)
(* read_block and read_blocks (device.cpp) and kthread::wait_for_io.       *)
(*                                                                         *)
(* post_read runs in the thread, with interrupts enabled, so the handler   *)
(* or another thread may come between any two of its accesses to shared    *)
(* state: each access is a step.  The interrupt handler runs with          *)
(* interrupts masked and is one step.  The controller is external: it      *)
(* works on one command at a time and raises status flags in between.      *)
(*                                                                         *)
(* A thread has one read at a time, so the read, its operation object and  *)
(* its queue node all go by the name of the thread.  Block addresses are   *)
(* relative to the first block of the read.                                *)
(***************************************************************************)
EXTENDS Integers, Sequences, FiniteSets

CONSTANTS
    Clients,    \* the threads that read
    MaxBlocks,  \* bound: the length of a read
    Preemptive, \* FALSE: nothing comes between the steps of post_read, as if
                \* it masked interrupts; the code does not
    Null

ASSUME ClientsAssumption == Null \notin Clients
ASSUME MaxBlocksAssumption == MaxBlocks \in Nat \ {0}

\* The card's blocks, and the driver's pointer to unsigned int.
BlockBytes == 512
WordBytes == 4

VARIABLES
    pc, tail,              \* each thread's place in read_blocks; its copy of
                           \* the queue's back pointer in push_back
    exists, blocks, blocksRead, status,  \* the operation object of each read
    got,                   \* the blocks written to the destination, in order
    front, back, nextNode, nodes,  \* read_queue, and the nodes not deleted
    active,                \* sd::active_read
    cmd, phase, stat,      \* the controller: command, progress, status flags
    mode                   \* "run", or "fault": undefined behaviour

clientVars == <<pc, tail>>
opVars == <<exists, blocks, blocksRead, status, got>>
queueVars == <<front, back, nextNode, nodes>>
cardVars == <<cmd, phase, stat>>
vars == <<clientVars, opVars, queueVars, active, cardVars, mode>>

NoCmd == [reader |-> Null, block |-> 0]

\* wait_for_io loops while the operation is queued or incomplete.  An object
\* that complete has deleted still shows its last status: the words that the
\* allocator puts there on reuse are sizes, never one of these two values.
Pending(c) == status[c] \in {"queued", "incomplete"}

Goto(c, label) == pc' = [pc EXCEPT ![c] = label]

\* The threads that are inside post_read.
Posting == {c \in Clients : pc[c] \notin {"idle", "wait"}}

At(c, label) ==
    /\ mode = "run"
    /\ pc[c] = label
    /\ Preemptive \/ Posting \subseteq {c}

Init ==
    /\ pc = [c \in Clients |-> "idle"]
    /\ tail = [c \in Clients |-> Null]
    /\ exists = [c \in Clients |-> FALSE]
    /\ blocks = [c \in Clients |-> 0]
    /\ blocksRead = [c \in Clients |-> 0]
    /\ status = [c \in Clients |-> "none"]
    /\ got = [c \in Clients |-> <<>>]
    /\ front = Null
    /\ back = Null
    /\ nextNode = [c \in Clients |-> Null]
    /\ nodes = {}
    /\ active = Null
    /\ cmd = NoCmd
    /\ phase = "idle"
    /\ stat = {}
    /\ mode = "run"

-----------------------------------------------------------------------------
(***************************************************************************)
(* Operations shared by the thread and the interrupt handler.              *)
(***************************************************************************)

\* send_cmd17, for the next block of read c.  A command written while another
\* one is in progress takes its place.
SendCmd17(c, block) ==
    /\ cmd' = [reader |-> c, block |-> block]
    /\ phase' = "sent"

\* kqueue::pop_front of a queue that is not empty.
PopFront ==
    /\ front' = nextNode[front]
    /\ back' = IF nextNode[front] = Null THEN Null ELSE back
    /\ nodes' = nodes \ {front}
    /\ UNCHANGED nextNode

\* io_operation::complete.  No read has a callback, so the object is deleted.
\* The handler that calls it then sets the status of the next read in the
\* queue, if there is one.
Complete(c) ==
    /\ status' = [d \in Clients |->
                    IF d = c THEN "successful"
                    ELSE IF d = front THEN "incomplete" ELSE status[d]]
    /\ exists' = [exists EXCEPT ![c] = FALSE]

-----------------------------------------------------------------------------
(***************************************************************************)
(* The thread: read_blocks, post_read with push_back, initiate_next_read   *)
(* and initiate_read, wait_for_io, and the delete at the end.              *)
(***************************************************************************)

\* The operation is created, its status set to queued, and push_back creates
\* the queue node.
PostRead(c, n) ==
    /\ At(c, "idle")
    /\ exists' = [exists EXCEPT ![c] = TRUE]
    /\ blocks' = [blocks EXCEPT ![c] = n]
    /\ blocksRead' = [blocksRead EXCEPT ![c] = 0]
    /\ status' = [status EXCEPT ![c] = "queued"]
    /\ got' = [got EXCEPT ![c] = <<>>]
    /\ nodes' = nodes \cup {c}
    /\ nextNode' = [nextNode EXCEPT ![c] = Null]
    /\ Goto(c, "push")
    /\ UNCHANGED <<tail, front, back, active, cardVars, mode>>

\* push_back tests the back pointer.
PushReadsBack(c) ==
    /\ At(c, "push")
    /\ tail' = [tail EXCEPT ![c] = back]
    /\ Goto(c, "link")
    /\ UNCHANGED <<opVars, queueVars, active, cardVars, mode>>

\* The node is linked behind the last one, or becomes the first one.  Writing
\* to a node that was deleted in the meantime is undefined: the write is lost,
\* or lands in what has been allocated there.
PushLinks(c) ==
    /\ At(c, "link")
    /\ IF tail[c] = Null
       THEN front' = c /\ UNCHANGED nextNode
       ELSE /\ UNCHANGED front
            /\ nextNode' = [nextNode EXCEPT ![tail[c]] = c]
    /\ \/ UNCHANGED mode
       \/ tail[c] \notin nodes \cup {Null} /\ mode' = "fault"
    /\ Goto(c, "back")
    /\ UNCHANGED <<tail, opVars, back, nodes, active, cardVars>>

PushSetsBack(c) ==
    /\ At(c, "back")
    /\ back' = c
    /\ tail' = [tail EXCEPT ![c] = Null]
    /\ Goto(c, "test")
    /\ UNCHANGED <<opVars, front, nextNode, nodes, active, cardVars, mode>>

\* Mutant: post_read leaves the start to the interrupt handler.
TestActiveNever(c) ==
    /\ At(c, "test")
    /\ Goto(c, "wait")
    /\ UNCHANGED <<tail, opVars, queueVars, active, cardVars, mode>>

\* Mutant: the next read is started whether one is active or not.
TestActiveNot(c) ==
    /\ At(c, "test")
    /\ Goto(c, "pop")
    /\ UNCHANGED <<tail, opVars, queueVars, active, cardVars, mode>>

\* post_read starts the next read only if none is active.
TestActive(c) ==
    /\ At(c, "test")
    /\ Goto(c, IF active = Null THEN "pop" ELSE "wait")
    /\ UNCHANGED <<tail, opVars, queueVars, active, cardVars, mode>>

\* initiate_next_read.  The operation that is popped, in tail, need not be
\* the thread's own.
PopNext(c) ==
    /\ At(c, "pop")
    /\ IF front = Null
       THEN Goto(c, "wait") /\ UNCHANGED <<tail, queueVars>>
       ELSE /\ tail' = [tail EXCEPT ![c] = front]
            /\ PopFront
            /\ Goto(c, "start")
    /\ UNCHANGED <<opVars, active, cardVars, mode>>

\* initiate_read up to the command.
Start(c) ==
    /\ At(c, "start")
    /\ status' = [status EXCEPT ![tail[c]] = "incomplete"]
    /\ active' = tail[c]
    /\ Goto(c, "send")
    /\ UNCHANGED <<tail, exists, blocks, blocksRead, got, queueVars, cardVars,
                   mode>>

\* initiate_read sends the command for the first block.
Send(c) ==
    /\ At(c, "send")
    /\ SendCmd17(tail[c], 0)
    /\ tail' = [tail EXCEPT ![c] = Null]
    /\ Goto(c, "wait")
    /\ UNCHANGED <<opVars, queueVars, active, stat, mode>>

\* wait_for_io returns, and read_blocks deletes the operation.  When complete
\* has deleted it before, free may follow a null pointer (the block may have
\* been merged), or do nothing.
WaitAndDelete(c) ==
    /\ At(c, "wait")
    /\ ~Pending(c)
    /\ exists' = [exists EXCEPT ![c] = FALSE]
    /\ Goto(c, "idle")
    /\ \/ UNCHANGED mode
       \/ ~exists[c] /\ mode' = "fault"
    /\ UNCHANGED <<tail, blocks, blocksRead, status, got, queueVars, active,
                   cardVars>>

-----------------------------------------------------------------------------
(***************************************************************************)
(* sd::irq_handler.                                                        *)
(***************************************************************************)

\* No read is active: every flag is cleared.
IrqIgnored ==
    /\ active = Null
    /\ stat' = {}
    /\ UNCHANGED <<opVars, queueVars, active, cmd, phase>>

\* Where the block goes, in blocks from the start of the destination:
\* get_block_size counts bytes, the array it is an index of counts words.
\* What a reader of several blocks finds in its buffer is in Fat32.
Slot(c) == (blocksRead[c] * BlockBytes * WordBytes) \div BlockBytes

\* Mutant: the next block is asked for before the transfer is complete.
IrqBlockAsksNext ==
    /\ active # Null
    /\ "brr" \in stat
    /\ got' = [got EXCEPT ![active] =
                 Append(@, [slot |-> Slot(active), of |-> cmd])]
    /\ blocksRead' = [blocksRead EXCEPT ![active] = @ + 1]
    /\ SendCmd17(active, blocksRead[active] + 1)
    /\ stat' = stat \ {"brr"}
    /\ UNCHANGED <<exists, blocks, status, queueVars, active>>

\* brr: the controller's buffer is read until it is empty.
IrqBlock ==
    /\ active # Null
    /\ "brr" \in stat
    /\ got' = [got EXCEPT ![active] =
                 Append(@, [slot |-> Slot(active), of |-> cmd])]
    /\ blocksRead' = [blocksRead EXCEPT ![active] = @ + 1]
    /\ phase' = IF phase = "buffered" THEN "drained" ELSE phase
    /\ stat' = stat \ {"brr"}
    /\ UNCHANGED <<exists, blocks, status, queueVars, active, cmd>>

\* Mutant: the last block is not waited for.
MoreBlocksTooFew(c) == blocksRead[c] < blocks[c] - 1

\* Mutant: one block too many is read.
MoreBlocksTooMany(c) == blocksRead[c] <= blocks[c]

\* Blocks are left to read.
MoreBlocks(c) == blocksRead[c] < blocks[c]

\* Mutant: the block that has just been read is asked for again.
IrqNextBlockAgain ==
    /\ SendCmd17(active, blocksRead[active] - 1)
    /\ stat' = stat \ {"tc"}
    /\ UNCHANGED <<opVars, queueVars, active>>

\* tc, with blocks left: the command for the next block, then tc is cleared.
IrqNextBlock ==
    /\ SendCmd17(active, blocksRead[active])
    /\ stat' = stat \ {"tc"}
    /\ UNCHANGED <<opVars, queueVars, active>>

\* Mutant: the next read is started before active_read is cleared.
IrqCompletesClearsLast ==
    /\ Complete(active)
    /\ active' = Null
    /\ stat' = stat \ {"tc"}
    /\ IF front = Null
       THEN UNCHANGED <<queueVars, cmd, phase>>
       ELSE PopFront /\ SendCmd17(front, 0)
    /\ UNCHANGED <<blocks, blocksRead, got>>

\* Mutant: the next read in the queue is not started.
IrqCompletesStops ==
    /\ Complete(active)
    /\ active' = Null
    /\ stat' = stat \ {"tc"}
    /\ UNCHANGED <<queueVars, cmd, phase, blocks, blocksRead, got>>

\* tc after the last block: the operation completes, and the next one in the
\* queue is started.
IrqCompletes ==
    /\ Complete(active)
    /\ active' = front
    /\ stat' = stat \ {"tc"}
    /\ IF front = Null
       THEN UNCHANGED <<queueVars, cmd, phase>>
       ELSE PopFront /\ SendCmd17(front, 0)
    /\ UNCHANGED <<blocks, blocksRead, got>>

IrqTransferComplete ==
    /\ active # Null
    /\ "brr" \notin stat
    /\ "tc" \in stat
    /\ IF MoreBlocks(active) THEN IrqNextBlock ELSE IrqCompletes

\* cc is cleared.  An error flag is neither handled nor cleared, so that the
\* handler is called again at once.
IrqCommandComplete ==
    /\ active # Null
    /\ stat \cap {"brr", "tc"} = {}
    /\ stat' = stat \ {"cc"}
    /\ UNCHANGED <<opVars, queueVars, active, cmd, phase>>

Irq ==
    /\ mode = "run"
    /\ Preemptive \/ Posting = {}
    /\ stat # {}
    /\ IrqIgnored \/ IrqBlock \/ IrqTransferComplete \/ IrqCommandComplete
    /\ UNCHANGED <<clientVars, mode>>

-----------------------------------------------------------------------------
(***************************************************************************)
(* The controller, as sd.cpp relies on it: a read command is acknowledged, *)
(* its block fills the buffer, and the transfer is complete once the       *)
(* buffer has been read.                                                   *)
(***************************************************************************)
CardStep(from, to, flag) ==
    /\ mode = "run"
    /\ phase = from
    /\ phase' = to
    /\ stat' = stat \cup {flag}
    /\ UNCHANGED <<clientVars, opVars, queueVars, active, mode>>

CardAcknowledges == CardStep("sent", "reading", "cc") /\ UNCHANGED cmd
CardFillsBuffer == CardStep("reading", "buffered", "brr") /\ UNCHANGED cmd
CardFinishes == CardStep("drained", "idle", "tc") /\ cmd' = NoCmd

\* A command or data timeout, or a CRC error: one of the flags that
\* send_cmd17 enables interrupts for.
CardFails ==
    /\ cmd' = NoCmd
    /\ CardStep("sent", "idle", "error") \/ CardStep("reading", "idle", "error")

Card == CardAcknowledges \/ CardFillsBuffer \/ CardFinishes \/ CardFails

Client(c) ==
    \/ PushReadsBack(c) \/ PushLinks(c) \/ PushSetsBack(c) \/ TestActive(c)
    \/ PopNext(c) \/ Start(c) \/ Send(c) \/ WaitAndDelete(c)

Next ==
    \/ \E c \in Clients : \/ Client(c)
                          \/ \E n \in 1..MaxBlocks : PostRead(c, n)
    \/ Irq
    \/ Card

\* The round robin gives every thread the CPU again and again, an interrupt
\* stays pending until it is taken, and the card answers.  No thread needs to
\* read.
Spec ==
    /\ Init
    /\ [][Next]_vars
    /\ \A c \in Clients : SF_vars(Client(c))
    /\ SF_vars(Irq)
    /\ WF_vars(Card)

-----------------------------------------------------------------------------
\* The type invariant.
TypeOK ==
    /\ pc \in [Clients -> {"idle", "push", "link", "back", "test", "pop",
                           "start", "send", "wait"}]
    /\ tail \in [Clients -> Clients \cup {Null}]
    /\ exists \in [Clients -> BOOLEAN]
    /\ blocks \in [Clients -> 0..MaxBlocks]
    /\ blocksRead \in [Clients -> 0..MaxBlocks]
    /\ status \in [Clients -> {"none", "queued", "incomplete", "successful"}]
    /\ \A c \in Clients : Len(got[c]) \in 0..MaxBlocks
    /\ {front, back, active} \subseteq Clients \cup {Null}
    /\ nextNode \in [Clients -> Clients \cup {Null}]
    /\ nodes \subseteq Clients
    /\ cmd \in [reader : Clients \cup {Null}, block : 0..MaxBlocks]
    /\ phase \in {"idle", "sent", "reading", "buffered", "drained"}
    /\ stat \subseteq {"cc", "brr", "tc", "error"}
    /\ mode \in {"run", "fault"}

\* The driver writes a command only when the controller has finished with
\* the one before it, although the thread in post_read and the interrupt
\* handler both write commands and neither asks the controller.
CommandWhenIdle ==
    [][\A c \in Clients : \A b \in 0..MaxBlocks :
          cmd' = [reader |-> c, block |-> b] /\ cmd' # cmd => cmd = NoCmd]_vars

\* The controller never works for a read that is not the active one: a block
\* in its buffer is the next one that the active read is missing, so that
\* the handler cannot give it to another read nor throw it away.
BufferBelongsToActive ==
    /\ cmd # NoCmd => active = cmd.reader
    /\ phase = "buffered" => blocksRead[active] = cmd.block

\* What is reported as successful was read: every block of the read, once,
\* and in order.
SuccessfulReadIsWhole ==
    \A c \in Clients : status[c] = "successful" =>
        /\ Len(got[c]) = blocks[c]
        /\ \A i \in DOMAIN got[c] :
              got[c][i].of = [reader |-> c, block |-> i - 1]

\* Every read that is posted ends, so that its thread can go on: wait_for_io
\* has no timeout.  The card must not have reported an error: the handler
\* leaves the error flag set and the read incomplete for ever.
EveryReadEnds ==
    \A c \in Clients : (pc[c] = "wait") ~>
        (pc[c] # "wait" \/ "error" \in stat \/ mode = "fault")
=============================================================================
