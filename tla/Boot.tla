-------------------------------- MODULE Boot --------------------------------
(***************************************************************************)
(* From kernel_main to the mounted root: the interrupt and system call     *)
(* tables, the first start of timer 0, the initialization of the SD card,  *)
(* the partition table, the device manager and the mount of sd0p0.         *)
(*                                                                         *)
(* The card is external: it walks through the states of the SD protocol,   *)
(* may be missing, may not hear a command and may lose an answer.  Its     *)
(* controller then reports a command timeout.  A driver's busy loop on a   *)
(* register is a step that waits.  Init is the state after the global      *)
(* constructors (start.S): the UART is registered and its interrupt on.    *)
(*                                                                         *)
(* Left out: the registers of clocks, power and bus speed; the other       *)
(* threads; what the FAT32 driver reads (Vfs); how a read is carried       *)
(* out (SdReads).                                                          *)
(***************************************************************************)
EXTENDS Integers, Sequences, FiniteSets

CONSTANTS
    Mbrs,           \* partition tables: 1 .. 4 -> [type, start, size]
    BootDevices,    \* the names of the timers and UARTs, as constructed
    Preallocate     \* device_mgr::PREALLOCATE_DEVICES (32)

PartName == <<"sd0p0", "sd0p1", "sd0p2", "sd0p3">>

ASSUME MbrsAssumption ==
    Mbrs \subseteq [1 .. 4 -> [type : Nat, start : Nat, size : Nat]]
ASSUME DevicesAssumption == Preallocate \in Nat
\* The timers and UARTs are constructed with names of their own.
ASSUME BootDevicesAssumption ==
    /\ BootDevices \in Seq(STRING)
    /\ \A i, j \in DOMAIN BootDevices : BootDevices[i] = BootDevices[j] => i = j
    /\ \A i \in DOMAIN BootDevices :
          BootDevices[i] \notin {"none", "sd0"} \cup {PartName[k] : k \in 1 .. 4}

VARIABLES
    pc,             \* kernel_main, then the init thread
    handlers, unmasked,     \* irq_handler's table; the controller's mask
    syscalls,       \* syscall_handler's table
    timerRuns,      \* timer 0
    card,           \* the card: state, width, selection, CMD55 seen
    cmd,            \* the command in progress
    stat, reply,    \* the controller's status flags and response register
    ise,            \* whether status flags raise the SD interrupt
    host,           \* the driver: rca, bus width, active_read
    mbr, buffer,    \* the card's first block; what the driver has of it
    devices,        \* device_mgr::devices, index - 1 -> device
    nextDevnum,
    root            \* the root file system's partition, or NoDevice

driverVars == <<handlers, unmasked, syscalls, timerRuns, devices, nextDevnum,
                root>>
vars == <<pc, driverVars, card, cmd, stat, reply, ise, host, mbr, buffer>>

NoDevice == [name |-> "none"]
NoTable == <<>>
TimerIrq == 37
UartIrq == 74
SdIrq == 83
FAT32 == 12                     \* the type 0xc

---------------------------------------------------------------------------

\* irq_handler::register_handler.
RegisterHandler(n) ==
    /\ handlers' = handlers \cup {n}
    /\ unmasked' = unmasked \cup {n}

\* device_mgr::register_device for each of the devices in turn.  get(index)
\* makes room for one more element, or for `index' of them when the index is
\* further away.  A second device of a name loses its number.
\* Mutant: the array does not grow.
NoGrowth(array, index) == array
Grown(array, index) ==
    LET capacity == CASE index < Len(array) -> Len(array)
                      [] index = Len(array) -> index + 1
                      [] OTHER -> index
    IN  [i \in 1 .. capacity |-> IF i <= Len(array) THEN array[i] ELSE NoDevice]
Find(array, name) ==
    LET at == {i \in DOMAIN array : array[i].name = name}
    IN  IF at = {} THEN NoDevice
        ELSE array[CHOOSE i \in at : \A j \in at : i <= j]
Registered(array, from, news) ==
    LET after[i \in 0 .. Len(news)] ==
            IF i = 0 THEN array
            ELSE LET before == after[i - 1]
                     index == from + i - 1
                     room == Grown(before, index)
                 IN  IF Find(before, news[i].name) # NoDevice THEN before
                     ELSE [j \in DOMAIN room |->
                             IF j = index + 1 THEN news[i] ELSE room[j]]
    IN  after[Len(news)]

\* The constructor of expandable_array initialises its capacity with itself;
\* from every value up to Preallocate the constructor of device_mgr ends here.
EmptyArray == [i \in 1 .. Preallocate |-> NoDevice]

Init ==
    /\ pc = "kernel_main"
    /\ handlers = {UartIrq} /\ unmasked = {UartIrq}
    /\ syscalls = {}
    /\ timerRuns = FALSE
    /\ \E state \in {"absent", "idle"} :
          card = [state |-> state, width |-> 1, rca |-> 0, app |-> FALSE]
    /\ cmd = "none" /\ stat = {} /\ reply = "none" /\ ise = FALSE
    /\ host = [rca |-> 0, width |-> 1, reading |-> FALSE]
    /\ mbr \in Mbrs /\ buffer = NoTable
    /\ devices = Registered(EmptyArray, 0,
                    [i \in DOMAIN BootDevices |-> [name |-> BootDevices[i]]])
    /\ nextDevnum = Len(BootDevices)
    /\ root = NoDevice

\* kernel_main: the system call handler, the scheduler with its three system
\* calls, the init thread.
KernelMain ==
    /\ pc = "kernel_main"
    /\ syscalls' = {"exit", "fork", "wait"}
    /\ pc' = "start"
    /\ UNCHANGED <<handlers, unmasked, timerRuns, devices, nextDevnum, root,
                   card, cmd, stat, reply, ise, host, mbr, buffer>>

\* scheduler::start, with timer::start.
StartTimer ==
    /\ pc = "start"
    /\ RegisterHandler(TimerIrq)
    /\ timerRuns' = TRUE
    /\ pc' = "wfi"
    /\ UNCHANGED <<syscalls, devices, nextDevnum, root, card, cmd, stat,
                   reply, ise, host, mbr, buffer>>

\* The first overflow of the timer gives the CPU to the init thread.
Tick ==
    /\ pc = "wfi"
    /\ timerRuns /\ TimerIrq \in unmasked
    /\ pc' = IF TimerIrq \in handlers THEN "sd" ELSE "fault"
    /\ UNCHANGED <<driverVars, card, cmd, stat, reply, ise, host, mbr, buffer>>

---------------------------------------------------------------------------

Reset ==
    /\ stat' = {} /\ cmd' = "none" /\ ise' = FALSE
ConstructSd ==
    /\ pc = "sd"
    /\ devices' = Registered(devices, nextDevnum, <<[name |-> "sd0"]>>)
    /\ nextDevnum' = nextDevnum + 1
    /\ Reset
    /\ RegisterHandler(SdIrq)
    /\ pc' = "cmd0"
    /\ UNCHANGED <<syscalls, timerRuns, root, card, reply, host, mbr, buffer>>

\* send_cmd0 to send_acmd41.  The argument of CMD7 and of CMD55 is the rca.
Commands == {"cmd0", "cmd8", "cmd55_41", "acmd41", "cmd2", "cmd3", "cmd7",
             "cmd55_6", "acmd6"}
Send ==
    /\ pc \in Commands
    /\ cmd = "none"
    /\ cmd' = pc
    /\ stat' = {}
    /\ UNCHANGED <<pc, driverVars, card, reply, ise, host, mbr, buffer>>

\* What a card that hears the command becomes; itself, if it does not answer
\* such a command in its state.
NewRca == 7
Heard(c) ==
    LET addressed == card.rca = host.rca
        Becomes(s) == [card EXCEPT !.state = s, !.app = FALSE]
    IN  CASE c = "cmd0" -> [Becomes("idle") EXCEPT !.rca = 0, !.width = 1]
          [] c = "cmd8" /\ card.state = "idle" -> Becomes("idle")
          [] c \in {"cmd55_41", "cmd55_6"} /\ addressed ->
                [card EXCEPT !.app = TRUE]
          [] c = "acmd41" /\ card.app /\ card.state = "idle" -> Becomes("ready")
          [] c = "cmd2" /\ card.state = "ready" -> Becomes("ident")
          [] c = "cmd3" /\ card.state = "ident" ->
                [Becomes("stby") EXCEPT !.rca = NewRca]
          [] c = "cmd7" /\ addressed /\ card.state = "stby" -> Becomes("tran")
          [] c = "acmd6" /\ card.app /\ card.state = "tran" ->
                [Becomes("tran") EXCEPT !.width = 4]
          [] OTHER -> card
Answers(c) == card.state # "absent" /\ (Heard(c) # card \/ c = "cmd8")

InProgress == cmd \in Commands /\ stat = {}
CardSilent ==
    /\ InProgress
    /\ cmd # "cmd0"             \* has no answer that could be missing
    /\ \/ card' = card
       \/ card.state # "absent" /\ card' = Heard(cmd)
    /\ stat' = {"cto"}
    /\ UNCHANGED <<pc, driverVars, cmd, reply, ise, host, mbr, buffer>>
CardSaysBusy ==
    /\ InProgress /\ cmd = "acmd41" /\ Answers(cmd)
    /\ card' = [card EXCEPT !.app = FALSE]
    /\ stat' = {"cc"} /\ reply' = "busy"
    /\ UNCHANGED <<pc, driverVars, cmd, ise, host, mbr, buffer>>
CardAnswers ==
    /\ InProgress
    /\ cmd = "cmd0" \/ Answers(cmd)
    /\ card' = IF card.state = "absent" THEN card ELSE Heard(cmd)
    /\ stat' = {"cc"}
    /\ reply' \in CASE cmd = "cmd8" -> {"accepted", "other pattern",
                                        "other voltage"}
                    [] cmd = "acmd41" -> {"powered up"}
                    [] OTHER -> {"none"}
    /\ UNCHANGED <<pc, driverVars, cmd, ise, host, mbr, buffer>>

\* initialize_card: what follows a command, by its outcome.
\* Mutant: the card is taken as selected without an answer.
AfterUnselected(ok) ==
    CASE pc = "cmd0" -> "cmd8"
      [] pc = "cmd8" -> IF ok /\ reply = "accepted" THEN "cmd55_41" ELSE "vfs"
      [] pc = "cmd55_41" -> IF ok THEN "acmd41" ELSE "vfs"
      [] pc = "acmd41" -> IF ~ok THEN "vfs"
                          ELSE IF reply = "busy" THEN "cmd55_41" ELSE "cmd2"
      [] pc = "cmd2" -> IF ok THEN "cmd3" ELSE "vfs"
      [] pc = "cmd3" -> IF ok THEN "cmd7" ELSE "vfs"
      [] pc = "cmd7" -> "cmd55_6"
      [] pc = "cmd55_6" -> IF ok THEN "acmd6" ELSE "enable"
      [] pc = "acmd6" -> "enable"
After(ok) ==
    CASE pc = "cmd0" -> "cmd8"
      [] pc = "cmd8" -> IF ok /\ reply = "accepted" THEN "cmd55_41" ELSE "vfs"
      [] pc = "cmd55_41" -> IF ok THEN "acmd41" ELSE "vfs"
      [] pc = "acmd41" -> IF ~ok THEN "vfs"
                          ELSE IF reply = "busy" THEN "cmd55_41" ELSE "cmd2"
      [] pc = "cmd2" -> IF ok THEN "cmd3" ELSE "vfs"
      [] pc = "cmd3" -> IF ok THEN "cmd7" ELSE "vfs"
      [] pc = "cmd7" -> IF ok THEN "cmd55_6" ELSE "vfs"
      [] pc = "cmd55_6" -> IF ok THEN "acmd6" ELSE "enable"
      [] pc = "acmd6" -> "enable"

\* wait_for_status returns, and the caller looks at the answer.
WaitForStatus ==
    /\ pc = cmd /\ stat # {}
    /\ LET ok == stat = {"cc"}
       IN  /\ pc' = After(ok)
           /\ host' = [host EXCEPT
                  !.rca = IF cmd = "cmd3" /\ ok THEN NewRca ELSE @,
                  !.width = IF cmd = "acmd6" /\ ok THEN 4 ELSE @]
    /\ cmd' = "none"
    /\ UNCHANGED <<driverVars, card, stat, reply, ise, mbr, buffer>>

\* The end of initialize_card: all flags are cleared before the interrupts are
\* enabled.
ClearStatus ==
    /\ pc = "enable"
    /\ stat' = {}
    /\ pc' = "ise"
    /\ UNCHANGED <<driverVars, card, cmd, reply, ise, host, mbr, buffer>>
EnableInterrupts ==
    /\ pc = "ise"
    /\ ise' = TRUE
    /\ pc' = "initiate"
    /\ UNCHANGED <<driverVars, card, cmd, stat, reply, host, mbr, buffer>>

\* read_partition_table posts the read of the first block.  No read is active,
\* so that post_read starts it: active_read is set before CMD17 is sent.
\* Mutant: active_read is set after CMD17 has been sent.
InitiateReadLate ==
    /\ \/ pc = "initiate" /\ cmd' = "cmd17" /\ pc' = "late" /\ UNCHANGED host
       \/ /\ pc = "late" /\ UNCHANGED cmd /\ pc' = "wait_for_io"
          /\ host' = [host EXCEPT !.reading = TRUE]
    /\ UNCHANGED <<driverVars, card, stat, reply, ise, mbr, buffer>>
InitiateRead ==
    /\ pc = "initiate"
    /\ host' = [host EXCEPT !.reading = TRUE]
    /\ pc' = "cmd17"
    /\ UNCHANGED <<driverVars, card, cmd, stat, reply, ise, mbr, buffer>>
SendCmd17 ==
    /\ pc = "cmd17"
    /\ cmd' = "cmd17"
    /\ pc' = "wait_for_io"
    /\ UNCHANGED <<driverVars, card, stat, reply, ise, host, mbr, buffer>>

\* The end of the read: data from a card that is selected and uses the lines
\* that the host uses, or an error.
EndOfRead ==
    /\ cmd = "cmd17" /\ stat = {}
    /\ \/ stat' = {"tc"} /\ card.state = "tran" /\ card.width = host.width
       \/ stat' = {"error"}
    /\ UNCHANGED <<pc, driverVars, card, cmd, reply, ise, host, mbr, buffer>>

\* sd::irq_handler.  Without an active read it clears every flag.  When the
\* transfer is complete it completes the read.  An error is neither handled
\* nor cleared: the read stays as it is, and the handler is called again.
SdInterrupt ==
    /\ ise /\ stat # {} /\ {SdIrq} \subseteq unmasked \cap handlers
    /\ IF ~host.reading
       THEN stat' = {} /\ UNCHANGED <<cmd, host, buffer>>
       ELSE IF "tc" \in stat
       THEN /\ buffer' = mbr
            /\ host' = [host EXCEPT !.reading = FALSE]
            /\ stat' = {} /\ cmd' = "none"
       ELSE UNCHANGED <<stat, cmd, host, buffer>>
    /\ UNCHANGED <<pc, driverVars, card, reply, ise, mbr>>

\* wait_for_io returns.  io_operation::complete has deleted the operation, and
\* read_partition_table deletes it a second time: undefined, as in SdReads.
WaitForIo ==
    /\ pc = "wait_for_io" /\ ~host.reading
    /\ pc' \in {"table", "fault"}
    /\ UNCHANGED <<driverVars, card, cmd, stat, reply, ise, host, mbr, buffer>>

\* The rest of read_partition_table.
Partition(i) ==
    [name |-> PartName[i], type |-> buffer[i].type, start |-> buffer[i].start,
     end |-> buffer[i].size + buffer[i].start]
ReadPartitionTable ==
    /\ pc = "table"
    /\ LET used == {i \in 1 .. 4 : buffer[i].type # 0}
           Nth(k) == CHOOSE i \in used : Cardinality({j \in used : j <= i}) = k
           news == [k \in 1 .. Cardinality(used) |-> Partition(Nth(k))]
       IN  /\ devices' = Registered(devices, nextDevnum, news)
           /\ nextDevnum' = nextDevnum + Len(news)
    /\ pc' = "vfs"
    /\ UNCHANGED <<handlers, unmasked, syscalls, timerRuns, root, card, cmd,
                   stat, reply, ise, host, mbr, buffer>>

\* init_thread::run from vfs::initialize on: filesystem::initialize reads the
\* type of the partition that get_device_by_name returned.
MountRoot ==
    /\ pc = "vfs"
    /\ LET part == Find(devices, "sd0p0")
       IN  \/ /\ part = NoDevice
              /\ pc' = "fault"
              /\ UNCHANGED root
           \/ /\ part # NoDevice
              /\ pc' = "panic"  \* not FAT32, or not usable
              /\ UNCHANGED root
           \/ /\ part # NoDevice
              /\ part.type = FAT32
              /\ root' = part
              /\ pc' = "mounted"
    /\ UNCHANGED <<handlers, unmasked, syscalls, timerRuns, devices,
                   nextDevnum, card, cmd, stat, reply, ise, host, mbr, buffer>>

Ended == {"mounted", "panic", "fault"}
Kernel ==
    /\ pc \notin Ended
    /\ \/ KernelMain \/ StartTimer \/ Tick \/ ConstructSd \/ Send
       \/ WaitForStatus \/ ClearStatus \/ EnableInterrupts \/ InitiateRead
       \/ SendCmd17 \/ SdInterrupt \/ WaitForIo \/ ReadPartitionTable
       \/ MountRoot
Card == CardSilent \/ CardSaysBusy \/ CardAnswers \/ EndOfRead
Next == Kernel \/ Card

\* Timer and controller do their work; a card does not stay busy forever.
Spec == /\ Init /\ [][Next]_vars
        /\ WF_vars(Kernel) /\ WF_vars(Card)
        /\ SF_vars(cmd = "acmd41" /\ CardAnswers)

---------------------------------------------------------------------------

\* The driver reads only from a card that it has selected, and uses four data
\* lines only if the card does: after lost commands and lost answers the
\* driver's idea of the card is never ahead of the card (sd.cpp:101-131).
DriverNotAhead ==
    /\ host.reading => card.state = "tran" /\ card.rca = host.rca
    /\ host.width = 4 => card.width = 4

\* No SD interrupt comes without an active read.  Its handler would throw all
\* flags away, those that the initialization polls for and those that end the
\* read of the first block alike, and wait_for_status or wait_for_io would wait
\* forever.  So no flag may be up when the interrupts are enabled, and none may
\* go up before active_read is set (sd.cpp:131-134, 457-463, 472-479).
InterruptHasRead ==
    ise /\ stat # {} /\ {SdIrq} \subseteq unmasked \cap handlers => host.reading

\* When the partition table has been read, the devices are those of the boot,
\* the card, and the partitions whose type is not 0, each found under its name
\* with its blocks; the root is the first of them (sd.cpp:140-172,
\* device_mgr.cpp, expandable_array.h).
PartitionsFound ==
    pc \in {"vfs", "mounted"} /\ buffer # NoTable =>
    /\ \A i \in 1 .. 4 :
          LET dev == Find(devices, PartName[i])
          IN  IF mbr[i].type = 0 THEN dev = NoDevice
              ELSE /\ dev # NoDevice
                   /\ dev.start = mbr[i].start
                   /\ dev.end - dev.start = mbr[i].size
    /\ \A name \in {BootDevices[i] : i \in DOMAIN BootDevices} \cup {"sd0"} :
          Find(devices, name) # NoDevice
    /\ pc = "mounted" => mbr[1].type = FAT32 /\ root.name = "sd0p0"

=============================================================================
