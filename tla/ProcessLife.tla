---------------------------- MODULE ProcessLife ----------------------------
(***************************************************************************)
(* What the exit and wait system calls promise to processes, as            *)
(* scheduler.h documents them: wait blocks its caller until the process it *)
(* names has terminated, and returns that process's exit code.  Queue,     *)
(* timer and register blocks do not appear here; Scheduler implements this *)
(* specification.                                                          *)
(***************************************************************************)
CONSTANTS Threads, ExitCodes, Null

VARIABLES
    alive,     \* the processes that have not terminated
    waiting,   \* {} or {p} for each process: whom it waits for; {Null} when
               \* there was nobody to wait for
    exitcode,  \* the argument of exit of each terminated process
    result     \* what the last system call returned

vars == <<alive, waiting, exitcode, result>>

Init ==
    /\ alive = Threads
    /\ waiting = [p \in Threads |-> {}]
    /\ exitcode = [p \in Threads |-> 0]
    /\ result = [p \in Threads |-> [call |-> "none"]]

Exit(p) ==
    /\ p \in alive
    /\ waiting[p] = {}
    /\ alive' = alive \ {p}
    /\ \E c \in ExitCodes : exitcode' = [exitcode EXCEPT ![p] = c]
    /\ UNCHANGED <<waiting, result>>

\* p starts to wait for another live process, or for nobody.
StartWait(p) ==
    /\ p \in alive
    /\ waiting[p] = {}
    /\ \E t \in (alive \ {p}) \cup {Null} :
          waiting' = [waiting EXCEPT ![p] = {t}]
    /\ UNCHANGED <<alive, exitcode, result>>

\* The wait returns once its process is gone.  The status is that process's
\* exit code; it is arbitrary when there was nobody to wait for.
Return(p) ==
    /\ p \in alive
    /\ \E t \in waiting[p], s \in ExitCodes :
          /\ t \notin alive
          /\ t # Null => s = exitcode[t]
          /\ result' = [result EXCEPT ![p] = [call |-> "wait", pid |-> t,
                                              status |-> s]]
    /\ waiting' = [waiting EXCEPT ![p] = {}]
    /\ UNCHANGED <<alive, exitcode>>

Next == \E p \in Threads : Exit(p) \/ StartWait(p) \/ Return(p)

Spec == Init /\ [][Next]_vars
=============================================================================
