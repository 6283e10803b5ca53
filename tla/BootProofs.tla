----------------------------- MODULE BootProofs -----------------------------
(***************************************************************************)
(* Proofs about Boot, for every partition table, device list and array     *)
(* capacity, and for every card that loses commands and answers.           *)
(***************************************************************************)
EXTENDS Boot, SetInduction

\* The values of the variables that the driver and the card share.
Rcas == {0, NewRca}
Widths == {1, 4}
CardStates == {"absent", "idle", "ready", "ident", "stby", "tran"}
BeforeCommands == {"kernel_main", "start", "wfi", "sd"}
ReadSteps == {"enable", "ise", "initiate", "cmd17", "wait_for_io"}
AfterCommands == ReadSteps \cup {"table", "vfs", "mounted", "panic", "fault"}
Types ==
    /\ card \in [state : CardStates, width : Widths, rca : Rcas, app : BOOLEAN]
    /\ host \in [rca : Rcas, width : Widths, reading : BOOLEAN]
    /\ ise \in BOOLEAN
    /\ pc \in BeforeCommands \cup Commands \cup AfterCommands

\* Where the driver is decides whether a command is in progress, whether the
\* interrupts are on, and whether a read is active: from the command that is
\* about to be sent to the interrupt that completes the read.
Selected == {"cmd55_6", "acmd6"} \cup ReadSteps
InStep ==
    /\ cmd = IF pc = "wait_for_io" /\ host.reading THEN "cmd17"
             ELSE IF pc \in Commands /\ cmd # "none" THEN pc ELSE "none"
    /\ pc = "cmd17" => host.reading
    /\ host.reading => pc \in {"cmd17", "wait_for_io"}
    /\ pc \in {"initiate", "cmd17", "wait_for_io"} => ise
    /\ ise => pc \notin BeforeCommands \cup Commands \cup {"enable", "ise"}
    /\ (ise /\ ~host.reading) \/ pc \in {"ise", "cmd17"} => stat = {}

\* What the driver takes from an answer is so: the card was selected, and has
\* changed its width.  An answer that got lost leaves the driver behind.
CardFollowed ==
    /\ pc \in Selected \/ (cmd = "cmd7" /\ stat = {"cc"}) =>
          card.state = "tran" /\ card.rca = host.rca
    /\ cmd = "acmd6" /\ stat = {"cc"} => card.width = 4
    /\ host.width = 4 =>
          card.width = 4 /\ pc \notin BeforeCommands \cup Commands

BootInv == Types /\ InStep /\ CardFollowed

LEMMA BootInit == Init => BootInv
<1> SUFFICES ASSUME Init PROVE BootInv
  OBVIOUS
<1>1. card \in [state : CardStates, width : Widths, rca : Rcas, app : BOOLEAN]
  <2>1. PICK state \in {"absent", "idle"} :
             card = [state |-> state, width |-> 1, rca |-> 0, app |-> FALSE]
    BY DEF Init
  <2> QED BY <2>1 DEF CardStates, Widths, Rcas
<1>2. host = [rca |-> 0, width |-> 1, reading |-> FALSE]
  BY DEF Init
<1>3. pc = "kernel_main" /\ cmd = "none" /\ stat = {} /\ ise = FALSE
  BY DEF Init
<1>4. /\ host \in [rca : Rcas, width : Widths, reading : BOOLEAN]
      /\ ~host.reading /\ host.width # 4
  BY <1>2 DEF Rcas, Widths
<1>5. Types
  BY <1>1, <1>3, <1>4 DEF Types, BeforeCommands
<1>6. InStep /\ CardFollowed
  BY <1>3, <1>4 DEF InStep, CardFollowed, Selected, ReadSteps, BeforeCommands,
                    Commands
<1> QED BY <1>5, <1>6 DEF BootInv

\* The card's reaction keeps the card's type, its selection once it has one,
\* and its width but for CMD0.
LEMMA HeardFacts ==
    ASSUME Types, NEW c
    PROVE  /\ Heard(c) \in [state : CardStates, width : Widths, rca : Rcas,
                            app : BOOLEAN]
           /\ c \in {"cmd55_6", "acmd6"} =>
                 Heard(c).rca = card.rca /\ Heard(c).state = card.state
           /\ c = "cmd7" /\ Heard(c) # card =>
                 card.rca = host.rca /\ Heard(c).rca = card.rca
                 /\ Heard(c).state = "tran"
           /\ c = "acmd6" /\ Heard(c) # card => Heard(c).width = 4
           /\ c = "cmd17" => Heard(c) = card
           /\ c # "cmd0" /\ card.width = 4 => Heard(c).width = 4
BY DEF Types, Heard, CardStates, Widths, Rcas, NewRca

\* After a command comes a command, the read, or the end of the attempt; and
\* after CMD7 the bus width is set only when the card has answered.
LEMMA AfterFacts ==
    ASSUME pc \in Commands, NEW ok \in BOOLEAN
    PROVE  /\ After(ok) \in Commands \cup {"enable", "vfs"}
           /\ After(ok) \in {"cmd55_6", "acmd6", "enable"} =>
                 pc \in {"cmd55_6", "acmd6"} \/ (pc = "cmd7" /\ ok)
           /\ After(ok) # "cmd0"
           /\ pc = "acmd6" => After(ok) = "enable"
BY DEF After, Commands

LEMMA BootStep == BootInv /\ [Next]_vars => BootInv'
<1> SUFFICES ASSUME BootInv, [Next]_vars PROVE BootInv'
  OBVIOUS
<1> USE DEF BootInv, Types, InStep, CardFollowed, BeforeCommands, Selected,
            Commands, ReadSteps, AfterCommands
<1>1. CASE KernelMain
  BY <1>1 DEF KernelMain
<1>2. CASE StartTimer
  BY <1>2 DEF StartTimer
<1>3. CASE Tick
  BY <1>3 DEF Tick
<1>4. CASE ConstructSd
  BY <1>4 DEF ConstructSd, Reset
<1>5. CASE Send
  BY <1>5 DEF Send
<1>6. CASE WaitForStatus
  <2> DEFINE ok == stat = {"cc"}
  <2>1. /\ pc = cmd /\ cmd \in Commands /\ cmd # "cmd17" /\ ~ise
        /\ host.width # 4
        /\ pc' = After(ok)
        /\ cmd' = "none"
        /\ UNCHANGED <<card, stat, ise>>
    BY <1>6 DEF WaitForStatus
  <2>2. /\ pc' \in Commands \cup {"enable", "vfs"}
        /\ pc' \in {"cmd55_6", "acmd6", "enable"} =>
              pc \in {"cmd55_6", "acmd6"} \/ (pc = "cmd7" /\ ok)
        /\ pc = "acmd6" => pc' = "enable"
    BY <2>1, AfterFacts
  <2>3. host' \in [rca : Rcas, width : Widths, reading : BOOLEAN]
    BY <1>6 DEF WaitForStatus, Rcas, Widths
  <2>4. /\ host'.reading = host.reading
        /\ cmd # "cmd3" => host'.rca = host.rca
        /\ host'.width = 4 => cmd = "acmd6" /\ ok
    BY <1>6, <2>1 DEF WaitForStatus
  <2> QED BY <2>1, <2>2, <2>3, <2>4
<1>7. CASE ClearStatus \/ EnableInterrupts \/ InitiateRead \/ SendCmd17
  <2>1. CASE ClearStatus
    BY <2>1 DEF ClearStatus
  <2>2. CASE EnableInterrupts
    BY <2>2 DEF EnableInterrupts
  <2>3. CASE InitiateRead
    BY <2>3 DEF InitiateRead
  <2>4. CASE SendCmd17
    BY <2>4 DEF SendCmd17
  <2> QED BY <1>7, <2>1, <2>2, <2>3, <2>4
<1>8. CASE SdInterrupt \/ WaitForIo
  <2>1. CASE SdInterrupt
    BY <2>1 DEF SdInterrupt
  <2>2. CASE WaitForIo
    BY <2>2 DEF WaitForIo
  <2> QED BY <1>8, <2>1, <2>2
<1>9. CASE ReadPartitionTable
  BY <1>9 DEF ReadPartitionTable
<1>10. CASE MountRoot
  BY <1>10 DEF MountRoot
<1>11. CASE CardSilent
  BY <1>11, HeardFacts DEF CardSilent, InProgress
<1>12. CASE CardSaysBusy
  BY <1>12 DEF CardSaysBusy, InProgress
<1>13. CASE CardAnswers
  <2>1. /\ cmd # "none" /\ stat = {} /\ stat' = {"cc"}
        /\ cmd # "cmd0" => Heard(cmd) # card \/ cmd = "cmd8"
        /\ card' = card \/ card' = Heard(cmd)
        /\ cmd # "cmd0" => card' = Heard(cmd)
        /\ UNCHANGED <<pc, cmd, ise, host>>
    BY <1>13 DEF CardAnswers, InProgress, Answers
  <2>2. /\ card' \in [state : CardStates, width : Widths, rca : Rcas,
                      app : BOOLEAN]
        /\ cmd \in {"cmd55_6", "acmd6"} =>
              card'.rca = card.rca /\ card'.state = card.state
        /\ cmd = "cmd7" => card'.state = "tran" /\ card'.rca = host.rca
        /\ cmd = "acmd6" => card'.width = 4
    BY <2>1, HeardFacts
  <2>3. cmd # "cmd17"
    BY <1>13, <2>1, HeardFacts
  <2> QED BY <2>1, <2>2, <2>3
<1>14. CASE EndOfRead
  BY <1>14 DEF EndOfRead
<1>15. CASE UNCHANGED vars
  BY <1>15 DEF vars, driverVars
<1> QED
  BY <1>1, <1>2, <1>3, <1>4, <1>5, <1>6, <1>7, <1>8, <1>9, <1>10, <1>11,
     <1>12, <1>13, <1>14, <1>15 DEF Next, Kernel, Card

\* The inductive invariant: command, interrupt and card are where the driver's
\* program counter says.
THEOREM BootInvariant == Spec => []BootInv
BY BootInit, BootStep, PTL DEF Spec

\* However many commands and answers are lost, the driver reads only from a
\* card that it has selected, over lines that the card uses.
THEOREM DriverIsNotAhead == Spec => []DriverNotAhead
<1>1. BootInv => DriverNotAhead
  BY DEF BootInv, InStep, CardFollowed, DriverNotAhead, Selected, ReadSteps
<1> QED BY <1>1, BootInvariant, PTL

\* Whatever the card does and loses, the SD interrupt comes only while the
\* read that its handler serves is active, so that it never throws away the
\* flags that the initialization or the read waits for.
THEOREM InterruptFindsRead == Spec => []InterruptHasRead
<1>1. BootInv => InterruptHasRead
  BY DEF BootInv, InStep, InterruptHasRead
<1> QED BY <1>1, BootInvariant, PTL

---------------------------------------------------------------------------
(***************************************************************************)
(* The device manager: register_device and get_device_by_name.             *)
(***************************************************************************)

\* The first n elements of the array are the devices in S, all of them, and
\* the others are empty.
Holds(array, n, S) ==
    \E c \in Nat :
        /\ n \in 0 .. c
        /\ array \in [1 .. c -> S \cup {NoDevice}]
        /\ \A i \in 1 .. n : array[i] \in S
        /\ \A i \in n + 1 .. c : array[i] = NoDevice
        /\ \A d \in S : \E i \in 1 .. n : array[i] = d

\* Every device has a name of its own, and none that of an empty element.
Named(S) ==
    /\ \A d, e \in S : d.name = e.name => d = e
    /\ \A d \in S : d.name # "none"

\* get_device_by_name finds the device of a name, and nothing under another.
LEMMA FindFinds ==
    ASSUME NEW array, NEW n, NEW S, Holds(array, n, S), Named(S), NEW name,
           name # "none"
    PROVE  /\ \A d \in S : d.name = name => Find(array, name) = d
           /\ (\A d \in S : d.name # name) => Find(array, name) = NoDevice
<1>1. PICK c \in Nat :
        /\ n \in 0 .. c
        /\ array \in [1 .. c -> S \cup {NoDevice}]
        /\ \A i \in 1 .. n : array[i] \in S
        /\ \A i \in n + 1 .. c : array[i] = NoDevice
        /\ \A d \in S : \E i \in 1 .. n : array[i] = d
  BY DEF Holds
<1>2. PICK at : at = {i \in DOMAIN array : array[i].name = name}
  OBVIOUS
<1>3. at \in SUBSET (1 .. c) /\ \A i \in at : array[i] \in S /\ array[i].name = name
  <2>1. NoDevice.name # name
    BY DEF NoDevice
  <2> QED BY <1>1, <1>2, <2>1
<1>4. ASSUME NEW d \in S, d.name = name PROVE Find(array, name) = d
  <2>1. at # {}
    BY <1>1, <1>2, <1>4
  <2>2. Min(at) \in at
    BY <1>3, <2>1, LeastNumber
  <2>3. Find(array, name) = array[Min(at)]
    BY <1>2, <2>1 DEF Find, Min
  <2> QED BY <1>3, <1>4, <2>2, <2>3 DEF Named
<1>5. ASSUME \A d \in S : d.name # name PROVE Find(array, name) = NoDevice
  BY <1>2, <1>3, <1>5 DEF Find
<1> QED BY <1>4, <1>5

\* One call of register_device.
Put(before, index, dev) ==
    LET room == Grown(before, index)
    IN  IF Find(before, dev.name) # NoDevice THEN before
        ELSE [j \in DOMAIN room |-> IF j = index + 1 THEN dev ELSE room[j]]

LEMMA PutAdds ==
    ASSUME NEW array, NEW n, NEW S, Holds(array, n, S), Named(S), NEW dev,
           \A d \in S : d.name # dev.name, dev.name # "none"
    PROVE  /\ Holds(Put(array, n, dev), n + 1, S \cup {dev})
           /\ Named(S \cup {dev})
<1>1. PICK c \in Nat :
        /\ n \in 0 .. c
        /\ array \in [1 .. c -> S \cup {NoDevice}]
        /\ \A i \in 1 .. n : array[i] \in S
        /\ \A i \in n + 1 .. c : array[i] = NoDevice
        /\ \A d \in S : \E i \in 1 .. n : array[i] = d
  BY DEF Holds
<1>2. Len(array) = c
  BY <1>1, FunctionIsSeq
<1>3. Find(array, dev.name) = NoDevice
  BY FindFinds
<1>4. PICK k : k = IF n < c THEN c ELSE n + 1
  OBVIOUS
<1>5. k \in Nat /\ n + 1 \in 0 .. k /\ n + 1 \in 1 .. k /\ c <= k /\ (k = c \/ (k = c + 1 /\ n = c))
  BY <1>1, <1>4
<1>6. PICK room : room = Grown(array, n)
  OBVIOUS
<1>7. room = [i \in 1 .. k |-> IF i <= c THEN array[i] ELSE NoDevice]
  BY <1>1, <1>2, <1>4, <1>6 DEF Grown
<1>8. PICK new : new = Put(array, n, dev)
  OBVIOUS
<1>9. new = [j \in 1 .. k |-> IF j = n + 1 THEN dev ELSE room[j]]
  BY <1>3, <1>6, <1>7, <1>8 DEF Put
<1>10. new[n + 1] = dev
  BY <1>5, <1>9
<1>11. ASSUME NEW i \in 1 .. n PROVE new[i] = array[i] /\ i \in 1 .. n + 1
  <2>1. i \in 1 .. k /\ i # n + 1 /\ i <= c /\ i \in 1 .. n + 1
    BY <1>1, <1>5
  <2> QED BY <2>1, <1>7, <1>9
<1>12. ASSUME NEW i \in n + 2 .. k PROVE new[i] = NoDevice
  <2>1. i \in 1 .. k /\ i # n + 1 /\ i \in n + 1 .. c /\ i <= c
    BY <1>1, <1>5
  <2> QED BY <2>1, <1>1, <1>7, <1>9
<1>13. \A i \in 1 .. n + 1 : i \in 1 .. n \/ i = n + 1
  BY <1>1
<1>14. \A i \in 1 .. n + 1 : new[i] \in S \cup {dev}
  BY <1>1, <1>10, <1>11, <1>13
<1>15. \A i \in 1 .. k : i \in 1 .. n + 1 \/ i \in n + 2 .. k
  BY <1>1, <1>5
<1>16. new \in [1 .. k -> (S \cup {dev}) \cup {NoDevice}]
  <2>1. \A i \in 1 .. k : new[i] \in (S \cup {dev}) \cup {NoDevice}
    BY <1>12, <1>14, <1>15
  <2> QED BY <1>9, <2>1
<1>17. \A d \in S \cup {dev} : \E i \in 1 .. n + 1 : new[i] = d
  <2>1. n + 1 \in 1 .. n + 1
    BY <1>1
  <2>2. ASSUME NEW d \in S PROVE \E i \in 1 .. n + 1 : new[i] = d
    BY <1>1, <1>11
  <2> QED BY <1>10, <2>1, <2>2
<1>18. (n + 1) + 1 = n + 2
  BY <1>1
<1>19. Holds(new, n + 1, S \cup {dev})
  BY <1>5, <1>12, <1>14, <1>16, <1>17, <1>18 DEF Holds
<1>20. Named(S \cup {dev})
  BY DEF Named
<1> QED BY <1>8, <1>19, <1>20

\* The function by which Registered is defined exists and has the values that
\* its definition says: one call after the other.
Calls(after, m, array, from, news) ==
    /\ DOMAIN after = 0 .. m
    /\ after = [i \in 0 .. m |-> after[i]]
    /\ after[0] = array
    /\ \A i \in 1 .. m : after[i] = Put(after[i - 1], from + i - 1, news[i])

LEMMA CallsExist ==
    ASSUME NEW array, NEW from, NEW news, NEW m \in Nat
    PROVE  \E after : Calls(after, m, array, from, news)
<1> DEFINE S == {n \in Nat : \E after : Calls(after, n, array, from, news)}
<1>1. 0 \in S
  <2>1. PICK f : f = [i \in 0 .. 0 |-> array]
    OBVIOUS
  <2>2. Calls(f, 0, array, from, news)
    BY <2>1 DEF Calls
  <2> QED BY <2>2
<1>2. ASSUME NEW n \in Nat, n \in S PROVE n + 1 \in S
  <2>1. PICK f : Calls(f, n, array, from, news)
    BY <1>2
  <2>2. PICK v : v = Put(f[n], from + (n + 1) - 1, news[n + 1])
    OBVIOUS
  <2>3. PICK g : g = [i \in 0 .. n + 1 |-> IF i <= n THEN f[i] ELSE v]
    OBVIOUS
  <2>4. /\ DOMAIN g = 0 .. n + 1 /\ g = [i \in 0 .. n + 1 |-> g[i]]
        /\ g[n + 1] = v /\ \A i \in 0 .. n : g[i] = f[i]
    BY <2>3
  <2>5. ASSUME NEW i \in 1 .. n + 1
        PROVE  g[i] = Put(g[i - 1], from + i - 1, news[i])
    <3>1. CASE i = n + 1
      <4>1. i - 1 = n /\ n \in 0 .. n
        BY <3>1
      <4>2. g[i - 1] = f[n]
        BY <4>1, <2>4
      <4> QED BY <3>1, <4>2, <2>2, <2>4
    <3>2. CASE i # n + 1
      <4>1. i \in 1 .. n /\ i \in 0 .. n /\ i - 1 \in 0 .. n
        BY <3>2
      <4>2. g[i] = f[i] /\ g[i - 1] = f[i - 1]
        BY <4>1, <2>4
      <4> QED BY <4>1, <4>2, <2>1 DEF Calls
    <3> QED BY <3>1, <3>2
  <2>6. g[0] = array
    BY <2>1, <2>4 DEF Calls
  <2>7. Calls(g, n + 1, array, from, news)
    BY <2>4, <2>5, <2>6 DEF Calls
  <2> QED BY <2>7
<1>3. \A n \in Nat : n \in S
  <2> HIDE DEF S
  <2> QED BY <1>1, <1>2, NatSetInduction
<1> QED BY <1>3

LEMMA RegisteredIsCalls ==
    ASSUME NEW array, NEW from, NEW news, NEW m \in Nat, Len(news) = m
    PROVE  \E after : /\ Calls(after, m, array, from, news)
                      /\ Registered(array, from, news) = after[m]
<1> DEFINE Body(a) ==
        [i \in 0 .. m |->
            IF i = 0 THEN array ELSE Put(a[i - 1], from + i - 1, news[i])]
           f == CHOOSE a : a = Body(a)
<1>1. \E a : a = Body(a)
  <2>1. PICK a : Calls(a, m, array, from, news)
    BY CallsExist
  <2>2. PICK g : g = Body(a)
    OBVIOUS
  <2>3. ASSUME NEW i \in 0 .. m PROVE a[i] = g[i]
    <3>1. CASE i = 0
      BY <3>1, <2>1, <2>2 DEF Calls
    <3>2. CASE i # 0
      <4>1. i \in 1 .. m
        BY <3>2
      <4>2. g[i] = Put(a[i - 1], from + i - 1, news[i])
        BY <3>2, <2>2
      <4> QED BY <4>1, <4>2, <2>1 DEF Calls
    <3> QED BY <3>1, <3>2
  <2>4. a = g
    BY <2>1, <2>2, <2>3 DEF Calls
  <2> QED BY <2>2, <2>4
<1>2. f = Body(f)
  <2> HIDE DEF Body
  <2> QED BY <1>1
<1>3. Calls(f, m, array, from, news)
  <2> HIDE DEF f
  <2> QED BY <1>2 DEF Calls
<1>4. Registered(array, from, news) = f[m]
  BY DEF Registered, Put
<1> QED BY <1>3, <1>4

\* Devices with names of their own are registered one after the other, and
\* none is lost, however often the array has to grow.
LEMMA RegisteredHolds ==
    ASSUME NEW array, NEW n, NEW S, Holds(array, n, S), Named(S),
           NEW news, NEW m \in Nat, Len(news) = m,
           \A i \in 1 .. m : /\ news[i].name # "none"
                             /\ \A d \in S : d.name # news[i].name,
           \A i, j \in 1 .. m : news[i].name = news[j].name => i = j
    PROVE  /\ Holds(Registered(array, n, news), n + m, S \cup {news[i] : i \in 1 .. m})
           /\ Named(S \cup {news[i] : i \in 1 .. m})
<1>1. PICK after : /\ Calls(after, m, array, n, news)
                   /\ Registered(array, n, news) = after[m]
  BY RegisteredIsCalls
<1>2. n \in Nat
  BY DEF Holds
<1> DEFINE New(i) == S \cup {news[j] : j \in 1 .. i}
           T == {i \in Nat : i <= m => Holds(after[i], n + i, New(i)) /\ Named(New(i))}
<1>3. 0 \in T
  <2>1. New(0) = S /\ n + 0 = n /\ after[0] = array
    BY <1>1, <1>2 DEF Calls
  <2> QED BY <2>1
<1>4. ASSUME NEW i \in Nat, i \in T PROVE i + 1 \in T
  <2> SUFFICES ASSUME i + 1 <= m
               PROVE  Holds(after[i + 1], n + (i + 1), New(i + 1)) /\ Named(New(i + 1))
    <3> HIDE DEF New
    <3> QED OBVIOUS
  <2>1. Holds(after[i], n + i, New(i)) /\ Named(New(i))
    BY <1>4
  <2>2. i + 1 \in 1 .. m /\ (i + 1) - 1 = i /\ n + (i + 1) - 1 = n + i
        /\ (n + i) + 1 = n + (i + 1)
    BY <1>2
  <2>3. after[i + 1] = Put(after[i], n + i, news[i + 1])
    BY <1>1, <2>2 DEF Calls
  <2>4. New(i + 1) = New(i) \cup {news[i + 1]}
    <3>1. \A j \in 1 .. i + 1 : j \in 1 .. i \/ j = i + 1
      OBVIOUS
    <3>2. \A j \in 1 .. i : j \in 1 .. i + 1
      OBVIOUS
    <3>3. i + 1 \in 1 .. i + 1
      OBVIOUS
    <3> QED BY <3>1, <3>2, <3>3
  <2>5. news[i + 1].name # "none" /\ \A d \in New(i) : d.name # news[i + 1].name
    <3>1. \A j \in 1 .. i : j \in 1 .. m /\ j # i + 1
      BY <2>2
    <3> QED BY <2>2, <3>1
  <2>6. /\ Holds(Put(after[i], n + i, news[i + 1]), (n + i) + 1, New(i) \cup {news[i + 1]})
        /\ Named(New(i) \cup {news[i + 1]})
    <3> HIDE DEF New
    <3> QED BY <2>1, <2>5, PutAdds
  <2> HIDE DEF New
  <2> QED BY <2>2, <2>3, <2>4, <2>6
<1>5. \A i \in Nat : i \in T
  <2> HIDE DEF T
  <2> QED BY <1>3, <1>4, NatSetInduction
<1>6. m \in T
  BY <1>5
<1> HIDE DEF New
<1>7. Holds(after[m], n + m, New(m)) /\ Named(New(m))
  BY <1>6
<1> QED BY <1>1, <1>7 DEF New

---------------------------------------------------------------------------
(***************************************************************************)
(* The partitions: the k-th of the entries that are in use.                *)
(***************************************************************************)
Rank(used, i) == Cardinality({j \in used : j <= i})
NthOf(used, k) == CHOOSE i \in used : Rank(used, i) = k

LEMMA NthCounts ==
    ASSUME NEW used \in SUBSET (1 .. 4)
    PROVE  /\ Cardinality(used) \in Nat
           /\ \A k \in 1 .. Cardinality(used) :
                 NthOf(used, k) \in used /\ Rank(used, NthOf(used, k)) = k
           /\ \A i \in used : \E k \in 1 .. Cardinality(used) : NthOf(used, k) = i
<1>1. IsFiniteSet(used) /\ Cardinality(used) \in Nat
  <2>1. IsFiniteSet(1 .. 4)
    <3>1. PICK a, b : a = 1 /\ b = 4
      OBVIOUS
    <3>2. a \in Int /\ b \in Int
      BY <3>1
    <3>3. IsFiniteSet(a .. b)
      BY <3>2, FS_Interval
    <3> QED BY <3>1, <3>3
  <2>2. IsFiniteSet(used)
    BY <2>1, FS_Subset
  <2> QED BY <2>2, FS_CardinalityType
<1> DEFINE N == Cardinality(used)
           Upto(i) == {j \in used : j <= i}
           f == [i \in used |-> Rank(used, i)]
<1>2. ASSUME NEW i \in used
      PROVE  IsFiniteSet(Upto(i)) /\ Cardinality(Upto(i)) \in 1 .. N
  <2>1. Upto(i) \in SUBSET used /\ i \in Upto(i)
    OBVIOUS
  <2>2. /\ IsFiniteSet(Upto(i)) /\ Cardinality(Upto(i)) \in Nat
        /\ Cardinality(Upto(i)) <= N
    BY <1>1, <2>1, FS_Subset, FS_CardinalityType
  <2>3. Cardinality(Upto(i)) # 0
    BY <2>1, <2>2, FS_EmptySet
  <2> QED BY <1>1, <2>2, <2>3
<1>3. ASSUME NEW i \in used, NEW j \in used, i < j PROVE Rank(used, i) < Rank(used, j)
  <2>0. i \in Int /\ j \in Int /\ \A l \in used : l \in Int
    OBVIOUS
  <2>1. Upto(i) \in SUBSET Upto(j) /\ j \in Upto(j) /\ j \notin Upto(i)
    <3>1. \A l \in used : l <= i => l <= j
      BY <1>3, <2>0
    <3>2. j <= j /\ ~(j <= i)
      BY <1>3, <2>0
    <3> QED BY <3>1, <3>2
  <2>2. Upto(i) # Upto(j)
    BY <2>1
  <2>3. Cardinality(Upto(i)) <= Cardinality(Upto(j))
        /\ (Cardinality(Upto(i)) = Cardinality(Upto(j)) => Upto(i) = Upto(j))
    BY <1>2, <2>1, FS_Subset
  <2> QED BY <1>2, <2>2, <2>3 DEF Rank
<1>4. f \in Injection(used, 1 .. N)
  <2>1. \A i \in used : f[i] \in 1 .. N
    BY <1>2 DEF Rank
  <2>2. \A i, j \in used : f[i] = f[j] => i = j
    <3> SUFFICES ASSUME NEW i \in used, NEW j \in used, f[i] = f[j], i # j PROVE FALSE
      OBVIOUS
    <3>1. i < j \/ j < i
      OBVIOUS
    <3>2. Rank(used, i) = Rank(used, j) /\ Rank(used, i) \in Nat
      BY <1>2 DEF Rank
    <3> QED BY <1>3, <3>1, <3>2
  <2> QED BY <2>1, <2>2 DEF Injection, IsInjective
<1>5. f \in Surjection(used, 1 .. N)
  <2>1. IsFiniteSet(1 .. N) /\ Cardinality(1 .. N) = N
    BY <1>1, FS_Interval
  <2> QED BY <1>4, <2>1, FS_Injection
<1>6. ASSUME NEW k \in 1 .. N
      PROVE  NthOf(used, k) \in used /\ Rank(used, NthOf(used, k)) = k
  <2>1. \E i \in used : Rank(used, i) = k
    BY <1>5 DEF Surjection
  <2> QED BY <2>1 DEF NthOf
<1>7. ASSUME NEW i \in used PROVE \E k \in 1 .. N : NthOf(used, k) = i
  <2>1. f[i] \in 1 .. N /\ f[i] = Rank(used, i)
    BY <1>4 DEF Injection
  <2>2. PICK j : j = NthOf(used, f[i])
    OBVIOUS
  <2>3. j \in used /\ f[j] = f[i]
    BY <1>6, <2>1, <2>2
  <2>4. j = i
    BY <1>4, <2>3 DEF Injection, IsInjective
  <2> QED BY <2>1, <2>2, <2>4
<1> QED BY <1>1, <1>6, <1>7

\* The devices: those of the boot, the card, and the partitions of a table.
BootSet == {[name |-> BootDevices[i]] : i \in DOMAIN BootDevices}
Sd == [name |-> "sd0"]
PartitionOf(table, i) ==
    [name |-> PartName[i], type |-> table[i].type, start |-> table[i].start,
     end |-> table[i].size + table[i].start]
Used(table) == {i \in 1 .. 4 : table[i].type # 0}
PartSet(table) == {PartitionOf(table, i) : i \in Used(table)}

LEMMA BootNames == Named(BootSet) /\ \A d \in BootSet : d.name \notin {"none", "sd0"}
BY BootDevicesAssumption DEF Named, BootSet

LEMMA PartNames ==
    /\ \A i, j \in 1 .. 4 : PartName[i] = PartName[j] => i = j
    /\ \A i \in 1 .. 4 : PartName[i] \notin {"none", "sd0"}
<1>1. \A i \in 1 .. 4 : i = 1 \/ i = 2 \/ i = 3 \/ i = 4
  OBVIOUS
<1>2. /\ PartName[1] = "sd0p0" /\ PartName[2] = "sd0p1"
      /\ PartName[3] = "sd0p2" /\ PartName[4] = "sd0p3"
  BY DEF PartName
<1>3. /\ "sd0p0" # "sd0p1" /\ "sd0p0" # "sd0p2" /\ "sd0p0" # "sd0p3"
      /\ "sd0p1" # "sd0p2" /\ "sd0p1" # "sd0p3" /\ "sd0p2" # "sd0p3"
  OBVIOUS
<1> QED BY <1>1, <1>2, <1>3

LEMMA WithSd == Named(BootSet \cup {Sd})
BY BootNames DEF Named, Sd

LEMMA WithPartitions ==
    ASSUME NEW table
    PROVE  /\ Named(BootSet \cup {Sd} \cup PartSet(table))
           /\ \A d \in BootSet \cup {Sd} : \A i \in 1 .. 4 : d.name # PartName[i]
<1>1. \A d \in BootSet \cup {Sd} : \A i \in 1 .. 4 : d.name # PartName[i]
  <2>1. \A d \in BootSet : \A i \in 1 .. 4 : d.name # PartName[i]
    BY BootDevicesAssumption DEF BootSet
  <2>2. \A i \in 1 .. 4 : Sd.name # PartName[i]
    BY PartNames DEF Sd
  <2> QED BY <2>1, <2>2
<1>2. \A d \in PartSet(table) : \E i \in 1 .. 4 :
          d = PartitionOf(table, i) /\ d.name = PartName[i]
  BY DEF PartSet, Used, PartitionOf
<1>3. Named(PartSet(table))
  BY <1>2, PartNames DEF Named
<1> QED BY <1>1, <1>2, <1>3, WithSd, PartNames DEF Named

\* What is registered when.  The table in the buffer is the card's once the
\* read has been completed.
DeviceInv ==
    /\ mbr \in Mbrs
    /\ pc \in BeforeCommands => Holds(devices, nextDevnum, BootSet)
    /\ pc \in Commands \cup ReadSteps \cup {"table"} =>
          Holds(devices, nextDevnum, BootSet \cup {Sd})
    /\ pc \in BeforeCommands \cup Commands \cup ReadSteps =>
          buffer = IF pc = "wait_for_io" /\ ~host.reading THEN mbr ELSE NoTable
    /\ pc = "table" => buffer = mbr
    /\ pc \in {"vfs", "mounted"} /\ buffer # NoTable =>
          /\ buffer = mbr
          /\ Holds(devices, nextDevnum, BootSet \cup {Sd} \cup PartSet(mbr))
    /\ pc = "mounted" /\ buffer # NoTable =>
          mbr[1].type = FAT32 /\ root.name = "sd0p0"

LEMMA DeviceInit == Init => DeviceInv
<1> SUFFICES ASSUME Init PROVE DeviceInv
  OBVIOUS
<1>1. PICK news, m : /\ news = [i \in DOMAIN BootDevices |-> [name |-> BootDevices[i]]]
                     /\ m = Len(BootDevices)
  OBVIOUS
<1>2. m \in Nat /\ DOMAIN BootDevices = 1 .. m
  BY <1>1, BootDevicesAssumption
<1>3. \A i \in 1 .. m : news[i] = [name |-> BootDevices[i]] /\ news[i].name = BootDevices[i]
  BY <1>1, <1>2
<1>4. Len(news) = m
  <2>1. news \in [1 .. m -> BootSet]
    BY <1>1, <1>2 DEF BootSet
  <2> QED BY <1>2, <2>1, FunctionIsSeq
<1>5. Holds(EmptyArray, 0, {})
  <2>1. EmptyArray \in [1 .. Preallocate -> {} \cup {NoDevice}]
    BY DEF EmptyArray
  <2>2. Preallocate \in Nat /\ 0 \in 0 .. Preallocate
    BY DevicesAssumption
  <2>3. \A i \in 0 + 1 .. Preallocate : EmptyArray[i] = NoDevice
    BY DEF EmptyArray
  <2>4. \A i \in 1 .. 0 : FALSE
    OBVIOUS
  <2> QED BY <2>1, <2>2, <2>3, <2>4 DEF Holds
<1>6. /\ \A i \in 1 .. m : news[i].name # "none"
      /\ \A i, j \in 1 .. m : news[i].name = news[j].name => i = j
  BY <1>2, <1>3, BootDevicesAssumption
<1>7. Holds(Registered(EmptyArray, 0, news), 0 + m, {} \cup {news[i] : i \in 1 .. m})
  <2>1. Named({})
    BY DEF Named
  <2>2. PICK E : E = {}
    OBVIOUS
  <2>3. Holds(EmptyArray, 0, E) /\ Named(E) /\ \A d \in E : FALSE
    BY <1>5, <2>1, <2>2
  <2>4. Holds(Registered(EmptyArray, 0, news), 0 + m, E \cup {news[i] : i \in 1 .. m})
    BY <1>2, <1>4, <1>6, <2>3, RegisteredHolds
  <2> QED BY <2>2, <2>4
<1>8. {} \cup {news[i] : i \in 1 .. m} = BootSet /\ 0 + m = nextDevnum
  BY <1>1, <1>2, <1>3 DEF BootSet, Init
<1>9. devices = Registered(EmptyArray, 0, news)
  BY <1>1 DEF Init
<1> QED BY <1>7, <1>8, <1>9 DEF Init, DeviceInv, BeforeCommands, Commands, ReadSteps

LEMMA ConstructSdStep ==
    ASSUME DeviceInv, ConstructSd
    PROVE  DeviceInv'
<1>1. PICK news : news = <<Sd>>
  OBVIOUS
<1>2. Len(news) = 1 /\ news[1] = Sd /\ 1 \in Nat
  BY <1>1
<1>3. Holds(devices, nextDevnum, BootSet) /\ pc = "sd" /\ buffer = NoTable /\ mbr \in Mbrs
  BY DEF DeviceInv, ConstructSd, BeforeCommands
<1>4. Holds(Registered(devices, nextDevnum, news), nextDevnum + 1,
            BootSet \cup {news[i] : i \in 1 .. 1})
  <2>1. PICK m : m = 1
    OBVIOUS
  <2>2. m \in Nat /\ Len(news) = m /\ \A i \in 1 .. m : news[i] = Sd /\ i = 1
    BY <1>2, <2>1
  <2>3. Sd.name = "sd0"
    BY DEF Sd
  <2>4. Holds(Registered(devices, nextDevnum, news), nextDevnum + m,
              BootSet \cup {news[i] : i \in 1 .. m})
    BY <1>3, <2>2, <2>3, BootNames, RegisteredHolds
  <2> QED BY <2>1, <2>4
<1>5. {news[i] : i \in 1 .. 1} = {Sd}
  BY <1>2
<1>6. /\ devices' = Registered(devices, nextDevnum, news)
      /\ nextDevnum' = nextDevnum + 1 /\ pc' = "cmd0"
      /\ mbr' = mbr /\ buffer' = buffer
  BY <1>1 DEF ConstructSd, Sd
<1>7. Holds(devices', nextDevnum', BootSet \cup {Sd})
  BY <1>4, <1>5, <1>6
<1> QED BY <1>3, <1>6, <1>7 DEF DeviceInv, BeforeCommands, Commands, ReadSteps, BootSet, Sd

LEMMA ReadPartitionTableStep ==
    ASSUME DeviceInv, ReadPartitionTable
    PROVE  DeviceInv'
<1>1. /\ mbr' = mbr /\ buffer' = buffer /\ mbr \in Mbrs
      /\ pc = "table" /\ pc' = "vfs"
  BY DEF ReadPartitionTable, DeviceInv
<1>3. QED
  <2>1. pc' = "vfs" /\ buffer = mbr /\ Holds(devices, nextDevnum, BootSet \cup {Sd})
    BY <1>1 DEF DeviceInv
  <2>2. PICK used : used = Used(mbr)
    OBVIOUS
  <2>3. used \in SUBSET (1 .. 4)
    BY <2>2 DEF Used
  <2>4. PICK m : m = Cardinality(used)
    OBVIOUS
  <2>5. PICK news : news = [k \in 1 .. m |-> PartitionOf(mbr, NthOf(used, k))]
    OBVIOUS
  <2>6. /\ m \in Nat
        /\ \A k \in 1 .. m : NthOf(used, k) \in used /\ Rank(used, NthOf(used, k)) = k
        /\ \A i \in used : \E k \in 1 .. m : NthOf(used, k) = i
    BY <2>3, <2>4, NthCounts
  <2>7. /\ devices' = Registered(devices, nextDevnum, news)
        /\ nextDevnum' = nextDevnum + Len(news)
    BY <2>1, <2>2, <2>4, <2>5 DEF ReadPartitionTable, Used, NthOf, Rank, Partition,
                                 PartitionOf
  <2>8. \A k \in 1 .. m : /\ news[k] = PartitionOf(mbr, NthOf(used, k))
                          /\ news[k].name = PartName[NthOf(used, k)]
                          /\ NthOf(used, k) \in 1 .. 4
    BY <2>3, <2>5, <2>6 DEF PartitionOf
  <2>9. {news[k] : k \in 1 .. m} = PartSet(mbr)
    <3>1. ASSUME NEW k \in 1 .. m PROVE news[k] \in PartSet(mbr)
      BY <2>2, <2>6, <2>8 DEF PartSet
    <3>2. ASSUME NEW i \in used PROVE PartitionOf(mbr, i) \in {news[k] : k \in 1 .. m}
      BY <2>6, <2>8
    <3> QED BY <3>1, <3>2, <2>2 DEF PartSet
  <2>10. Len(news) = m
    <3>1. news \in [1 .. m -> PartSet(mbr)]
      BY <2>5, <2>9
    <3> QED BY <2>6, <3>1, FunctionIsSeq
  <2>11. \A k \in 1 .. m : /\ news[k].name # "none"
                           /\ \A d \in BootSet \cup {Sd} : d.name # news[k].name
    <3>1. \A d \in BootSet \cup {Sd} : \A i \in 1 .. 4 : d.name # PartName[i]
      BY WithPartitions
    <3> QED BY <2>8, <3>1, PartNames
  <2>12. \A k, l \in 1 .. m : news[k].name = news[l].name => k = l
    BY <2>6, <2>8, PartNames
  <2>13. Holds(Registered(devices, nextDevnum, news), nextDevnum + m,
               (BootSet \cup {Sd}) \cup {news[k] : k \in 1 .. m})
    BY <2>1, <2>6, <2>10, <2>11, <2>12, WithSd, RegisteredHolds
  <2>14. Holds(devices', nextDevnum', BootSet \cup {Sd} \cup PartSet(mbr))
    BY <2>7, <2>9, <2>10, <2>13
  <2>15. /\ PartSet(mbr)' = PartSet(mbr) /\ BootSet' = BootSet /\ Sd' = Sd
    BY <1>1 DEF PartSet, PartitionOf, Used, BootSet, Sd
  <2> QED BY <1>1, <2>1, <2>14, <2>15 DEF DeviceInv, BeforeCommands, Commands,
                                          ReadSteps

LEMMA MountRootStep ==
    ASSUME DeviceInv, MountRoot
    PROVE  DeviceInv'
<1>1. /\ mbr' = mbr /\ buffer' = buffer /\ devices' = devices
      /\ nextDevnum' = nextDevnum /\ mbr \in Mbrs
      /\ PartSet(mbr)' = PartSet(mbr) /\ BootSet' = BootSet /\ Sd' = Sd
  BY DEF MountRoot, DeviceInv, PartSet, PartitionOf, Used, BootSet, Sd
<1>2. pc' \in {"fault", "panic", "mounted"}
  BY DEF MountRoot
<1>3. CASE pc' # "mounted" \/ buffer = NoTable
  BY <1>1, <1>2, <1>3 DEF DeviceInv, BeforeCommands, Commands, ReadSteps
<1>4. CASE pc' = "mounted" /\ buffer # NoTable
  <2>1. PICK part : part = Find(devices, "sd0p0")
    OBVIOUS
  <2>2. pc = "vfs" /\ part # NoDevice /\ part.type = FAT32 /\ root' = part
    BY <1>4, <2>1 DEF MountRoot
  <2>3. Holds(devices, nextDevnum, BootSet \cup {Sd} \cup PartSet(mbr)) /\ buffer = mbr
    BY <1>4, <2>2 DEF DeviceInv
  <2>4. PICK S : S = BootSet \cup {Sd} \cup PartSet(mbr)
    OBVIOUS
  <2>5. Holds(devices, nextDevnum, S) /\ Named(S)
    BY <2>3, <2>4, WithPartitions
  <2>6. PICK d \in S : d.name = "sd0p0" /\ part = d
    <3>1. PICK name : name = "sd0p0"
      OBVIOUS
    <3>2. name # "none" /\ part = Find(devices, name)
      BY <2>1, <3>1
    <3> QED BY <2>2, <2>5, <3>1, <3>2, FindFinds
  <2>7. PartName[1] = "sd0p0" /\ 1 \in 1 .. 4
    BY DEF PartName
  <2>8. d \in PartSet(mbr)
    BY <2>4, <2>6, <2>7, WithPartitions
  <2>9. PICK i \in Used(mbr) : d = PartitionOf(mbr, i)
    BY <2>8 DEF PartSet
  <2>10. i \in 1 .. 4 /\ d.name = PartName[i] /\ d.type = mbr[i].type
    BY <2>9 DEF Used, PartitionOf
  <2>11. i = 1
    BY <2>6, <2>7, <2>10, PartNames
  <2> QED BY <1>1, <1>4, <2>2, <2>3, <2>6, <2>10, <2>11
             DEF DeviceInv, BeforeCommands, Commands, ReadSteps
<1> QED BY <1>3, <1>4

\* A step that leaves the devices and the tables alone.
LEMMA DevicesStay ==
    ASSUME DeviceInv, UNCHANGED <<mbr, devices, nextDevnum, buffer, root>>,
           pc' = pc \/ (/\ pc \in BeforeCommands /\ pc' \in BeforeCommands \cup {"fault"})
                    \/ (/\ pc \in Commands
                        /\ pc' \in Commands \cup {"enable", "vfs"})
                    \/ (/\ pc \in ReadSteps \ {"wait_for_io"}
                        /\ pc' \in ReadSteps \ {"wait_for_io"}),
           pc = "wait_for_io" => host'.reading = host.reading
    PROVE  DeviceInv'
<1>1. /\ mbr' = mbr /\ buffer' = buffer /\ devices' = devices
      /\ nextDevnum' = nextDevnum /\ root' = root
      /\ PartSet(mbr)' = PartSet(mbr) /\ BootSet' = BootSet /\ Sd' = Sd
  BY DEF PartSet, PartitionOf, Used, BootSet, Sd
<1> QED BY <1>1 DEF DeviceInv, BeforeCommands, Commands, ReadSteps

LEMMA DeviceStep == BootInv /\ DeviceInv /\ [Next]_vars => DeviceInv'
<1> SUFFICES ASSUME BootInv, DeviceInv, [Next]_vars PROVE DeviceInv'
  OBVIOUS
<1>1. CASE KernelMain \/ StartTimer \/ Tick
  BY <1>1, DevicesStay DEF KernelMain, StartTimer, Tick, driverVars, BeforeCommands
<1>2. CASE ConstructSd
  BY <1>2, ConstructSdStep
<1>3. CASE Send
  BY <1>3, DevicesStay DEF Send, driverVars
<1>4. CASE WaitForStatus
  <2>1. pc \in Commands /\ UNCHANGED <<mbr, devices, nextDevnum, buffer, root>>
    BY <1>4 DEF WaitForStatus, driverVars, BootInv, Types, InStep, BeforeCommands,
                AfterCommands, ReadSteps, Commands
  <2>2. PICK ok \in BOOLEAN : pc' = After(ok)
    BY <1>4 DEF WaitForStatus
  <2>3. pc' \in Commands \cup {"enable", "vfs"}
    BY <2>1, <2>2, AfterFacts
  <2> QED BY <2>1, <2>3, DevicesStay DEF Commands
<1>5. CASE ClearStatus \/ EnableInterrupts \/ InitiateRead
  BY <1>5, DevicesStay DEF ClearStatus, EnableInterrupts, InitiateRead, driverVars,
                           ReadSteps
<1>6. CASE SendCmd17 \/ SdInterrupt \/ WaitForIo
  <2>1. /\ mbr' = mbr /\ devices' = devices /\ nextDevnum' = nextDevnum
        /\ BootSet' = BootSet /\ Sd' = Sd /\ mbr \in Mbrs
        /\ PartSet(mbr)' = PartSet(mbr) /\ root' = root
    BY <1>6 DEF SendCmd17, SdInterrupt, WaitForIo, driverVars, BootSet, Sd,
                DeviceInv, PartSet, PartitionOf, Used
  <2>2. CASE SendCmd17
    <3>1. /\ pc = "cmd17" /\ pc' = "wait_for_io" /\ host' = host
          /\ buffer' = buffer /\ host.reading
      BY <2>2 DEF SendCmd17, BootInv, InStep
    <3> QED BY <2>1, <3>1 DEF DeviceInv, BeforeCommands, Commands, ReadSteps
  <2>3. CASE SdInterrupt
    <3>1. pc' = pc
      BY <2>3 DEF SdInterrupt
    <3>2. CASE ~host.reading \/ "tc" \notin stat
      <4>1. host' = host /\ buffer' = buffer
        BY <2>3, <3>2 DEF SdInterrupt
      <4> QED BY <2>1, <3>1, <4>1 DEF DeviceInv
    <3>3. CASE host.reading /\ "tc" \in stat
      <4>1. /\ host' = [host EXCEPT !.reading = FALSE] /\ buffer' = mbr
            /\ cmd' = "none"
        BY <2>3, <3>3 DEF SdInterrupt
      <4>2. pc = "wait_for_io"
        BY <3>3 DEF BootInv, InStep
      <4>3. ~host'.reading
        BY <4>1 DEF BootInv, Types
      <4> QED BY <2>1, <3>1, <4>1, <4>2, <4>3 DEF DeviceInv, BeforeCommands,
                                                  Commands, ReadSteps
    <3> QED BY <3>2, <3>3
  <2>4. CASE WaitForIo
    <3>1. /\ pc = "wait_for_io" /\ ~host.reading /\ pc' \in {"table", "fault"}
          /\ buffer' = buffer
      BY <2>4 DEF WaitForIo
    <3> QED BY <2>1, <3>1 DEF DeviceInv, BeforeCommands, Commands, ReadSteps
  <2> QED BY <1>6, <2>2, <2>3, <2>4
<1>7. CASE ReadPartitionTable
  BY <1>7, ReadPartitionTableStep
<1>8. CASE MountRoot
  BY <1>8, MountRootStep
<1>9. CASE Card
  BY <1>9, DevicesStay DEF Card, CardSilent, CardSaysBusy, CardAnswers, EndOfRead,
                           driverVars
<1>10. CASE UNCHANGED vars
  BY <1>10, DevicesStay DEF vars, driverVars
<1> QED
  BY <1>1, <1>2, <1>3, <1>4, <1>5, <1>6, <1>7, <1>8, <1>9, <1>10 DEF Next, Kernel

\* When the partition table has been read, the device manager finds every
\* device of the boot, the card and each partition in use under its name, with
\* the blocks that the table says, whatever the table, the number of devices
\* and the capacity that the array starts with; and the root is the first one.
THEOREM PartitionsAreFound == Spec => []PartitionsFound
<1>1. DeviceInv => PartitionsFound
  <2> SUFFICES ASSUME DeviceInv, pc \in {"vfs", "mounted"}, buffer # NoTable
               PROVE  /\ \A i \in 1 .. 4 :
                            LET dev == Find(devices, PartName[i])
                            IN  IF mbr[i].type = 0 THEN dev = NoDevice
                                ELSE /\ dev # NoDevice
                                     /\ dev.start = mbr[i].start
                                     /\ dev.end - dev.start = mbr[i].size
                      /\ \A name \in {BootDevices[i] : i \in DOMAIN BootDevices}
                                     \cup {"sd0"} :
                            Find(devices, name) # NoDevice
                      /\ pc = "mounted" => mbr[1].type = FAT32 /\ root.name = "sd0p0"
    BY DEF PartitionsFound
  <2>1. PICK S : S = BootSet \cup {Sd} \cup PartSet(mbr)
    OBVIOUS
  <2>2. Holds(devices, nextDevnum, S) /\ Named(S) /\ mbr \in Mbrs
    BY <2>1, WithPartitions DEF DeviceInv
  <2>3. NoDevice \notin S
    BY <2>2 DEF Named, NoDevice
  <2>4. ASSUME NEW i \in 1 .. 4, mbr[i].type = 0
        PROVE  Find(devices, PartName[i]) = NoDevice
    <3>1. \A d \in S : d.name # PartName[i]
      <4>1. \A d \in BootSet \cup {Sd} : d.name # PartName[i]
        BY WithPartitions
      <4>2. ASSUME NEW j \in Used(mbr) PROVE PartitionOf(mbr, j).name # PartName[i]
        BY <2>4, PartNames DEF Used, PartitionOf
      <4> QED BY <2>1, <4>1, <4>2 DEF PartSet
    <3> QED BY <2>2, <3>1, PartNames, FindFinds
  <2>5. ASSUME NEW i \in 1 .. 4, mbr[i].type # 0
        PROVE  Find(devices, PartName[i]) = PartitionOf(mbr, i)
               /\ PartitionOf(mbr, i) # NoDevice
    <3>1. PartitionOf(mbr, i) \in S /\ PartitionOf(mbr, i).name = PartName[i]
      BY <2>1, <2>5 DEF PartSet, Used, PartitionOf
    <3> QED BY <2>2, <2>3, <3>1, PartNames, FindFinds
  <2>6. ASSUME NEW i \in 1 .. 4
        PROVE  /\ PartitionOf(mbr, i).start = mbr[i].start
               /\ PartitionOf(mbr, i).end - PartitionOf(mbr, i).start = mbr[i].size
    <3>1. mbr[i].start \in Nat /\ mbr[i].size \in Nat
      BY <2>2, MbrsAssumption
    <3> QED BY <3>1 DEF PartitionOf
  <2>7. ASSUME NEW name \in {BootDevices[i] : i \in DOMAIN BootDevices} \cup {"sd0"}
        PROVE  Find(devices, name) # NoDevice
    <3>1. \E d \in S : d.name = name
      <4>1. CASE name = "sd0"
        <5>1. Sd \in S /\ Sd.name = "sd0"
          BY <2>1 DEF Sd
        <5> QED BY <4>1, <5>1
      <4>2. CASE name # "sd0"
        <5>1. PICK i \in DOMAIN BootDevices : name = BootDevices[i]
          BY <4>2
        <5>2. PICK d : d = [name |-> BootDevices[i]]
          OBVIOUS
        <5>3. d \in BootSet /\ d.name = name
          BY <5>1, <5>2 DEF BootSet
        <5> QED BY <2>1, <5>3
      <4> QED BY <4>1, <4>2
    <3>2. name # "none"
      BY BootDevicesAssumption
    <3> QED BY <2>2, <2>3, <3>1, <3>2, FindFinds
  <2>8. pc = "mounted" => mbr[1].type = FAT32 /\ root.name = "sd0p0"
    BY DEF DeviceInv
  <2> QED BY <2>4, <2>5, <2>6, <2>7, <2>8
<1> QED BY <1>1, DeviceInit, DeviceStep, BootInvariant, PTL DEF Spec
=============================================================================
