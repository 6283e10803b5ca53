--------------------------- MODULE SdReadsProofs ---------------------------
(***************************************************************************)
(* Proofs about SdReads, for reads of any length: of one thread that may   *)
(* be interrupted anywhere, and of any number of threads whose post_read   *)
(* is not interrupted.                                                     *)
(***************************************************************************)
EXTENDS SdReads, SequenceTheorems, TLAPS

\* Two threads are never inside post_read at the same time, for one of these
\* reasons.
Exclusive == ~Preemptive \/ \E c : Clients = {c}

Labels == {"idle", "push", "link", "back", "test", "pop", "start", "send",
           "wait"}
Command == [reader : Clients \cup {Null}, block : Nat]
Types ==
    /\ pc \in [Clients -> Labels]
    /\ tail \in [Clients -> Clients \cup {Null}]
    /\ blocks \in [Clients -> Nat]
    /\ blocksRead \in [Clients -> Nat]
    /\ status \in [Clients -> {"none", "queued", "incomplete", "successful"}]
    /\ got \in [Clients -> Seq([slot : Nat, of : Command])]
    /\ nextNode \in [Clients -> Clients \cup {Null}]
    /\ nodes \subseteq Clients
    /\ active \in Clients \cup {Null}
    /\ cmd \in Command
    /\ phase \in {"idle", "sent", "reading", "buffered", "drained"}
    /\ stat \subseteq {"cc", "brr", "tc", "error"}

OnePoster == \A c, d \in Posting : c = d

\* The queue: its nodes are those in the heap, none is pointed to twice, and
\* none points to the first one.  A node that push_back has not yet linked is
\* not pointed to at all.
Linked ==
    /\ front \in nodes \cup {Null} /\ back \in nodes \cup {Null}
    /\ \A c \in nodes : nextNode[c] \in nodes \cup {Null}
    /\ \A c \in nodes : nextNode[c] # Null =>
          /\ nextNode[c] # front
          /\ \A d \in nodes : nextNode[d] = nextNode[c] => d = c
    /\ back # Null /\ (\A c \in Clients : pc[c] # "back") =>
          nextNode[back] = Null
Pushing ==
    \A c \in Clients :
        /\ pc[c] \in {"push", "link"} =>
              /\ c \notin {front, back}
              /\ \A d \in nodes : nextNode[d] # c
        /\ pc[c] \in {"push", "link", "back"} =>
              c \in nodes /\ nextNode[c] = Null
        /\ pc[c] = "link" => tail[c] = back

\* The reads: those in the queue, and the one between pop and start, have not
\* begun; the active one has the blocks so far; nothing else is pending.
Waits(c) ==
    /\ c \in Clients
    /\ status[c] = "queued" /\ blocksRead[c] = 0 /\ got[c] = <<>>
    /\ blocks[c] >= 1
ReadSoFar(c) ==
    /\ Len(got[c]) = blocksRead[c] /\ blocksRead[c] <= blocks[c]
    /\ \A i \in 1 .. blocksRead[c] :
          got[c][i].of = [reader |-> c, block |-> i - 1]
ReadsInOrder ==
    /\ \A c \in nodes : Waits(c)
    /\ \A c \in Clients :
          /\ pc[c] = "pop" => active = Null
          /\ pc[c] = "start" =>
                active = Null /\ Waits(tail[c]) /\ tail[c] \notin nodes
          /\ pc[c] = "send" =>
                active # Null /\ active = tail[c] /\ blocksRead[active] = 0
          /\ pc[c] = "idle" => status[c] \notin {"queued", "incomplete"}
          /\ status[c] = "successful" =>
                ReadSoFar(c) /\ blocksRead[c] = blocks[c]
    /\ active # Null => status[active] = "incomplete" /\ ReadSoFar(active)
                        /\ blocks[active] >= 1

\* The controller works for the active read, on the block that it misses, and
\* what it reports is about that block.
Controller ==
    /\ phase = "idle" => cmd = NoCmd
    /\ "brr" \in stat <=> phase = "buffered"
    /\ phase # "idle" \/ "tc" \in stat =>
          active # Null /\ \A c \in Clients : pc[c] # "send"
    /\ "tc" \in stat => phase = "idle"
    /\ phase \in {"sent", "reading", "buffered"} =>
          /\ cmd = [reader |-> active, block |-> blocksRead[active]]
          /\ blocksRead[active] < blocks[active]
    /\ phase = "drained" => cmd.reader = active

ReadInv == Types /\ OnePoster /\ Linked /\ Pushing /\ ReadsInOrder /\ Controller
-----------------------------------------------------------------------------
(***************************************************************************)
(* Who may take a step.                                                    *)
(***************************************************************************)

\* A thread that takes a step inside post_read, or enters it, is alone there.
LEMMA AloneInside ==
    ASSUME Exclusive, NEW c \in Clients, NEW l, At(c, l)
    PROVE  \A d \in Clients : d # c => pc[d] \in {"idle", "wait"}
  BY DEF Exclusive, At, Posting

LEMMA OnePosterStays ==
    ASSUME Exclusive, Types, NEW c \in Clients, NEW l, At(c, l), NEW m \in Labels,
           Goto(c, m)
    PROVE  /\ OnePoster'
           /\ pc' \in [Clients -> Labels]
           /\ pc'[c] = m
           /\ \A d \in Clients : d # c =>
                 pc'[d] = pc[d] /\ pc[d] \in {"idle", "wait"}
  BY AloneInside DEF Types, Goto, OnePoster, Posting

LEMMA ReadInvInit == Init => ReadInv
  <1> SUFFICES ASSUME Init PROVE ReadInv
    OBVIOUS
  <1>1. Types
    BY DEF Init, Types, Labels, Command, NoCmd
  <1>2. OnePoster /\ Linked /\ Pushing
    BY DEF Init, OnePoster, Posting, Linked, Pushing
  <1>3. ReadsInOrder /\ Controller
    BY DEF Init, ReadsInOrder, Controller
  <1> QED
    BY <1>1, <1>2, <1>3 DEF ReadInv

-----------------------------------------------------------------------------
(***************************************************************************)
(* The steps of the thread.                                                *)
(***************************************************************************)
LEMMA PostReadStep ==
    ASSUME Exclusive, ReadInv, NEW c \in Clients, NEW n \in 1..MaxBlocks,
           PostRead(c, n)
    PROVE  ReadInv'
  <1> USE DEF ReadInv
  <1>1. /\ At(c, "idle") /\ pc[c] = "idle" /\ Goto(c, "push")
        /\ n \in Nat /\ n >= 1 /\ c # Null
    BY MaxBlocksAssumption, ClientsAssumption DEF PostRead, At
  <1>2. /\ OnePoster' /\ pc' \in [Clients -> Labels] /\ pc'[c] = "push"
        /\ \A d \in Clients : d # c => pc'[d] = pc[d] /\ pc[d] \in {"idle", "wait"}
    BY <1>1, OnePosterStays DEF Labels
  <1>3. c \notin nodes /\ c # active /\ c # front /\ c # back
    BY <1>1 DEF ReadsInOrder, Waits, Linked
  <1>4. Types'
    <2>1. got' \in [Clients -> Seq([slot : Nat, of : Command])]
      BY EmptySeq DEF PostRead, Types
    <2>2. Command' = Command
      BY DEF Command
    <2> QED
      BY <1>1, <1>2, <2>1, <2>2 DEF Types, PostRead, cardVars
  <1>5. /\ blocks'[c] = n /\ blocksRead'[c] = 0 /\ status'[c] = "queued"
        /\ got'[c] = <<>> /\ nextNode'[c] = Null /\ nodes' = nodes \cup {c}
        /\ front' = front /\ back' = back /\ active' = active
        /\ cmd' = cmd /\ phase' = phase /\ stat' = stat
    BY DEF PostRead, Types, cardVars
  <1>6. \A d \in Clients : d # c =>
           /\ blocks'[d] = blocks[d] /\ blocksRead'[d] = blocksRead[d]
           /\ status'[d] = status[d] /\ got'[d] = got[d]
           /\ nextNode'[d] = nextNode[d]
    BY DEF PostRead, Types
  <1>7. Linked'
    <2>1. \A d \in nodes : d \in Clients /\ d # c /\ nextNode[d] # c
      BY <1>1, <1>3 DEF Linked, Types
    <2>2. back # Null => nextNode[back] = Null
      BY <1>1, <1>2 DEF Linked
    <2> QED
      BY <1>1, <1>3, <1>5, <1>6, <2>1, <2>2 DEF Linked
  <1>8. Pushing'
    <2>1. \A d \in nodes : d \in Clients /\ d # c /\ nextNode[d] # c
      BY <1>1, <1>3 DEF Linked, Types
    <2> QED
      BY <1>1, <1>2, <1>3, <1>5, <1>6, <2>1 DEF Pushing
  <1>9. ReadsInOrder'
    <2>1. \A d \in nodes' : Waits(d)'
      BY <1>1, <1>5, <1>6 DEF ReadsInOrder, Waits, Types
    <2>2. \A d \in Clients : d # c /\ ReadSoFar(d) => ReadSoFar(d)'
      BY <1>6 DEF ReadSoFar
    <2>3. active' # Null => status'[active'] = "incomplete" /\ ReadSoFar(active)'
                            /\ blocks'[active'] >= 1
      BY <1>3, <1>5, <1>6, <2>2 DEF ReadsInOrder, Types
    <2>4. \A d \in Clients : d # c =>
             /\ pc'[d] \notin {"pop", "start", "send"}
             /\ pc'[d] = "idle" => status'[d] \notin {"queued", "incomplete"}
             /\ status'[d] = "successful" =>
                   ReadSoFar(d)' /\ blocksRead'[d] = blocks'[d]
      BY <1>2, <1>6, <2>2 DEF ReadsInOrder
    <2> QED
      BY <1>1, <1>2, <1>5, <2>1, <2>3, <2>4 DEF ReadsInOrder, ReadSoFar
  <1>10. Controller'
    BY <1>2, <1>3, <1>5, <1>6 DEF Controller, Types, NoCmd
  <1> QED
    BY <1>2, <1>4, <1>7, <1>8, <1>9, <1>10

\* A step that leaves the operations alone, and removes nodes at most,
\* disturbs the reads only through what the labels say.
LEMMA ReadsStay ==
    ASSUME ReadInv, UNCHANGED <<opVars, active>>, nodes' \subseteq nodes,
           NEW c \in Clients,
           \A d \in Clients : d # c =>
              pc'[d] = pc[d] /\ pc[d] \in {"idle", "wait"},
           pc'[c] = "pop" => active = Null,
           pc'[c] = "start" => active = Null /\ Waits(tail'[c]) /\ tail'[c] \notin nodes',
           pc'[c] # "send",
           pc'[c] # "idle"
    PROVE  ReadsInOrder'
  <1>1. /\ blocks' = blocks /\ blocksRead' = blocksRead /\ status' = status
        /\ got' = got /\ active' = active
    BY DEF opVars
  <1>2. \A d \in nodes' : Waits(d)'
    BY <1>1 DEF ReadInv, ReadsInOrder, Waits
  <1>3. pc'[c] = "start" => active' = Null /\ Waits(tail[c])' /\ tail'[c] \notin nodes'
    BY <1>1 DEF Waits
  <1>4. active' # Null => status'[active'] = "incomplete" /\ ReadSoFar(active)'
                          /\ blocks'[active'] >= 1
    BY <1>1 DEF ReadInv, ReadsInOrder, ReadSoFar
  <1>5. \A d \in Clients : status'[d] = "successful" =>
                   ReadSoFar(d)' /\ blocksRead'[d] = blocks'[d]
    BY <1>1 DEF ReadInv, ReadsInOrder, ReadSoFar
  <1>6. \A d \in Clients : d # c =>
             /\ pc'[d] \notin {"pop", "start", "send"}
             /\ pc'[d] = "idle" => status'[d] \notin {"queued", "incomplete"}
    BY <1>1 DEF ReadInv, ReadsInOrder
  <1> QED
    BY <1>1, <1>2, <1>3, <1>4, <1>5, <1>6 DEF ReadsInOrder

\* The controller is not disturbed by a step that sends nothing.
LEMMA ControllerStays ==
    ASSUME ReadInv, UNCHANGED <<opVars, active, cardVars>>,
           \A d \in Clients : pc'[d] = "send" => pc[d] = "send"
    PROVE  Controller'
  BY DEF ReadInv, Controller, opVars, cardVars, NoCmd

\* Nor are the types, but for the variables that a thread changes.
LEMMA TypesStay ==
    ASSUME Types, UNCHANGED <<opVars, cardVars>>,
           pc' \in [Clients -> Labels],
           tail' \in [Clients -> Clients \cup {Null}],
           nextNode' \in [Clients -> Clients \cup {Null}],
           nodes' \subseteq Clients,
           active' \in Clients \cup {Null}
    PROVE  Types'
  <1>1. Command' = Command
    BY DEF Command
  <1> QED
    BY <1>1 DEF Types, opVars, cardVars

LEMMA PushReadsBackStep ==
    ASSUME Exclusive, ReadInv, NEW c \in Clients, PushReadsBack(c)
    PROVE  ReadInv'
  <1>1. /\ At(c, "push") /\ pc[c] = "push" /\ Goto(c, "link") /\ Types
        /\ UNCHANGED <<opVars, queueVars, active, cardVars>>
        /\ tail' = [tail EXCEPT ![c] = back]
        /\ front' = front /\ back' = back /\ nextNode' = nextNode
        /\ nodes' = nodes /\ active' = active
    BY DEF PushReadsBack, At, ReadInv, queueVars
  <1>2. /\ OnePoster' /\ pc' \in [Clients -> Labels] /\ pc'[c] = "link"
        /\ \A d \in Clients : d # c => pc'[d] = pc[d] /\ pc[d] \in {"idle", "wait"}
    BY <1>1, OnePosterStays DEF Labels
  <1>3. tail' \in [Clients -> Clients \cup {Null}] /\ tail'[c] = back
    BY <1>1 DEF Types, ReadInv, Linked
  <1>4. Types'
    BY <1>1, <1>2, <1>3, TypesStay DEF Types
  <1>5. Linked'
    BY <1>1, <1>2 DEF ReadInv, Linked
  <1>6. Pushing'
    BY <1>1, <1>2, <1>3 DEF ReadInv, Pushing
  <1>7. ReadsInOrder'
    BY <1>1, <1>2, ReadsStay
  <1>8. Controller'
    BY <1>1, <1>2, ControllerStays
  <1> QED
    BY <1>2, <1>4, <1>5, <1>6, <1>7, <1>8 DEF ReadInv

\* The link is written behind the node that was last when the thread read the
\* back pointer, and that node is still the last one.
LEMMA PushLinksStep ==
    ASSUME Exclusive, ReadInv, NEW c \in Clients, PushLinks(c)
    PROVE  ReadInv'
  <1>1. /\ At(c, "link") /\ pc[c] = "link" /\ Goto(c, "back") /\ Types
        /\ UNCHANGED <<opVars, active, cardVars>>
        /\ tail' = tail /\ back' = back /\ nodes' = nodes /\ active' = active
        /\ c # Null
    BY ClientsAssumption DEF PushLinks, At, ReadInv
  <1>2. /\ OnePoster' /\ pc' \in [Clients -> Labels] /\ pc'[c] = "back"
        /\ \A d \in Clients : d # c => pc'[d] = pc[d] /\ pc[d] \in {"idle", "wait"}
    BY <1>1, OnePosterStays DEF Labels
  <1>3. /\ c # front /\ c # back /\ c \in nodes /\ nextNode[c] = Null
        /\ \A d \in nodes : d \in Clients /\ nextNode[d] # c
        /\ tail[c] = back
    BY <1>1 DEF ReadInv, Pushing, Types
  <1>4. CASE back = Null
    <2>1. front' = c /\ nextNode' = nextNode
      BY <1>3, <1>4 DEF PushLinks
    <2>2. Types'
      BY <1>1, <1>2, <2>1, TypesStay DEF Types
    <2>3. Linked'
      BY <1>1, <1>2, <1>3, <1>4, <2>1 DEF ReadInv, Linked
    <2>4. Pushing'
      BY <1>1, <1>2, <1>3, <2>1 DEF Pushing
    <2> QED
      BY <2>2, <2>3, <2>4, <1>1, <1>2, ReadsStay, ControllerStays DEF ReadInv
  <1>5. CASE back # Null
    <2>1. back \in nodes /\ back \in Clients
      BY <1>5 DEF ReadInv, Linked, Types
    <2>2. front' = front /\ nextNode' = [nextNode EXCEPT ![back] = c]
      BY <1>3, <1>5 DEF PushLinks
    <2>3. /\ nextNode' \in [Clients -> Clients \cup {Null}] /\ nextNode'[back] = c
          /\ \A d \in Clients : d # back => nextNode'[d] = nextNode[d]
      BY <1>1, <2>1, <2>2 DEF Types
    <2>4. Types'
      BY <1>1, <1>2, <2>3, TypesStay DEF Types
    <2>5. Linked'
      <3>1. front' \in nodes' \cup {Null} /\ back' \in nodes' \cup {Null}
        BY <1>1, <2>2 DEF ReadInv, Linked
      <3>2. \A d \in nodes' : nextNode'[d] \in nodes' \cup {Null}
        BY <1>1, <1>3, <2>3 DEF ReadInv, Linked
      <3>3. ASSUME NEW d \in nodes', nextNode'[d] # Null
            PROVE  nextNode'[d] # front' /\ \A e \in nodes' : nextNode'[e] = nextNode'[d] => e = d
        <4>1. CASE d = back
          BY <4>1, <1>1, <1>3, <2>2, <2>3
        <4>2. CASE d # back
          BY <4>2, <1>1, <1>3, <2>2, <2>3, <3>3 DEF ReadInv, Linked
        <4> QED
          BY <4>1, <4>2
      <3> QED
        BY <3>1, <3>2, <3>3, <1>2 DEF Linked
    <2>6. Pushing'
      BY <1>1, <1>2, <1>3, <2>2, <2>3 DEF Pushing
    <2> QED
      BY <2>4, <2>5, <2>6, <1>1, <1>2, ReadsStay, ControllerStays DEF ReadInv
  <1> QED
    BY <1>4, <1>5

LEMMA PushSetsBackStep ==
    ASSUME Exclusive, ReadInv, NEW c \in Clients, PushSetsBack(c)
    PROVE  ReadInv'
  <1>1. /\ At(c, "back") /\ pc[c] = "back" /\ Goto(c, "test") /\ Types
        /\ UNCHANGED <<opVars, active, cardVars>>
        /\ tail' = [tail EXCEPT ![c] = Null]
        /\ front' = front /\ back' = c /\ nextNode' = nextNode
        /\ nodes' = nodes /\ active' = active
    BY DEF PushSetsBack, At, ReadInv
  <1>2. /\ OnePoster' /\ pc' \in [Clients -> Labels] /\ pc'[c] = "test"
        /\ \A d \in Clients : d # c => pc'[d] = pc[d] /\ pc[d] \in {"idle", "wait"}
    BY <1>1, OnePosterStays DEF Labels
  <1>3. Types'
    BY <1>1, <1>2, TypesStay DEF Types
  <1>4. c \in nodes /\ nextNode[c] = Null
    BY <1>1 DEF ReadInv, Pushing
  <1>5. Linked'
    BY <1>1, <1>4 DEF ReadInv, Linked
  <1>6. Pushing'
    BY <1>2 DEF Pushing
  <1> QED
    BY <1>1, <1>2, <1>3, <1>5, <1>6, ReadsStay, ControllerStays DEF ReadInv

LEMMA TestActiveStep ==
    ASSUME Exclusive, ReadInv, NEW c \in Clients, TestActive(c)
    PROVE  ReadInv'
  <1> DEFINE m == IF active = Null THEN "pop" ELSE "wait"
  <1>1. /\ At(c, "test") /\ pc[c] = "test" /\ Goto(c, m) /\ Types /\ m \in Labels
        /\ UNCHANGED <<opVars, active, cardVars>>
        /\ tail' = tail /\ front' = front /\ back' = back /\ nextNode' = nextNode
        /\ nodes' = nodes /\ active' = active
    BY DEF TestActive, At, ReadInv, queueVars, Labels
  <1>2. /\ OnePoster' /\ pc' \in [Clients -> Labels] /\ pc'[c] = m
        /\ \A d \in Clients : d # c => pc'[d] = pc[d] /\ pc[d] \in {"idle", "wait"}
    BY <1>1, OnePosterStays
  <1>3. Types'
    BY <1>1, <1>2, TypesStay DEF Types
  <1>5. Linked'
    BY <1>1, <1>2 DEF ReadInv, Linked
  <1>6. Pushing'
    BY <1>2 DEF Pushing
  <1> QED
    BY <1>1, <1>2, <1>3, <1>5, <1>6, ReadsStay, ControllerStays DEF ReadInv

\* pop_front takes the first node off the list, and the last one is still the
\* last one.
LEMMA PopFrontKeepsList ==
    ASSUME ReadInv, front # Null, PopFront,
           \A c \in Clients : pc[c] # "back"
    PROVE  /\ Linked' /\ front \in nodes /\ nodes' = nodes \ {front}
           /\ nextNode' = nextNode
  <1>1. /\ front' = nextNode[front]
        /\ back' = IF nextNode[front] = Null THEN Null ELSE back
        /\ nodes' = nodes \ {front} /\ nextNode' = nextNode
    BY DEF PopFront
  <1>2. front \in nodes /\ (back # Null => nextNode[back] = Null)
    BY DEF ReadInv, Linked
  <1>3. front' \in nodes' \cup {Null}
    BY <1>1, <1>2 DEF ReadInv, Linked
  <1>4. back' \in nodes' \cup {Null}
    BY <1>1, <1>2 DEF ReadInv, Linked
  <1>5. \A c \in nodes' : nextNode'[c] \in nodes' \cup {Null}
    BY <1>1, <1>2 DEF ReadInv, Linked
  <1>6. ASSUME NEW c \in nodes', nextNode'[c] # Null
        PROVE  nextNode'[c] # front' /\ \A d \in nodes' : nextNode'[d] = nextNode'[c] => d = c
    BY <1>1, <1>2, <1>6 DEF ReadInv, Linked
  <1>7. back' # Null => nextNode'[back'] = Null
    BY <1>1, <1>2
  <1> QED
    BY <1>1, <1>2, <1>3, <1>4, <1>5, <1>6, <1>7 DEF Linked

LEMMA PopNextStep ==
    ASSUME Exclusive, ReadInv, NEW c \in Clients, PopNext(c)
    PROVE  ReadInv'
  <1>1. /\ At(c, "pop") /\ pc[c] = "pop" /\ Types /\ active = Null
        /\ UNCHANGED <<opVars, active, cardVars>> /\ active' = active
    BY DEF PopNext, At, ReadInv, ReadsInOrder
  <1>2. \A d \in Clients : pc[d] # "back"
    BY <1>1, AloneInside
  <1>3. CASE front = Null
    <2>1. /\ Goto(c, "wait") /\ tail' = tail /\ front' = front /\ back' = back
          /\ nextNode' = nextNode /\ nodes' = nodes
      BY <1>3 DEF PopNext, queueVars
    <2>2. /\ OnePoster' /\ pc' \in [Clients -> Labels] /\ pc'[c] = "wait"
          /\ \A d \in Clients : d # c => pc'[d] = pc[d] /\ pc[d] \in {"idle", "wait"}
      BY <1>1, <2>1, OnePosterStays DEF Labels
    <2>3. Types'
      BY <1>1, <2>1, <2>2, TypesStay DEF Types
    <2>4. Linked'
      BY <1>2, <2>1, <2>2 DEF ReadInv, Linked
    <2>5. Pushing'
      BY <2>2 DEF Pushing
    <2> QED
      BY <1>1, <2>1, <2>2, <2>3, <2>4, <2>5, ReadsStay, ControllerStays DEF ReadInv
  <1>4. CASE front # Null
    <2>1. Goto(c, "start") /\ tail' = [tail EXCEPT ![c] = front] /\ PopFront
      BY <1>4 DEF PopNext
    <2>2. /\ OnePoster' /\ pc' \in [Clients -> Labels] /\ pc'[c] = "start"
          /\ \A d \in Clients : d # c => pc'[d] = pc[d] /\ pc[d] \in {"idle", "wait"}
      BY <1>1, <2>1, OnePosterStays DEF Labels
    <2>3. /\ Linked' /\ front \in nodes /\ nodes' = nodes \ {front}
          /\ nextNode' = nextNode
      BY <1>2, <1>4, <2>1, PopFrontKeepsList
    <2>4. front \in Clients /\ Waits(front)
      BY <2>3 DEF ReadInv, ReadsInOrder, Types
    <2>5. tail' \in [Clients -> Clients \cup {Null}] /\ tail'[c] = front
      BY <1>1, <2>1, <2>4 DEF Types
    <2>6. Types'
      BY <1>1, <2>2, <2>3, <2>5, TypesStay DEF Types
    <2>7. Pushing'
      BY <2>2 DEF Pushing
    <2>8. ReadsInOrder'
      BY <1>1, <2>2, <2>3, <2>4, <2>5, ReadsStay
    <2>9. Controller'
      BY <1>1, <2>2, ControllerStays
    <2> QED
      BY <2>2, <2>3, <2>6, <2>7, <2>8, <2>9 DEF ReadInv
  <1> QED
    BY <1>3, <1>4

LEMMA StartStep ==
    ASSUME Exclusive, ReadInv, NEW c \in Clients, Start(c)
    PROVE  ReadInv'
  <1>1. PICK t : t = tail[c]
    OBVIOUS
  <1>2. /\ At(c, "start") /\ pc[c] = "start" /\ Goto(c, "send") /\ Types
        /\ tail' = tail /\ front' = front /\ back' = back /\ nextNode' = nextNode
        /\ nodes' = nodes /\ active' = t /\ cmd' = cmd /\ phase' = phase
        /\ stat' = stat /\ blocks' = blocks /\ blocksRead' = blocksRead
        /\ got' = got /\ status' = [status EXCEPT ![t] = "incomplete"]
    BY <1>1 DEF Start, At, ReadInv, queueVars, cardVars
  <1>3. active = Null /\ Waits(t) /\ t \in Clients /\ t \notin nodes
    BY <1>1, <1>2 DEF ReadInv, ReadsInOrder, Waits
  <1>4. /\ OnePoster' /\ pc' \in [Clients -> Labels] /\ pc'[c] = "send"
        /\ \A d \in Clients : d # c => pc'[d] = pc[d] /\ pc[d] \in {"idle", "wait"}
    BY <1>2, OnePosterStays DEF Labels
  <1>5. /\ status' \in [Clients -> {"none", "queued", "incomplete", "successful"}]
        /\ status'[t] = "incomplete"
        /\ \A d \in Clients : d # t => status'[d] = status[d]
    BY <1>2, <1>3 DEF Types
  <1>6. Types'
    BY <1>2, <1>3, <1>4, <1>5 DEF Types, Command
  <1>7. Linked'
    BY <1>2, <1>4 DEF ReadInv, Linked
  <1>8. Pushing'
    BY <1>4 DEF Pushing
  <1>9. ReadsInOrder'
    <2>1. \A d \in nodes' : Waits(d)'
      BY <1>2, <1>3, <1>5 DEF ReadInv, ReadsInOrder, Waits
    <2>2. ReadSoFar(active)' /\ blocks'[active'] >= 1 /\ blocksRead'[active'] = 0
      BY <1>2, <1>3 DEF Waits, ReadSoFar, Types
    <2>3. ASSUME NEW d \in Clients
          PROVE  /\ pc'[d] = "idle" => status'[d] \notin {"queued", "incomplete"}
                 /\ pc'[d] \notin {"pop", "start"}
                 /\ pc'[d] = "send" => d = c
      <3>1. pc[d] = "idle" => status[d] \notin {"queued", "incomplete"} /\ d # t
        BY <1>3 DEF ReadInv, ReadsInOrder, Waits
      <3> QED
        BY <3>1, <1>4, <1>5
    <2>4. ASSUME NEW d \in Clients, status'[d] = "successful"
          PROVE  ReadSoFar(d)' /\ blocksRead'[d] = blocks'[d]
      <3>1. status[d] = "successful"
        BY <1>5, <2>4
      <3>2. ReadSoFar(d) /\ blocksRead[d] = blocks[d]
        BY <3>1 DEF ReadInv, ReadsInOrder
      <3> QED
        BY <3>2, <1>2 DEF ReadSoFar
    <2>5. active' # Null
      BY <1>2, <1>3, ClientsAssumption
    <2> QED
      BY <1>1, <1>2, <1>5, <2>1, <2>2, <2>3, <2>4, <2>5 DEF ReadsInOrder
  <1>10. Controller'
    BY <1>2, <1>3 DEF ReadInv, Controller, NoCmd
  <1> QED
    BY <1>4, <1>6, <1>7, <1>8, <1>9, <1>10 DEF ReadInv

LEMMA SendStep ==
    ASSUME Exclusive, ReadInv, NEW c \in Clients, Send(c)
    PROVE  ReadInv' /\ cmd = NoCmd
  <1>1. /\ At(c, "send") /\ pc[c] = "send" /\ Goto(c, "wait") /\ Types
        /\ UNCHANGED <<opVars, active>>
        /\ tail' = [tail EXCEPT ![c] = Null] /\ front' = front /\ back' = back
        /\ nextNode' = nextNode /\ nodes' = nodes /\ active' = active
        /\ stat' = stat /\ phase' = "sent"
        /\ cmd' = [reader |-> tail[c], block |-> 0]
    BY DEF Send, SendCmd17, At, ReadInv, queueVars
  <1>2. /\ OnePoster' /\ pc' \in [Clients -> Labels] /\ pc'[c] = "wait"
        /\ \A d \in Clients : d # c => pc'[d] = pc[d] /\ pc[d] \in {"idle", "wait"}
    BY <1>1, OnePosterStays DEF Labels
  <1>3. /\ active = tail[c] /\ blocksRead[active] = 0 /\ phase = "idle"
        /\ "tc" \notin stat /\ cmd = NoCmd /\ "brr" \notin stat
    BY <1>1 DEF ReadInv, ReadsInOrder, Controller
  <1>4. Types'
    BY <1>1, <1>2 DEF Types, opVars, Command
  <1>5. Linked'
    BY <1>1, <1>2 DEF ReadInv, Linked
  <1>6. Pushing'
    BY <1>2 DEF Pushing
  <1>7. ReadsInOrder'
    BY <1>1, <1>2, ReadsStay
  <1>8. /\ active # Null /\ active \in Clients /\ blocks[active] >= 1
        /\ blocks[active] \in Nat
    BY <1>1 DEF ReadInv, ReadsInOrder, Types
  <1>9. Controller'
    <2>1. phase' # "idle" \/ "tc" \in stat' =>
             active' # Null /\ \A d \in Clients : pc'[d] # "send"
      BY <1>1, <1>2, <1>8
    <2>2. cmd' = [reader |-> active', block |-> blocksRead'[active']]
      BY <1>1, <1>3 DEF opVars
    <2>3. blocksRead'[active'] < blocks'[active']
      BY <1>1, <1>3, <1>8 DEF opVars
    <2> QED
      BY <1>1, <1>3, <2>1, <2>2, <2>3 DEF Controller
  <1> QED
    BY <1>2, <1>3, <1>4, <1>5, <1>6, <1>7, <1>9 DEF ReadInv

LEMMA WaitAndDeleteStep ==
    ASSUME Exclusive, ReadInv, NEW c \in Clients, WaitAndDelete(c)
    PROVE  ReadInv'
  <1>1. /\ At(c, "wait") /\ pc[c] = "wait" /\ Goto(c, "idle") /\ Types
        /\ status[c] \notin {"queued", "incomplete"}
        /\ tail' = tail /\ front' = front /\ back' = back /\ nextNode' = nextNode
        /\ nodes' = nodes /\ active' = active /\ cmd' = cmd /\ phase' = phase
        /\ stat' = stat /\ blocks' = blocks /\ blocksRead' = blocksRead
        /\ got' = got /\ status' = status
    BY DEF WaitAndDelete, At, ReadInv, queueVars, cardVars, Pending
  <1>2. /\ OnePoster' /\ pc' \in [Clients -> Labels] /\ pc'[c] = "idle"
        /\ \A d \in Clients : d # c => pc'[d] = pc[d] /\ pc[d] \in {"idle", "wait"}
    BY <1>1, OnePosterStays DEF Labels
  <1>3. Types'
    BY <1>1, <1>2 DEF Types, Command
  <1>4. Linked'
    BY <1>1, <1>2 DEF ReadInv, Linked
  <1>5. Pushing'
    BY <1>2 DEF Pushing
  <1>6. ReadsInOrder'
    <2>1. (\A d \in nodes' : Waits(d)') /\ \A d \in Clients : ReadSoFar(d) => ReadSoFar(d)'
      BY <1>1 DEF ReadInv, ReadsInOrder, Waits, ReadSoFar
    <2>2. active' # Null => status'[active'] = "incomplete" /\ ReadSoFar(active)'
                            /\ blocks'[active'] >= 1
      BY <1>1, <2>1 DEF ReadInv, ReadsInOrder, Types
    <2>3. \A d \in Clients : d # c /\ pc'[d] = "idle" =>
             status'[d] \notin {"queued", "incomplete"}
      BY <1>1, <1>2 DEF ReadInv, ReadsInOrder
    <2>4. \A d \in Clients : status'[d] = "successful" =>
             ReadSoFar(d)' /\ blocksRead'[d] = blocks'[d]
      BY <1>1, <2>1 DEF ReadInv, ReadsInOrder
    <2> QED
      BY <1>1, <1>2, <2>1, <2>2, <2>3, <2>4 DEF ReadsInOrder
  <1>7. Controller'
    BY <1>1, <1>2 DEF ReadInv, Controller, NoCmd
  <1> QED
    BY <1>2, <1>3, <1>4, <1>5, <1>6, <1>7 DEF ReadInv

-----------------------------------------------------------------------------
(***************************************************************************)
(* The interrupt handler.                                                  *)
(***************************************************************************)

\* What does not depend on the reads and the controller survives a step that
\* leaves the threads and the queue alone.
LEMMA QueueStays ==
    ASSUME ReadInv, UNCHANGED <<clientVars, queueVars>>
    PROVE  OnePoster' /\ Linked' /\ Pushing'
  <1>1. /\ pc' = pc /\ tail' = tail /\ front' = front /\ back' = back
        /\ nextNode' = nextNode /\ nodes' = nodes
    BY DEF clientVars, queueVars
  <1> QED
    BY <1>1 DEF ReadInv, OnePoster, Posting, Linked, Pushing

LEMMA ReadsStayInIrq ==
    ASSUME ReadInv, UNCHANGED <<clientVars, queueVars, active>>,
           blocks' = blocks, blocksRead' = blocksRead, status' = status, got' = got
    PROVE  ReadsInOrder'
  <1>1. /\ pc' = pc /\ tail' = tail /\ nodes' = nodes /\ active' = active
    BY DEF clientVars, queueVars
  <1> QED
    BY <1>1 DEF ReadInv, ReadsInOrder, Waits, ReadSoFar

\* A step that changes the controller and nothing else.
LEMMA CardTypes ==
    ASSUME ReadInv, UNCHANGED <<clientVars, opVars, queueVars, active>>,
           cmd' \in Command,
           phase' \in {"idle", "sent", "reading", "buffered", "drained"},
           stat' \subseteq {"cc", "brr", "tc", "error"}
    PROVE  Types' /\ OnePoster' /\ Linked' /\ Pushing' /\ ReadsInOrder'
  <1>1. Types'
    BY DEF ReadInv, Types, Command, clientVars, opVars, queueVars
  <1>2. ReadsInOrder'
    BY ReadsStayInIrq DEF opVars
  <1> QED
    BY <1>1, <1>2, QueueStays

LEMMA IrqIgnoredStep ==
    ASSUME ReadInv, IrqIgnored, UNCHANGED clientVars
    PROVE  ReadInv'
  <1>1. /\ active = Null /\ active' = active /\ cmd' = cmd /\ phase' = phase
        /\ stat' = {} /\ pc' = pc /\ cmd \in Command
        /\ phase \in {"idle", "sent", "reading", "buffered", "drained"}
    BY DEF IrqIgnored, clientVars, ReadInv, Types
  <1>2. Types' /\ OnePoster' /\ Linked' /\ Pushing' /\ ReadsInOrder'
    BY <1>1, CardTypes DEF IrqIgnored
  <1>3. Controller'
    BY <1>1 DEF ReadInv, Controller, NoCmd
  <1> QED
    BY <1>2, <1>3 DEF ReadInv

\* The block in the buffer is the one that the active read misses.
LEMMA IrqBlockStep ==
    ASSUME ReadInv, IrqBlock, UNCHANGED clientVars
    PROVE  ReadInv'
  <1>1. PICK a, e : a = active /\ e = [slot |-> Slot(active), of |-> cmd]
    OBVIOUS
  <1>2. /\ a \in Clients /\ a # Null /\ active' = a /\ phase = "buffered"
        /\ blocksRead[a] \in Nat /\ blocks[a] \in Nat
        /\ cmd = [reader |-> a, block |-> blocksRead[a]]
        /\ blocksRead[a] < blocks[a] /\ "tc" \notin stat
        /\ \A d \in Clients : pc[d] # "send"
        /\ Types
    BY <1>1 DEF IrqBlock, ReadInv, Controller, Types
  <1>3. /\ got' = [got EXCEPT ![a] = Append(@, e)]
        /\ blocksRead' = [blocksRead EXCEPT ![a] = @ + 1]
        /\ phase' = "drained" /\ stat' = stat \ {"brr"}
        /\ blocks' = blocks /\ status' = status /\ cmd' = cmd
        /\ pc' = pc /\ tail' = tail /\ nodes' = nodes /\ nextNode' = nextNode
    BY <1>1, <1>2 DEF IrqBlock, clientVars, queueVars
  <1>4. e.of = cmd /\ e \in [slot : Nat, of : Command]
    <2>1. Slot(active) \in Nat
      BY <1>1, <1>2 DEF Slot, BlockBytes, WordBytes
    <2> QED
      BY <1>1, <1>2, <2>1 DEF Types
  <1>5. /\ blocksRead'[a] = blocksRead[a] + 1
        /\ got'[a] = Append(got[a], e)
        /\ \A d \in Clients : d # a =>
              blocksRead'[d] = blocksRead[d] /\ got'[d] = got[d]
    BY <1>2, <1>3 DEF Types
  <1>6. Types'
    <2>1. got' \in [Clients -> Seq([slot : Nat, of : Command])]
      <3>1. PICK E : E = [slot : Nat, of : Command]
        OBVIOUS
      <3>2. got \in [Clients -> Seq(E)] /\ e \in E
        BY <1>2, <1>4, <3>1 DEF Types
      <3>3. Append(got[a], e) \in Seq(E)
        BY <1>2, <3>2, AppendProperties
      <3> QED
        BY <1>2, <1>3, <3>1, <3>2, <3>3
    <2>2. blocksRead' \in [Clients -> Nat]
      BY <1>2, <1>3 DEF Types
    <2>3. Command' = Command
      BY DEF Command
    <2> QED
      BY <1>2, <1>3, <2>1, <2>2, <2>3 DEF Types
  <1>7. OnePoster' /\ Linked' /\ Pushing'
    BY QueueStays DEF IrqBlock
  <1>8. ReadSoFar(a)'
    <2>1. ReadSoFar(a) /\ got[a] \in Seq([slot : Nat, of : Command])
      BY <1>1, <1>2 DEF ReadInv, ReadsInOrder, Types
    <2>2. /\ Len(got'[a]) = Len(got[a]) + 1
          /\ \A i \in 1 .. Len(got[a]) : got'[a][i] = got[a][i]
          /\ got'[a][Len(got[a]) + 1] = e
      BY <1>4, <1>5, <2>1, AppendProperties
    <2>3. ASSUME NEW i \in 1 .. blocksRead'[a]
          PROVE  got'[a][i].of = [reader |-> a, block |-> i - 1]
      <3>1. CASE i \in 1 .. blocksRead[a]
        <4>1. got'[a][i] = got[a][i]
          BY <3>1, <2>1, <2>2 DEF ReadSoFar
        <4>2. got[a][i].of = [reader |-> a, block |-> i - 1]
          BY <3>1, <2>1 DEF ReadSoFar
        <4> QED
          BY <4>1, <4>2
      <3>2. CASE i = blocksRead[a] + 1
        <4>1. got'[a][i] = e /\ i - 1 = blocksRead[a]
          BY <3>2, <1>2, <2>1, <2>2 DEF ReadSoFar
        <4> QED
          BY <4>1, <1>2, <1>4
      <3>3. i \in 1 .. blocksRead[a] \/ i = blocksRead[a] + 1
        BY <1>2, <1>5
      <3> QED
        BY <3>1, <3>2, <3>3
    <2> QED
      BY <1>2, <1>3, <1>5, <2>1, <2>2, <2>3 DEF ReadSoFar
  <1>9. ReadsInOrder'
    <2>1. status[a] = "incomplete" /\ blocks[a] >= 1
      BY <1>1, <1>2 DEF ReadInv, ReadsInOrder
    <2>2. \A d \in nodes' : Waits(d)'
      BY <1>3, <1>5, <2>1 DEF ReadInv, ReadsInOrder, Waits
    <2>3. \A d \in Clients : pc'[d] \notin {"pop", "start", "send"}
      BY <1>1, <1>2, <1>3 DEF ReadInv, ReadsInOrder
    <2>4. ASSUME NEW d \in Clients, status'[d] = "successful"
          PROVE  ReadSoFar(d)' /\ blocksRead'[d] = blocks'[d]
      <3>1. d # a /\ ReadSoFar(d) /\ blocksRead[d] = blocks[d]
        BY <1>3, <2>1, <2>4 DEF ReadInv, ReadsInOrder
      <3> QED
        BY <3>1, <1>3, <1>5 DEF ReadSoFar
    <2>5. \A d \in Clients : pc'[d] = "idle" =>
             status'[d] \notin {"queued", "incomplete"}
      BY <1>3 DEF ReadInv, ReadsInOrder
    <2>6. /\ status'[active'] = "incomplete" /\ ReadSoFar(active)'
          /\ blocks'[active'] >= 1
      BY <1>2, <1>3, <1>8, <2>1 DEF ReadSoFar
    <2> QED
      BY <2>2, <2>3, <2>4, <2>5, <2>6 DEF ReadsInOrder
  <1>10. Controller'
    BY <1>2, <1>3 DEF ReadInv, Controller
  <1> QED
    BY <1>6, <1>7, <1>9, <1>10 DEF ReadInv

LEMMA IrqNextBlockStep ==
    ASSUME ReadInv, "tc" \in stat, "brr" \notin stat, MoreBlocks(active),
           IrqNextBlock, UNCHANGED clientVars
    PROVE  ReadInv' /\ cmd = NoCmd
  <1>1. /\ active \in Clients /\ active # Null /\ phase = "idle" /\ cmd = NoCmd
        /\ blocksRead[active] \in Nat /\ \A d \in Clients : pc[d] # "send"
    BY DEF ReadInv, Controller, Types
  <1>2. /\ cmd' = [reader |-> active, block |-> blocksRead[active]]
        /\ phase' = "sent" /\ stat' = stat \ {"tc"} /\ active' = active
        /\ blocks' = blocks /\ blocksRead' = blocksRead /\ pc' = pc
    BY DEF IrqNextBlock, SendCmd17, clientVars, opVars
  <1>3. Types' /\ OnePoster' /\ Linked' /\ Pushing' /\ ReadsInOrder'
    <2>1. cmd' \in Command
      BY <1>1, <1>2 DEF Command
    <2>2. stat' \subseteq {"cc", "brr", "tc", "error"}
      BY <1>2 DEF ReadInv, Types
    <2> QED
      BY <1>2, <2>1, <2>2, CardTypes DEF IrqNextBlock
  <1>4. Controller'
    BY <1>1, <1>2 DEF Controller, MoreBlocks
  <1> QED
    BY <1>1, <1>3, <1>4 DEF ReadInv

\* The handler finds a read in the queue only while nobody is in post_read:
\* there are two threads, the one of that read and the one of the active read.
LEMMA QueueFoundOutside ==
    ASSUME Exclusive, ReadInv, Preemptive \/ Posting = {}, active # Null,
           front # Null
    PROVE  /\ \A d \in Clients : pc[d] \in {"idle", "wait"}
           /\ front \in nodes /\ front \in Clients /\ front # active /\ Waits(front)
  <1>1. front \in nodes /\ front \in Clients /\ Waits(front) /\ active \in Clients
    BY DEF ReadInv, Linked, Types, ReadsInOrder
  <1>2. status[front] = "queued" /\ status[active] = "incomplete"
    BY <1>1 DEF ReadInv, ReadsInOrder, Waits
  <1>3. ~Preemptive
    BY <1>1, <1>2 DEF Exclusive
  <1> QED
    BY <1>1, <1>2, <1>3 DEF Posting

LEMMA IrqCompletesStep ==
    ASSUME Exclusive, ReadInv, Preemptive \/ Posting = {}, active # Null,
           "tc" \in stat, "brr" \notin stat, ~MoreBlocks(active),
           IrqCompletes, UNCHANGED clientVars
    PROVE  ReadInv' /\ cmd = NoCmd
  <1>1. PICK a, f : a = active /\ f = front
    OBVIOUS
  <1>2. /\ a \in Clients /\ a # Null /\ phase = "idle" /\ cmd = NoCmd
        /\ blocksRead[a] \in Nat /\ blocks[a] \in Nat /\ Types
        /\ \A d \in Clients : pc[d] # "send"
    BY <1>1 DEF ReadInv, Controller, Types
  <1>3. /\ active' = f /\ stat' = stat \ {"tc"} /\ blocks' = blocks
        /\ blocksRead' = blocksRead /\ got' = got /\ pc' = pc /\ tail' = tail
        /\ status' = [d \in Clients |->
                        IF d = a THEN "successful"
                        ELSE IF d = f THEN "incomplete" ELSE status[d]]
    BY <1>1 DEF IrqCompletes, Complete, clientVars
  <1>4. /\ status'[a] = "successful"
        /\ f \in Clients \ {a} => status'[f] = "incomplete"
        /\ \A d \in Clients \ {a, f} : status'[d] = status[d]
        /\ status' \in [Clients -> {"none", "queued", "incomplete", "successful"}]
    <2>1. /\ status'[a] = "successful"
          /\ f \in Clients \ {a} => status'[f] = "incomplete"
          /\ \A d \in Clients \ {a, f} : status'[d] = status[d]
      BY <1>2, <1>3
    <2>2. \A d \in Clients : status'[d] \in {"none", "queued", "incomplete", "successful"}
      BY <1>2, <2>1 DEF Types
    <2> QED
      BY <2>1, <2>2, <1>3
  <1>5. ReadSoFar(a) /\ blocksRead[a] = blocks[a] /\ status[a] = "incomplete"
        /\ blocks[a] >= 1
    BY <1>1, <1>2 DEF ReadInv, ReadsInOrder, ReadSoFar, MoreBlocks
  <1>6. \A d \in Clients : ReadSoFar(d) => ReadSoFar(d)'
    BY <1>3 DEF ReadSoFar
  <1>7. \A d \in Clients : status'[d] = "successful" =>
           ReadSoFar(d)' /\ blocksRead'[d] = blocks'[d]
    BY <1>3, <1>4, <1>5, <1>6 DEF ReadInv, ReadsInOrder
  <1>8. \A d \in Clients : pc'[d] \notin {"pop", "start", "send"}
    BY <1>1, <1>2, <1>3 DEF ReadInv, ReadsInOrder
  <1>9. Command' = Command
    BY DEF Command
  <1>10. CASE f = Null
    <2>1. /\ UNCHANGED queueVars /\ cmd' = cmd /\ phase' = phase /\ nodes' = nodes
          /\ nextNode' = nextNode /\ active' = Null
      BY <1>1, <1>3, <1>10 DEF IrqCompletes, queueVars
    <2>2. Types'
      BY <1>2, <1>3, <1>4, <1>9, <2>1 DEF Types
    <2>3. OnePoster' /\ Linked' /\ Pushing'
      BY <2>1, QueueStays
    <2>4. ReadsInOrder'
      <3>1. \A d \in nodes' : Waits(d)'
        BY <1>3, <1>4, <1>5, <1>10, <2>1, ClientsAssumption
           DEF ReadInv, ReadsInOrder, Waits
      <3>2. \A d \in Clients : pc'[d] = "idle" =>
               status'[d] \notin {"queued", "incomplete"}
        BY <1>3, <1>4, <1>10, ClientsAssumption DEF ReadInv, ReadsInOrder
      <3> QED
        BY <1>7, <1>8, <2>1, <3>1, <3>2 DEF ReadsInOrder
    <2>5. Controller'
      BY <1>2, <1>3, <2>1 DEF Controller, NoCmd
    <2> QED
      BY <1>2, <2>2, <2>3, <2>4, <2>5 DEF ReadInv
  <1>11. CASE f # Null
    <2>1. /\ \A d \in Clients : pc[d] \in {"idle", "wait"}
          /\ f \in nodes /\ f \in Clients /\ f # a /\ Waits(f)
      BY <1>1, <1>2, <1>11, QueueFoundOutside
    <2>2. PopFront /\ cmd' = [reader |-> f, block |-> 0] /\ phase' = "sent"
      BY <1>1, <1>11 DEF IrqCompletes, SendCmd17
    <2>3. Linked' /\ nodes' = nodes \ {f} /\ nextNode' = nextNode
      BY <1>1, <1>11, <2>1, <2>2, PopFrontKeepsList
    <2>4. Types'
      <3>1. cmd' \in Command
        BY <2>1, <2>2 DEF Command
      <3> QED
        BY <1>2, <1>3, <1>4, <1>9, <2>1, <2>2, <2>3, <3>1 DEF Types
    <2>5. OnePoster' /\ Pushing'
      BY <1>3, <2>1 DEF OnePoster, Posting, Pushing
    <2>6. ReadsInOrder'
      <3>1. \A d \in nodes' : d \notin {a, f} /\ Waits(d)
        BY <1>5, <2>3 DEF ReadInv, ReadsInOrder, Waits
      <3>2. \A d \in nodes' : Waits(d)'
        BY <1>3, <1>4, <3>1 DEF Waits
      <3>3. ASSUME NEW d \in Clients, pc'[d] = "idle"
            PROVE  status'[d] \notin {"queued", "incomplete"}
        <4>1. status[d] \notin {"queued", "incomplete"}
          BY <1>3, <3>3 DEF ReadInv, ReadsInOrder
        <4>2. d # f
          BY <4>1, <2>1 DEF Waits
        <4> QED
          BY <4>1, <4>2, <1>4
      <3>4. ReadSoFar(f)
        BY <2>1, <1>2 DEF Waits, ReadSoFar, Types
      <3>5. status'[active'] = "incomplete" /\ ReadSoFar(active)' /\ blocks'[active'] >= 1
        BY <1>3, <1>4, <1>6, <2>1, <3>4 DEF Waits, ReadSoFar
      <3> QED
        BY <1>7, <1>8, <3>2, <3>3, <3>5 DEF ReadsInOrder
    <2>7. Controller'
      <3>1. blocksRead'[f] = 0 /\ blocks'[f] >= 1 /\ blocks'[f] \in Nat
        BY <1>2, <1>3, <2>1 DEF Waits, Types
      <3>2. blocksRead'[active'] < blocks'[active'] /\ blocksRead'[active'] = 0
        BY <1>3, <3>1
      <3> QED
        BY <1>2, <1>3, <1>8, <1>11, <2>2, <3>2 DEF Controller
    <2> QED
      BY <1>2, <2>3, <2>4, <2>5, <2>6, <2>7 DEF ReadInv
  <1> QED
    BY <1>10, <1>11

LEMMA IrqStep ==
    ASSUME Exclusive, ReadInv, Irq
    PROVE  /\ ReadInv'
           /\ cmd' = cmd \/ cmd = NoCmd
  <1>1. (Preemptive \/ Posting = {}) /\ UNCHANGED clientVars
    BY DEF Irq
  <1>2. CASE IrqIgnored
    BY <1>1, <1>2, IrqIgnoredStep DEF IrqIgnored
  <1>3. CASE IrqBlock
    BY <1>1, <1>3, IrqBlockStep DEF IrqBlock
  <1>4. CASE IrqTransferComplete
    <2>1. active # Null /\ "brr" \notin stat /\ "tc" \in stat
      BY <1>4 DEF IrqTransferComplete
    <2>2. CASE MoreBlocks(active)
      BY <1>1, <1>4, <2>1, <2>2, IrqNextBlockStep DEF IrqTransferComplete
    <2>3. CASE ~MoreBlocks(active)
      BY <1>1, <1>4, <2>1, <2>3, IrqCompletesStep DEF IrqTransferComplete
    <2> QED
      BY <2>2, <2>3
  <1>5. CASE IrqCommandComplete
    <2>1. /\ active' = active /\ cmd' = cmd /\ phase' = phase
          /\ stat' = stat \ {"cc"} /\ pc' = pc /\ cmd \in Command
          /\ phase \in {"idle", "sent", "reading", "buffered", "drained"}
          /\ stat \subseteq {"cc", "brr", "tc", "error"}
          /\ blocks' = blocks /\ blocksRead' = blocksRead
      BY <1>1, <1>5 DEF IrqCommandComplete, clientVars, opVars, ReadInv, Types
    <2>2. Types' /\ OnePoster' /\ Linked' /\ Pushing' /\ ReadsInOrder'
      BY <1>1, <1>5, <2>1, CardTypes DEF IrqCommandComplete
    <2>3. Controller'
      BY <2>1 DEF ReadInv, Controller, NoCmd
    <2> QED
      BY <2>1, <2>2, <2>3 DEF ReadInv
  <1> QED
    BY <1>2, <1>3, <1>4, <1>5 DEF Irq

-----------------------------------------------------------------------------
(***************************************************************************)
(* The controller, and the theorems.                                       *)
(***************************************************************************)
LEMMA CardStepKeeps ==
    ASSUME ReadInv, Card
    PROVE  ReadInv' /\ (cmd' = cmd \/ cmd' = NoCmd)
  <1> USE DEF CardStep
  <1>1. /\ UNCHANGED <<clientVars, opVars, queueVars, active>>
        /\ active' = active /\ pc' = pc /\ blocks' = blocks
        /\ blocksRead' = blocksRead /\ Types /\ Controller
    BY DEF Card, CardAcknowledges, CardFillsBuffer, CardFinishes, CardFails,
           clientVars, opVars, ReadInv
  <1>2. CASE CardAcknowledges
    <2>1. cmd' = cmd /\ phase = "sent" /\ phase' = "reading" /\ stat' = stat \cup {"cc"}
      BY <1>2 DEF CardAcknowledges
    <2>2. Types' /\ OnePoster' /\ Linked' /\ Pushing' /\ ReadsInOrder'
      BY <1>1, <2>1, CardTypes DEF Types
    <2>3. Controller'
      BY <1>1, <2>1 DEF Controller
    <2> QED
      BY <2>1, <2>2, <2>3 DEF ReadInv
  <1>3. CASE CardFillsBuffer
    <2>1. cmd' = cmd /\ phase = "reading" /\ phase' = "buffered" /\ stat' = stat \cup {"brr"}
      BY <1>3 DEF CardFillsBuffer
    <2>2. Types' /\ OnePoster' /\ Linked' /\ Pushing' /\ ReadsInOrder'
      BY <1>1, <2>1, CardTypes DEF Types
    <2>3. Controller'
      BY <1>1, <2>1 DEF Controller
    <2> QED
      BY <2>1, <2>2, <2>3 DEF ReadInv
  <1>4. NoCmd \in Command
    BY DEF NoCmd, Command
  <1>5. CASE CardFinishes
    <2>1. cmd' = NoCmd /\ phase = "drained" /\ phase' = "idle" /\ stat' = stat \cup {"tc"}
      BY <1>5 DEF CardFinishes
    <2>2. Types' /\ OnePoster' /\ Linked' /\ Pushing' /\ ReadsInOrder'
      BY <1>1, <1>4, <2>1, CardTypes DEF Types
    <2>3. Controller'
      BY <1>1, <2>1 DEF Controller, NoCmd
    <2> QED
      BY <2>1, <2>2, <2>3 DEF ReadInv
  <1>6. CASE CardFails
    <2>1. /\ cmd' = NoCmd /\ phase \in {"sent", "reading"} /\ phase' = "idle"
          /\ stat' = stat \cup {"error"}
      BY <1>6 DEF CardFails
    <2>2. Types' /\ OnePoster' /\ Linked' /\ Pushing' /\ ReadsInOrder'
      BY <1>1, <1>4, <2>1, CardTypes DEF Types
    <2>3. Controller'
      BY <1>1, <2>1 DEF Controller, NoCmd
    <2> QED
      BY <2>1, <2>2, <2>3 DEF ReadInv
  <1> QED
    BY <1>2, <1>3, <1>5, <1>6 DEF Card

\* Every step keeps the invariant, and whoever writes a command finds the
\* controller without one.
LEMMA NextStep ==
    ASSUME Exclusive, ReadInv, Next
    PROVE  /\ ReadInv'
           /\ cmd' = cmd \/ cmd' = NoCmd \/ cmd = NoCmd
  <1>1. ASSUME NEW c \in Clients, Client(c)
        PROVE  ReadInv' /\ (cmd' = cmd \/ cmd = NoCmd)
    <2>1. CASE PushReadsBack(c)
      BY <2>1, PushReadsBackStep DEF PushReadsBack, cardVars
    <2>2. CASE PushLinks(c)
      BY <2>2, PushLinksStep DEF PushLinks, cardVars
    <2>3. CASE PushSetsBack(c)
      BY <2>3, PushSetsBackStep DEF PushSetsBack, cardVars
    <2>4. CASE TestActive(c)
      BY <2>4, TestActiveStep DEF TestActive, cardVars
    <2>5. CASE PopNext(c)
      BY <2>5, PopNextStep DEF PopNext, cardVars
    <2>6. CASE Start(c)
      BY <2>6, StartStep DEF Start, cardVars
    <2>7. CASE Send(c)
      BY <2>7, SendStep
    <2>8. CASE WaitAndDelete(c)
      BY <2>8, WaitAndDeleteStep DEF WaitAndDelete, cardVars
    <2> QED
      BY <1>1, <2>1, <2>2, <2>3, <2>4, <2>5, <2>6, <2>7, <2>8 DEF Client
  <1>2. ASSUME NEW c \in Clients, NEW n \in 1..MaxBlocks, PostRead(c, n)
        PROVE  ReadInv' /\ cmd' = cmd
    BY <1>2, PostReadStep DEF PostRead, cardVars
  <1> QED
    BY <1>1, <1>2, IrqStep, CardStepKeeps DEF Next

LEMMA StutterKeeps ==
    ASSUME ReadInv, UNCHANGED vars
    PROVE  ReadInv'
  <1>1. /\ UNCHANGED <<clientVars, opVars, queueVars, active>>
        /\ UNCHANGED cardVars /\ cmd' = cmd /\ phase' = phase /\ stat' = stat
        /\ pc' = pc
    BY DEF vars, cardVars, clientVars
  <1>2. Types' /\ OnePoster' /\ Linked' /\ Pushing' /\ ReadsInOrder'
    BY <1>1, CardTypes DEF ReadInv, Types
  <1>3. Controller'
    BY <1>1, ControllerStays
  <1> QED
    BY <1>2, <1>3 DEF ReadInv

\* The inductive invariant: the queue that post_read and the interrupt handler
\* share is a list of reads that have not begun, the active read has the blocks
\* so far, and the controller works on the block that it misses.
THEOREM ReadInvariant == Exclusive => (Spec => []ReadInv)
  <1> SUFFICES ASSUME Exclusive PROVE Spec => []ReadInv
    OBVIOUS
  <1>1. ReadInv /\ [Next]_vars => ReadInv'
    BY NextStep, StutterKeeps
  <1> QED
    BY <1>1, ReadInvInit, PTL DEF Spec

\* irq_handler never gives a block to the wrong read, and never throws one
\* away: what is in the controller's buffer is the next block that the active
\* read misses.
THEOREM BlocksGoToTheirRead ==
    Exclusive => (Spec => []BufferBelongsToActive)
  <1> SUFFICES ASSUME Exclusive PROVE Spec => []BufferBelongsToActive
    OBVIOUS
  <1>1. ReadInv => BufferBelongsToActive
    <2> SUFFICES ASSUME ReadInv PROVE BufferBelongsToActive
      OBVIOUS
    <2>1. phase = "buffered" => blocksRead[active] = cmd.block
      BY DEF ReadInv, Controller
    <2>2. cmd # NoCmd => active = cmd.reader
      BY DEF ReadInv, Controller, Types
    <2> QED
      BY <2>1, <2>2 DEF BufferBelongsToActive
  <1> QED
    BY <1>1, ReadInvariant, PTL

\* A read that io_operation::complete reports as successful has all of its
\* blocks, each once and in order, however many the read asks for.
THEOREM SuccessMeansRead ==
    Exclusive => (Spec => []SuccessfulReadIsWhole)
  <1> SUFFICES ASSUME Exclusive PROVE Spec => []SuccessfulReadIsWhole
    OBVIOUS
  <1>1. ReadInv => SuccessfulReadIsWhole
    <2> SUFFICES ASSUME ReadInv, NEW c \in Clients, status[c] = "successful"
                 PROVE  /\ Len(got[c]) = blocks[c]
                        /\ \A i \in DOMAIN got[c] :
                              got[c][i].of = [reader |-> c, block |-> i - 1]
      BY DEF SuccessfulReadIsWhole
    <2>1. ReadSoFar(c) /\ blocksRead[c] = blocks[c]
          /\ got[c] \in Seq([slot : Nat, of : Command])
      BY DEF ReadInv, ReadsInOrder, Types
    <2>2. DOMAIN got[c] = 1 .. Len(got[c])
      BY <2>1, LenProperties
    <2> QED
      BY <2>1, <2>2 DEF ReadSoFar
  <1> QED
    BY <1>1, ReadInvariant, PTL

\* post_read and irq_handler, which never ask the controller, write a command
\* only when it has none to work on.
THEOREM CommandsWaitTheirTurn ==
    Exclusive => (Spec => CommandWhenIdle)
  <1> SUFFICES ASSUME Exclusive PROVE Spec => CommandWhenIdle
    OBVIOUS
  <1>1. ReadInv /\ [Next]_vars =>
           [\A c \in Clients : \A b \in 0..MaxBlocks :
               cmd' = [reader |-> c, block |-> b] /\ cmd' # cmd => cmd = NoCmd]_vars
    <2> SUFFICES ASSUME ReadInv, Next, NEW c \in Clients, NEW b \in 0..MaxBlocks,
                        cmd' = [reader |-> c, block |-> b], cmd' # cmd
                 PROVE  cmd = NoCmd
      OBVIOUS
    <2>1. cmd' # NoCmd
      BY ClientsAssumption DEF NoCmd
    <2> QED
      BY <2>1, NextStep
  <1> QED
    BY <1>1, ReadInvariant, PTL DEF Spec, CommandWhenIdle
=============================================================================
