--------------------------- MODULE AddressSpaces ---------------------------
(***************************************************************************)
(* Translation tables (mmu.h, mmu.cpp), the stack of free pages (mm.cpp,   *)
(* static_kstack.h) and what the constructors and the destructor of        *)
(* process.cpp do with them.                                               *)
(*                                                                         *)
(* Addresses are page numbers.  A translation table maps the number of a   *)
(* section (1 MB, SectionPages pages) to a page table; page tables are     *)
(* heap objects, and the heap may put a new one at any free address.  The  *)
(* kernel maps its heap one to one, so that the physical and the virtual   *)
(* address of a page table are equal.                                      *)
(*                                                                         *)
(* No class of the kernel but kthread derives from process today; a thread *)
(* has an empty table.  The other constructors are modelled as they are    *)
(* written.  What the pages contain, and the translations that the TLB     *)
(* still holds after a table has been changed or replaced, are left out.   *)
(***************************************************************************)
EXTENDS Integers, Sequences, FiniteSets, SequencesExt, RbTree

CONSTANTS
    Procs,          \* process objects
    PageFrames,     \* the pages of RAM behind the kernel are 1 .. PageFrames
    TableAddrs,     \* the heap addresses at which a page table can lie
    SectionPages,   \* pages of a section (256)
    Sections,       \* sections of an application's table (2048)
    StackPages,     \* process::DEFAULT_STACK_SIZE in pages (4)
    Programs,       \* executables: <<code pages, data pages>>
    DeviceSizes,    \* sizes passed to map_device, in pages
    KernelSections  \* bound: the sections of the kernel's table in use

ASSUME SizesAssumption ==
    /\ SectionPages \in Nat \ {0} /\ Sections \in Nat /\ KernelSections \in Nat
    /\ PageFrames \in Nat \ {0}
    /\ TableAddrs \subseteq Nat \ {0} /\ TableAddrs # {}
    /\ DeviceSizes \subseteq Nat
    /\ "kernel" \notin Procs

\* An executable has code, since its header lies there (header.S), and fits
\* below its stack.
ASSUME ProgramsAssumption ==
    /\ StackPages \in Nat
    /\ Programs \subseteq (Nat \ {0}) \X Nat
    /\ \A prog \in Programs :
          1 + prog[1] + prog[2] + StackPages <= SectionPages * Sections

VARIABLES
    pageStack,      \* mm::page_stack
    l1,             \* first-level entries of each table: a page table or Nil
    directory,      \* translation_table::directory
    pt,             \* the page tables in the heap: index -> entry
    layout,         \* code, data and stack pages of the live processes
    selected,       \* mmu::current_application_table
    devices,        \* what map_device has been asked for and has returned
    nextDevice,     \* mmu::next_device_addr
    mode            \* "run", or "fault" after a null pointer was used

vars == <<pageStack, l1, directory, pt, layout, selected, devices,
          nextDevice, mode>>

Kernel == "kernel"
Tables == Procs \cup {Kernel}
NullPage == 0                   \* what allocate_page returns without pages
Unmapped == [page |-> NullPage, attr |-> {}]
Section(virt) == virt \div SectionPages
Index(virt) == virt % SectionPages
SectionCount(t) == IF t = Kernel THEN KernelSections ELSE Sections
SectionsOf(t) == 0 .. SectionCount(t) - 1
EmptyPageTable == [i \in 0 .. SectionPages - 1 |-> Unmapped]
ClearTable(t) == [x \in SectionsOf(t) |-> Nil]

\* page_table::add_entry: the descriptor bits that decide on access.
\* Mutant: user code may be written.
EntryUserWrites(page, permissions, type, notGlobal) ==
    [page |-> page, attr |-> {"small", "ap1", "ap0"}]
Entry(page, permissions, type, notGlobal) ==
    [page |-> page,
     attr |-> {"small"}
         \cup (IF notGlobal THEN {"ng"} ELSE {})
         \cup (IF type = "CODE" THEN {} ELSE {"xn"})
         \cup CASE permissions = "RW_RW" -> {"ap1", "ap0"}
                [] permissions = "RW_RO" -> {"ap1"}
                [] permissions = "RW_NA" -> {"ap0"}
                [] permissions = "RO_RO" -> {"ap2", "ap1", "ap0"}
                [] permissions = "RO_NA" -> {"ap2", "ap0"}
                [] permissions = "NA_NA" -> {}]

\* Where map_page and unmap_page find the page table of a section: through
\* the directory, or else at its physical address.
PageTableAt(t, x) ==
    LET n == FindNode(directory[t], l1[t][x])
    IN  IF n = Nil THEN l1[t][x] ELSE directory[t].val[n]

\* The sections for which map_page allocates a page table.
NewSections(t, requests) ==
    {x \in {Section(requests[i].virt) : i \in DOMAIN requests} : l1[t][x] = Nil}

\* directory.insert for each of the addresses in turn; Nil where map_page finds
\* a page table.
InsertTables(dir, addrs) ==
    LET at[i \in 0 .. Len(addrs)] ==
            IF i = 0 THEN dir
            ELSE IF addrs[i] # Nil /\ at[i - 1].ok
                 THEN TreeInsert(at[i - 1], addrs[i], addrs[i])
                 ELSE at[i - 1]
    IN  at[Len(addrs)]

\* map_page for each of the requests in turn; `at' is the address that the
\* heap gives to the page table of each new section.
MapPages(t, requests, at) ==
    LET touched == [i \in DOMAIN requests |-> Section(requests[i].virt)]
        First(i) == /\ l1[t][touched[i]] = Nil
                    /\ \A j \in 1 .. i - 1 : touched[j] # touched[i]
        dir == InsertTables(directory[t], [i \in 1 .. Len(requests) |->
                   IF First(i) THEN at[touched[i]] ELSE Nil])
        home == [i \in DOMAIN requests |->
                    IF touched[i] \in DOMAIN at THEN at[touched[i]]
                    ELSE PageTableAt(t, touched[i])]
        Latest(a, i) == {k \in DOMAIN requests :
                          /\ home[k] = a
                          /\ Index(requests[k].virt) = i
                          /\ \A j \in k + 1 .. Len(requests) :
                                requests[j].virt # requests[k].virt}
    IN  /\ directory' = [directory EXCEPT ![t] = dir]
        /\ mode' = IF dir.ok THEN mode ELSE "fault"
        /\ l1' = [l1 EXCEPT ![t] = [x \in DOMAIN @ |->
                     IF x \in DOMAIN at THEN at[x] ELSE @[x]]]
        /\ pt' = [a \in DOMAIN pt \cup Range(at) |->
                     [i \in 0 .. SectionPages - 1 |->
                        IF Latest(a, i) # {}
                        THEN requests[CHOOSE k \in Latest(a, i) : TRUE].entry
                        ELSE IF a \in DOMAIN pt THEN pt[a][i]
                        ELSE Unmapped]]

\* The addresses that the heap can give to the page tables of a call.
Homes(t, requests) == Injection(NewSections(t, requests),
                                TableAddrs \ DOMAIN pt)

\* The stack of free pages after unmap_page for each of the pages in turn.
FreedPages(t, virts) ==
    LET EntryOf(v) == pt[PageTableAt(t, Section(v))][Index(v)]
        stack[i \in 0 .. Len(virts)] ==
            IF i = 0 THEN pageStack
            ELSE IF /\ l1[t][Section(virts[i])] # Nil
                    /\ EntryOf(virts[i]).page # NullPage
                 THEN Append(stack[i - 1], EntryOf(virts[i]).page)
                 ELSE stack[i - 1]
    IN  stack[Len(virts)]

\* unmap_page for each of the pages in turn: a page that was mapped goes
\* back to the stack of free pages, a page table left empty to the heap.
\* Mutant: the page table is deleted and stays in the translation table.
UnmapKeepsTable(t, virts) ==
    /\ pageStack' = FreedPages(t, virts)
    /\ l1' = l1
    /\ pt' = [a \in DOMAIN pt \ Range(l1[t]) |-> pt[a]]
UnmapPages(t, virts) ==
    LET touched == {x \in {Section(v) : v \in Range(virts)} : l1[t][x] # Nil}
        Left(x) == [i \in 0 .. SectionPages - 1 |->
                       IF \E v \in Range(virts) : Section(v) = x /\ Index(v) = i
                       THEN Unmapped ELSE pt[PageTableAt(t, x)][i]]
        empty == {x \in touched : Left(x) = EmptyPageTable}
    IN  /\ pageStack' = FreedPages(t, virts)
        /\ l1' = [l1 EXCEPT ![t] = [x \in DOMAIN @ |->
                     IF x \in empty THEN Nil ELSE @[x]]]
        /\ pt' = [a \in DOMAIN pt \ {PageTableAt(t, x) : x \in empty} |->
                     IF \E x \in touched : PageTableAt(t, x) = a
                     THEN Left(CHOOSE x \in touched : PageTableAt(t, x) = a)
                     ELSE pt[a]]

\* The n-th page that mm::allocate_page returns from now on.
AllocatedPage(n) ==
    IF n <= Len(pageStack) THEN pageStack[Len(pageStack) + 1 - n]
    ELSE NullPage

\* The virtual pages of a process: code and data from page 1 (0x1000) up to
\* the program break, the stack below 0x80000000.
ProgramPages(lay) == [i \in 1 .. lay.code + lay.data |-> i]
StackPage(i) == SectionPages * Sections - i
AddressSpace(lay) == ProgramPages(lay) \o [i \in 1 .. lay.stack |-> StackPage(i)]

\* process::setup_addrspace.
SetupAddrspace(p, lay) ==
    LET virts == AddressSpace(lay)
        requests == [i \in DOMAIN virts |->
            [virt |-> virts[i],
             entry |-> CASE i <= lay.code ->
                              Entry(AllocatedPage(i), "RW_RO", "CODE", FALSE)
                         [] i \in lay.code + 1 .. lay.code + lay.data ->
                              Entry(AllocatedPage(i), "RW_RW", "DATA", FALSE)
                         [] OTHER ->
                              Entry(AllocatedPage(i), "RW_RW", "STACK", FALSE)]]
    IN  /\ \E at \in Homes(p, requests) : MapPages(p, requests, at)
        /\ pageStack' = [i \in 1 .. Len(pageStack) - Len(virts) |-> pageStack[i]]
        /\ layout' = [q \in DOMAIN layout \cup {p} |->
                         IF q = p THEN lay ELSE layout[q]]

---------------------------------------------------------------------------

\* What mmu::initialize, mm::initialize and the constructor of irq_handler
\* map: code, data with the heap, the stack, and a page for the IRQ stack.
KernelImage ==
    <<Entry(PageFrames + 1, "RO_NA", "CODE", FALSE),
      Entry(PageFrames + 2, "RW_NA", "DATA", FALSE),
      Entry(PageFrames, "RW_NA", "STACK", FALSE),
      Entry(PageFrames + 3, "RW_NA", "STACK", FALSE)>>
ImageSize == Section(Len(KernelImage) - 1) + 1     \* in sections

ASSUME ImageAssumption == ImageSize <= KernelSections

\* Before the heap is set up, page tables are placed one behind the other.
Home(x) == Min(TableAddrs) + x

Init ==
    /\ pageStack = [i \in 1 .. PageFrames - 1 |-> i]
    /\ l1 = [t \in Tables |-> [x \in SectionsOf(t) |->
                IF t = Kernel /\ x < ImageSize THEN Home(x) ELSE Nil]]
    /\ directory = [t \in Tables |->
            IF t # Kernel THEN EmptyTree
            ELSE InsertTables(EmptyTree,
                              [i \in 1 .. ImageSize |-> Home(i - 1)])]
    /\ pt = [a \in {Home(x) : x \in 0 .. ImageSize - 1} |->
                [i \in 0 .. SectionPages - 1 |->
                    LET v == SectionPages * (a - Home(0)) + i + 1
                    IN  IF v \in DOMAIN KernelImage THEN KernelImage[v]
                        ELSE Unmapped]]
    /\ layout = <<>>
    /\ selected = Nil
    /\ devices = <<>>
    /\ nextDevice = SectionPages * ImageSize
    /\ mode = IF directory[Kernel].ok THEN "run" ELSE "fault"

\* process::process(), the constructor of kernel threads.
NewThread(p) ==
    /\ p \notin DOMAIN layout
    /\ SetupAddrspace(p, [code |-> 0, data |-> 0, stack |-> 0])
    /\ UNCHANGED <<selected, devices, nextDevice>>

\* process::process(buffer).
Load(p, prog) ==
    /\ p \notin DOMAIN layout
    /\ SetupAddrspace(p, [code |-> prog[1], data |-> prog[2],
                          stack |-> StackPages])
    /\ selected' = p
    /\ UNCHANGED <<devices, nextDevice>>

\* process::process(parent): the tables of parent and child are selected in
\* turn while the pages are copied.
Copy(parent, child) ==
    /\ parent \in DOMAIN layout
    /\ child \notin DOMAIN layout
    /\ SetupAddrspace(child, layout[parent])
    /\ selected' = IF AddressSpace(layout[parent]) = <<>> THEN selected
                   ELSE child
    /\ UNCHANGED <<devices, nextDevice>>

\* process::~process.
\* Mutant: the stack is not unmapped.
DeletedPagesNoStack(lay) == ProgramPages(lay)
DeletedPages(lay) ==
    (IF lay.code > 0 THEN ProgramPages(lay) ELSE <<>>)
        \o (IF lay.stack > 0
            THEN [i \in 1 .. StackPages |-> StackPage(StackPages + 1 - i)]
            ELSE <<>>)
Delete(p) ==
    /\ p \in DOMAIN layout
    /\ UnmapPages(p, DeletedPages(layout[p]))
    /\ directory' = [directory EXCEPT ![p] = EmptyTree]
    /\ layout' = [q \in DOMAIN layout \ {p} |-> layout[q]]
    /\ UNCHANGED <<selected, devices, nextDevice, mode>>

\* kthread::enable_addrspace, called when a thread is given the CPU.
EnableAddrspace(p) ==
    /\ p \in DOMAIN layout
    /\ selected' = Nil
    /\ UNCHANGED <<pageStack, l1, directory, pt, layout, devices, nextDevice,
                   mode>>

\* mmu::map_device.  Every device has its own range of physical pages.
MapDevice(size) ==
    LET base == PageFrames + Len(KernelImage) + nextDevice
        requests == [i \in 1 .. size |->
            [virt |-> nextDevice + i - 1,
             entry |-> Entry(base + i - 1, "RW_NA", "DEVICE", FALSE)]]
    IN  /\ nextDevice + size <= SectionPages * KernelSections
        /\ \E at \in Homes(Kernel, requests) : MapPages(Kernel, requests, at)
        /\ devices' = Append(devices,
                         [base |-> base, size |-> size, virt |-> nextDevice])
        /\ nextDevice' = nextDevice + size
        /\ UNCHANGED <<pageStack, layout, selected>>

Next ==
    /\ mode = "run"
    /\ \/ \E p \in Procs : NewThread(p)
       \/ \E p \in Procs, prog \in Programs : Load(p, prog)
       \/ \E p, q \in Procs : Copy(p, q)
       \/ \E p \in Procs : Delete(p)
       \/ \E p \in Procs : EnableAddrspace(p)
       \/ \E size \in DeviceSizes : MapDevice(size)

Spec == Init /\ [][Next]_vars

---------------------------------------------------------------------------

\* The entries of a table, found as the hardware finds them.
Translate(t, virt) ==
    LET a == l1[t][Section(virt)]
    IN  IF a = Nil THEN Unmapped ELSE pt[a][Index(virt)]
UserRights(entry) ==
    IF "ap1" \notin entry.attr THEN "NA"
    ELSE IF "ap0" \in entry.attr /\ "ap2" \notin entry.attr THEN "RW"
    ELSE "RO"

\* Every page of RAM is either on the stack of free pages or mapped, and in
\* one place only: map_page and unmap_page neither lose a page nor give it to
\* two owners, also after the pages have run out (process.cpp, mmu.h).
PagesConserved ==
    mode = "run" =>
    \A f \in 1 .. PageFrames :
        Cardinality({i \in DOMAIN pageStack : pageStack[i] = f})
      + Cardinality({e \in (DOMAIN pt) \X (0 .. SectionPages - 1) :
                        pt[e[1]][e[2]].page = f}) = 1

\* A page table exists exactly as long as one first-level entry points to it
\* (new in map_page, delete in unmap_page), and is never empty.
TablesOwned ==
    mode = "run" =>
    /\ \A a \in DOMAIN pt : pt[a] # EmptyPageTable
    /\ DOMAIN pt = (UNION {Range(l1[t]) : t \in Tables}) \ {Nil}
    /\ \A t, u \in Tables : \A x \in SectionsOf(t), y \in SectionsOf(u) :
          l1[t][x] = l1[u][y] /\ l1[t][x] # Nil => t = u /\ x = y

\* The directory, a tree that insertions rotate, finds every page table in
\* use (rbtree.h: get_value after any sequence of insert).
DirectoryFinds ==
    mode = "run" =>
    \A t \in Tables : \A x \in SectionsOf(t) :
        l1[t][x] # Nil => FindNode(directory[t], l1[t][x]) # Nil

\* A process can read and execute its code, read and write its data and its
\* stack, and reach nothing else; every device can be found at the address
\* that map_device returned, and users cannot reach it.
TranslatesAsAsked ==
    mode = "run" =>
    /\ \A p \in Procs : \A v \in 0 .. SectionPages * Sections - 1 :
          LET lay == IF p \in DOMAIN layout THEN layout[p]
                     ELSE [code |-> 0, data |-> 0, stack |-> 0]
              entry == Translate(p, v)
          IN  CASE v \in 1 .. lay.code ->
                      UserRights(entry) = "RO" /\ "xn" \notin entry.attr
                [] v \in Range(AddressSpace(lay)) \ (1 .. lay.code) ->
                      UserRights(entry) = "RW" /\ "xn" \in entry.attr
                [] OTHER -> entry = Unmapped
    /\ \A d \in Range(devices) : \A i \in 0 .. d.size - 1 :
          LET entry == Translate(Kernel, d.virt + i)
          IN  entry.page = d.base + i /\ UserRights(entry) = "NA"
=============================================================================
