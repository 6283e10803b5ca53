\* Two processes with two or three page tables each, which the heap places
\* anywhere, and too few pages for both; the kernel's table grows from two
\* sections to five, with two devices that share a section.
CONSTANTS
    Procs = {p1, p2}
    PageFrames = 4
    TableAddrs = {1, 2, 3, 4, 5, 6, 7}
    SectionPages = 2
    Sections = 3
    StackPages = 1
    Programs <- TwoPrograms
    DeviceSizes = {3}
    KernelSections = 5
SYMMETRY ProcSymmetry
SPECIFICATION Spec
INVARIANTS
    PagesConserved
    TablesOwned
    DirectoryFinds
    TranslatesAsAsked
\* A null pointer in the directory ends the run.
CHECK_DEADLOCK FALSE
