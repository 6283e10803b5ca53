\* Up to three mounts of two disks; reads of up to two clusters.
CONSTANTS
    Chars = {"/", ".", "a", "b", "d", "e", "f", "g", "m", "x"}
    Slash = "/"
    SectorBytes = 2
    Word = 32
    Garbage = Garbage
    Null = Null
    Undefined = Undefined
    Volumes <- Disks
    MountPaths <- MountPathsMC
    Paths <- PathsMC
    Sizes = {1, 3, 6}
    Offsets = {0, 1, 2, 8, 17}
    MaxMounts = 3
SPECIFICATION Spec
INVARIANTS
    MountListInOrder
    OpensTheFile
    DeliversTheFile
