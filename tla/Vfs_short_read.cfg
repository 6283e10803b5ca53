\* A file of two clusters of two sectors each, read as a whole.
CONSTANTS
    Chars = {"/", ".", "a", "b", "d", "e", "f", "g", "m", "x"}
    Slash = "/"
    SectorBytes = 2
    Word = 32
    Garbage = Garbage
    Null = Null
    Undefined = Undefined
    Volumes <- OneDisk
    MountPaths <- MountPathsMC
    Paths <- PathsMC
    Sizes = {8}
    Offsets = {0}
    MaxMounts = 3
SPECIFICATION Spec
INVARIANT
    ReadIsComplete
