\* Up to four nodes, in the list or taken out of it, with two elements.
CONSTANTS
    Values = {v1, v2}
    Nothing = Nothing
    MaxNodes = 4
SYMMETRY ValueSymmetry
SPECIFICATION Spec
INVARIANTS
    LinksAgree
    LengthCountsRemoved
PROPERTY
    ImplementsDeque
\* The queue may be destroyed.
CHECK_DEADLOCK FALSE
