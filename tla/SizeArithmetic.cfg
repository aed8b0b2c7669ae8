SPECIFICATION SizeSpec
CONSTANTS
    Width = 6
    LayoutAlignments = {0, 1, 2, 3, 4, 6, 8, 16, 32, 63}
    Nodes = {1, 2}
    PointerSize = 2
    GuardSize = 2
    Vectors <- MCVectors
    Sizes = {0, 1, 2, 3, 4, 5, 7, 8, 9, 15, 16, 17}
    Alignments = {0, 1, 2, 3, 4, 6, 8, 16, 32}
CHECK_DEADLOCK FALSE
INVARIANTS
    RefusesExactlyOverflow
    LayoutSound
    IndexExact
    SelectsSmallestSuitable
