\* Up to three extents in six bits, three bytes, with padding; clusters of two blocks.
SPECIFICATION GSpec
CONSTANTS
    MaxBit = 5
    NIds = 4
    ByteBits = 2
    WordBytes = 2
    Clusters = 2
INVARIANTS CursorsRight AnswersRight
PROPERTIES ImplementsBitArray
