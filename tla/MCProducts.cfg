SPECIFICATION EltwiseSpec
CONSTANTS
    WordBits = 14
    IfmaBits = 10
    ElementModuli = {4007}
    Lanes = 2
    Lengths = {1, 2}
    Inputs <- MCInputs
    Neighbours <- MCNeighbours
INVARIANT
    ProductsAreExact
