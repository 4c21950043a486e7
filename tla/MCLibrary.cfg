SPECIFICATION Spec
CONSTANTS
    WordBits = 18
    IfmaBits = 12
    Instances <- MCInstances
    MaxDraws = 2
    Drawable = 6
    Parties = {prover, verifier}
    Transforms <- MCTransforms
    BaseSize = 16
    MaxBlocks = 2
    Patterns <- MCPatterns
    SlotModuli = {13, 1021, 1033}
    Zeta <- MCZeta
    Counts = {0, 1, 3, 4, 5, 16, 33}
    OutputCounts = {0, 1, 3}
    Chunk = 4
    Block = 16
    OutputsAtOnce = 2
    Untiled = 3
    Tile = 2
    Contents = {"largest", "sparse", "mixed"}
    Content <- MCContent
    ElementModuli = {13, 521, 1021, 2039, 32749, 65521}
    Lanes = 2
    Lengths = {1, 2, 3}
    Inputs <- MCInputs
    Neighbours <- MCNeighbours
INVARIANTS
    SearchedRootsAgree
    CallPassesStayInBounds
    CallTransformIsExact
    CalledSlotsAreExact
    ElementsAreExact
