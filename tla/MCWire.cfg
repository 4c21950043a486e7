SPECIFICATION Spec
CONSTANTS
    Byte = 2
    Accumulator = 8
    Widest = 4
    Group = 2
    MaxElements = 16
    MaxGamma = 5
    MaxWrites = 3
    Writes <- MCWrites
    ModQ = 13
    Symbols = 4
    ScaleBits = 3
    WordBits = 4
    Lanes = 2
    Roles = 2
    Overhead = 2
    LogCost <- MCLogCost
    RoleSequences <- MCRoleSequences
    Values <- MCValues
    SampleCounts <- MCSampleCounts
    Chains <- MCChains
    NofBatches = 2
    Degree = 2
    SlotDegree = 1
    ResidueBits = 8
    ShortBits = 2
    ClaimsVariables = 2
    OddBudget <- MCOdd
INVARIANTS
    AllowanceHolds
    AcceptsOnlyTheEncoding
    ShapeChecksHoldTheRest
    DecodesWhatWasEncoded
    WritingAndReadingAgree
    HistogramsAreExact
    CellsAreCodedOneWay
