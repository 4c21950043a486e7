SPECIFICATION Spec
CONSTANTS
    Modulus = 13
    TotalVars = 4
    Chunk = 4
    MaxPushes = 2
    Entry <- MCEntry
    Statements <- MCStatements
    Combination <- MCCombination
    Slot = 6
    Challenges <- MCChallenges
INVARIANTS
    CanonKeepsTheSum
    CellsAreNotAliased
    StatementsAreDecided
