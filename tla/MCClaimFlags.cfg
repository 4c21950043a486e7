SPECIFICATION Spec
CONSTANTS
    Modulus = 13
    TotalVars = 4
    Chunk = 4
    MaxPushes = 2
    Entry <- MCEntry
    Statements <- MCFlagStatements
    Combination <- MCCombination
    Slot = 6
    Challenges <- MCChallenges
INVARIANT
    ValidStatementsAreProved
