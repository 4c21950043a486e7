SPECIFICATION Spec
CONSTANTS
    Modulus = 5
    BorrowMin = 2
    Witnesses <- MCWitnesses
    MaxUses = 2
    Challenges <- MCChallenges
INVARIANTS
    CellsAreFolds
    NeverPanics
    ChainInputsAreTrue
