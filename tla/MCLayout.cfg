SPECIFICATION Spec
CONSTANTS
    Rounds <- MCRounds
    UsizeBits = 12
INVARIANTS
    PlacementNeverFails
    PlacementsDisjoint
    RecompositionReadsDigits
    KeyMeetsItsInput
