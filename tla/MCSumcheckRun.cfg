SPECIFICATION RunSpec
CONSTANTS
    Rounds <- MCRounds
    UsizeBits = 12
    Modulus = 13
    Chunk = 4
    BaseLog = 2
    ProjectionHeight = 2
    Seeds = {1}
    Draw <- MCDraw
    Challenges <- MCChallenges
INVARIANTS
    HonestRunIsAccepted
    RoundPolynomialIsPartialSum
    ClaimsAreWitnessEvaluations
    LeavesInStep
