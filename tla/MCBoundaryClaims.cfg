SPECIFICATION FairSpec
CONSTANTS
    Chains <- MCChains
    NofBatches = 2
    Cuts <- MCCuts
    Faults <- MCNoFaults
    MaxSessions = 1
INVARIANTS
    ProverBoundaryStatesNextRound
