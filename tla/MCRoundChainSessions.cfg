SPECIFICATION FairSpec
CONSTANTS
    Chains <- MCChains
    NofBatches = 2
    Cuts <- MCCuts
    Faults <- MCNoFaults
    MaxSessions = 2
INVARIANTS
    HonestSessionSucceeds
    ContextServesOneProof
    BoundariesAgree
PROPERTIES
    HonestProofIsAccepted
