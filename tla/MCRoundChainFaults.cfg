SPECIFICATION Spec
CONSTANTS
    Chains <- MCChains
    NofBatches = 2
    Cuts <- MCNoCuts
    Faults <- MCAllFaults
    MaxSessions = 1
INVARIANTS
    TypeOK
    AcceptedRanWholeChain
    EveryVariableIsChallenged
    TranscriptPinsProof
    ChallengesBindWhatTheyRandomise
    EverythingReadIsBound
PROPERTIES
    ImplementsArgument
