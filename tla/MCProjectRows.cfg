CONSTANTS
    I16Max = 31
    I32Max = 95
    Pass = 2
    Rows = 2
    Slices = 2
    TileMax = 3
    Inputs <- MCInputs
SPECIFICATION Spec
INVARIANTS
    BudgetCoversRows
    EmittedIsExact
    ProjectionIsExact
