SPECIFICATION CanvasSpec
CONSTANTS
    Inputs <- MCInputs
    Outputs <- MCOutputs
    Planned <- MCPlanned
    Drafts <- MCDrafts
    Recipes <- MCRecipes
    NodeIds = {1, 2, 3, 4, 5}
    EdgeIds = {1, 2, 3, 4}
    MAX_HISTORY = 2
    MaxSteps = 3
INVARIANTS
    CanvasSound
    CleanIsStored
PROPERTIES
    TimelineStays
CHECK_DEADLOCK FALSE
