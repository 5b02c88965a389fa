\* Two line values, inputs of up to five lines; caps that bind at once, late, never.
CONSTANTS
    Lines = {x, y}
    MaxLen = 5
    CostCaps = {1, 2, 100}
    contextLines = 1
    MaxInt = 1000
SPECIFICATION DiffSpec
INVARIANTS
    ScriptCorrect
    OnShortestPath
    HunksApply
PROPERTIES
    SplitShrinks
CHECK_DEADLOCK FALSE
