SPECIFICATION Spec
CONSTANTS
    Blocks = {"g", "a1", "a2", "a3", "a4", "s2", "s3", "t1", "t2", "t3", "t4"}
    Genesis = "g"
    Parent <- MCParent
    Height <- MCHeight
    Capacity = 2
    MaxFile = 5
    Horizon = 1
    None = none
    Settings <- All
INVARIANTS FilesSound WitnessesNotNeeded
PROPERTY LeftoversSwept
