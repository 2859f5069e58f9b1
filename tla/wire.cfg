SPECIFICATION WireSpec
CONSTANTS
    Bits = 2
    Widths <- MCWidths
    Widest = 4
    CdbSizes <- MCCdbSizes
    MaxTransfer = 90
    MaxBlocks = 8
    MaxSteps = 3
    MaxFields = 3
    MaxOps = 3
    DigestBytes = 2
    Sector = 2
    RecipeIds <- MCRecipeIds
    RecipeOf <- MCRecipeOf
    Lists <- MCLists
    Users <- MCUsers
    Pages <- MCPages
    Generations = {0, 3}
    Probed = {0, 6}
    Damaged = 8
    d1 = d1
    d2 = d2
    Devices = {d1, d2}
    Quiet = {d2}
    Answers = {0, 1}
    FirstTag = 3
    MaxTag = 3
    MaxLen = 1
    MaxCommands = 3
    MaxLost = 2
INVARIANTS
    RecipesTrue
    TransfersTrue
    CapturesTrue
    ErasesAsClaimed
CHECK_DEADLOCK FALSE
