SPECIFICATION Spec
CONSTANTS
    Items = {"ring", "vase"}
    Players = {"chaser", "fugitive"}
    Scales = {"scale"}
    row_ <- MCrow
    column_ <- MCcolumn
    maxWeight_ <- MCmaxWeight
    weight <- MCweight
    row <- MCitemRow
    column <- MCitemCol
    operatingWeight_ = 2
    tolerance_ = 0
    Nobody = "nobody"
    TargetSlots <- MCTargetSlots
INVARIANT OwnedItemIsHeld
