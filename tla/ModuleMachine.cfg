CONSTANTS
    MaxOperands = 3
    MaxLocals = 2
    MaxCode = 24
    MaxConstants = 20
    MaxVisits = 60
    Names = {"k", "l"}
    MinInt <- Smallest
    MaxInt = 3
    ObjectCharge = 2
    ValueCharge = 1
    EntryCharge = 2
    MaxValueDepth = 3
    Ids = {1, 2, 3, 4, 5, 6, 7, 8}
    Modules <- MCModules
    InputLists <- MCInputs
    Answers <- MCAnswers
    Granted = {"read", "clock"}
    HeapLimit = 26
    MaxFrames = 4
    MaxLive = 9
    MaxSteps = 24
SPECIFICATION ModuleSpec
INVARIANTS
    ValidatedNeverMalformed
    
    HeapAccounted
PROPERTY
    SharedValuesNeverChange
CHECK_DEADLOCK FALSE
