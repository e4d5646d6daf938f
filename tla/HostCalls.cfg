CONSTANTS
    MaxTurns = 2
    Asks <- MCAsks
    Bodies <- MCBodies
    Lines <- MCLines
    Events <- MCEvents
    MaxRetries = 1
    MaxLines = 2
    MaxCalls = 2
    MaxArgs = 2
    MaxLine = 1
    MaxStream = 3
    Pages <- MCPages
    RegistryName <- MCRegistryName
    MaxPages = 2
    MaxSkipped = 1
    MaxSaid = 2
    Places <- MCPlaces
    FirstTrees <- MCFirstTrees
    Root <- MCRoot
    Additional = {}
    Ignored <- MCIgnored
    Texts <- MCTexts
    MaxFile = 4
    MaxMeddles = 1
    Longer <- MCLonger
    Policies <- MCPolicies
    Commands <- MCCommands
    FileCalls <- MCFileCalls
    MaxDecisions = 1
    Earlier <- MCEarlier
SPECIFICATION Spec
INVARIANTS
    OneAnswer
    NothingLeftRunning
    
    ToldIsCancelled
    EditsAreCurrent
    
    
    StaysInside

    
CHECK_DEADLOCK FALSE
