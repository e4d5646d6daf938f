\* Every control flow of three instructions, arithmetic on every operand, and
\* the commands of the page's terminal in every order.
SPECIFICATION DebuggerSpec
CONSTANTS
    Half = 2
    Programs <- AllPrograms
    MaxInstructions = 5
    MaxDepth = 2
    MaxSteps = 6
    MaxRuns = 2
    Sources <- Typed
    Expressions <- Loaded
INVARIANTS
    ValidatedNeverUnderflows
    RefusedHasNoDepths
    ListingIsSession
CHECK_DEADLOCK FALSE
