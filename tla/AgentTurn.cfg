\* Three calls, two of them guarded with one target, batches of two, two turns.
SPECIFICATION TurnSpec
CONSTANTS
    run = run
    rerun = rerun
    Calls = {read, run, rerun}
    Guarded = {run, rerun}
    Target <- OneCommand
    Preapproved = {run, rerun}
    NoCall = NoCall
    MaxSteps = 3
    MaxToolCalls = 4
    MaxMessages = 8
    MaxChars = 9
    Sizes = {2}
    MaxBatch = 2
    MaxTurns = 2
SYMMETRY Alike
INVARIANTS
    CallsHaveResults
    RunsAreLicensed
CHECK_DEADLOCK FALSE
