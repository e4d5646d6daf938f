\* Three processes, exits from outside, runs cut short and runs to the end.
SPECIFICATION Spec
CONSTANTS
    MaxPid = 5
    MaxProcesses = 3
    MaxSteps = 6
    MaxTicks = 3
INVARIANTS
    QueueExact
PROPERTIES
    WaitShrinks
CHECK_DEADLOCK FALSE
