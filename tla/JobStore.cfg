\* Two handlers, a full store, a snapshot after every request and a restart from
\* it, and starts from snapshots nobody captured.
SPECIFICATION Spec
CONSTANTS
    Names = {"a"}
    Contents <- SomeContents
    Absent = Absent
    MaxFiles = 1
    MaxBytes = 6
    MaxDocument = 2
    MaxRows = 1
    MaxColumns = 2
    MaxCells = 4
    Handlers = {h1, h2}
    Requests <- SomeRequests
    MaxJobs = 2
    MaxId = 3
    MaxRecords = 3
    Foreign <- ForeignSnapshots
    MaxRestarts = 1
SYMMETRY AnyHandler
INVARIANTS
    ActiveIsHandled
    SucceededHasOutput
    
CHECK_DEADLOCK FALSE
