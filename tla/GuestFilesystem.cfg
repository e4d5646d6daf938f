\* Operations, snapshots, restarts, and snapshots nobody captured.
SPECIFICATION FsSpec
CONSTANTS
    Names = {"w", "a"}
    Defaults = {"w"}
    RawPaths <- ShortPaths
    Sizes = {0, 1, 2}
    MaxInodes = 4
    MaxBytes = 3
    MaxEntries = 3
    MaxComponents = 3
    MaxSnapshotBytes = 4
    Foreign <- ForeignSnapshots
INVARIANTS
    Accounting
PROPERTIES
    RoundTrip
CHECK_DEADLOCK FALSE
