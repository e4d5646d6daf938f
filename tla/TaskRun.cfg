\* Two processes on one id, from every short record on disk.
SPECIFICATION Spec
CONSTANTS
    Procs = {p1, p2}
    NoOne = NoOne
    NoTask = NoTask
    NoSession = NoSession
    NoDigest = NoDigest
    NoRequest = NoRequest
    Requests = {r1, r2, NoRequest}
    r1 = r1
    r2 = r2
    MaxEvents = 8
    MaxStored = 4
    MaxLength = 4
    Stored <- OnDisk
    Edits <- Tampered
INVARIANTS
    TurnOwnsItsTask
    LostIsNeverResumed
    StoredRestores
    PausedMatches
CHECK_DEADLOCK FALSE
