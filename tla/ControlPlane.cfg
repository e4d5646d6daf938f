\* Three workspaces and room for two, five numbered calls, saves and crashes at any time.
SPECIFICATION Spec
CONSTANTS
    Keys = {k1, k2, k3}
    CapIds = {c}
    Grants <- SomeGrants
    Attempts <- SomeAttempts
    ArtIds = {f, g}
    VerIds = {v, w}
    Inputs <- SomeInputs
    Nil = Nil
    r1 = r1
    r2 = r2
    read = read
    write = write
    MaxVersion = 2
    MaxInstances = 2
    MaxSequence = 5
SYMMETRY Symmetric

    
    
PROPERTIES
    ImplementsAuditLog
CHECK_DEADLOCK FALSE
