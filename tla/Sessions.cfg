\* One place in the table: sessions are evicted and expire, the host restarts from
\* their snapshots, and every request ends.
SPECIFICATION FairSpec
CONSTANTS
    Conns = {c1, c2}
    Owners = {alice}
    Sids = {s1, s2}
    NoSid = NoSid
    MaxSessions = 1
    MaxAgents = 1
    TTL = 1
    MinIdle = 1
    Durable = TRUE
    MaxTime = 2
    MaxTickets = 2
    MaxRestarts = 1
INVARIANTS
    AgentAccounting
    
PROPERTIES
    
    EveryRequestEnds
CHECK_DEADLOCK FALSE
