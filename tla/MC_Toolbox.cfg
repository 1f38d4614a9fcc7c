\* Two servers, two tools, a request of the registry and one of the manager.
SPECIFICATION Spec
CONSTANTS
    t1 = t1
    t2 = t2
    s1 = s1
    s2 = s2
    Tools = {t1, t2}
    AgentTools = {t1}
    Servers = {s1, s2}
    ServerTools <- Listing
    Requesters <- Users
    Found <- Results
    MaxConns = 2
INVARIANTS
    Consistent
    OpenIsListed
    StaleIsRefused
    OnlyApproved
