CONSTANTS
    m1 = m1
    m2 = m2
    m3 = m3
    c1 = c1
    c2 = c2
    Nodes <- MCNodes
    Clients <- MCClients
    Ops = {"write", "read"}
    InitLeader = m1
    MaxReq = 3
    MaxElections = 0
SPECIFICATION Spec
CHECK_DEADLOCK FALSE
INVARIANTS
    TypeOK
    ReadSeesAckedWrites
PROPERTIES
    RefinesLinearStore
