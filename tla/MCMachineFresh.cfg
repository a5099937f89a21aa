CONSTANTS
    m1 = m1 m2 = m2 m3 = m3
    p1 = p1 p2 = p2 p3 = p3
    ip1 = ip1 c1 = c1
    None = None Blank = Blank NoHost = NoHost
    Machines = {m1, m2, m3}
    Pools = {p1, p2, p3}
    IPs = {ip1}
    Clusters = {c1}
    ClusterOf <- OneCluster
    Masters = {m1, m2}
    Unsupported = {}
    BlankIPs = {}
    MaxCount = 4
    MaxLag = 0
    Faults = {"ssh"}
CHECK_DEADLOCK FALSE
SPECIFICATION MachineSpec
INVARIANTS
    ExclusiveAdoption
    FreeIsClean
    UniquePriority
    ReadyNodeJoined
PROPERTIES
    ServingNodeKept
