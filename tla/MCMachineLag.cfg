CONSTANTS
    m1 = m1 m2 = m2 m3 = m3
    p1 = p1 p2 = p2 p3 = p3
    ip1 = ip1 c1 = c1
    None = None Blank = Blank NoHost = NoHost
    Machines = {m1}
    Pools = {p1, p2}
    IPs = {ip1}
    Clusters = {c1}
    ClusterOf <- OneCluster
    Masters = {m1}
    Unsupported = {p2}
    BlankIPs = {}
    MaxCount = 3
    MaxLag = 2
    Faults <- AllFaults
CHECK_DEADLOCK FALSE
SPECIFICATION MachineSpec
INVARIANTS
    MachineTypeOK
    FinalizerGuard
