CONSTANTS
    m1 = m1 m2 = m2
    p1 = p1 p2 = p2
    ip1 = ip1 c1 = c1
    None = None Blank = Blank NoHost = NoHost
    Machines = {m1}
    Pools = {p1}
    IPs = {ip1}
    Clusters = {c1}
    ClusterOf <- OneCluster
    Masters = {}
    Unsupported = {}
    BlankIPs = {}
    MaxCount = 0
    MaxLag = 0
    Faults = {}
CHECK_DEADLOCK FALSE
SPECIFICATION QueueSpec
INVARIANTS
    DataAwaited
