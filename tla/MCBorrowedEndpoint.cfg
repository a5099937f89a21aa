CONSTANTS
    m1 = m1 m2 = m2 p1 = p1 p2 = p2 ip1 = ip1 ip2 = ip2
    c1 = c1 c2 = c2
    None = None Blank = Blank NoHost = NoHost
    Machines = {m1, m2}
    Pools = {p1}
    IPs = {ip1}
    Clusters = {c1, c2}
    ClusterOf <- TwoClusters
    Masters = {m1, m2}
    Unsupported = {}
    BlankIPs = {}
    MaxCount = 2
    MaxLag = 0
    Faults = {}
CHECK_DEADLOCK FALSE
SPECIFICATION ProviderSpec
INVARIANTS
    ControlPlaneAtEndpoint
