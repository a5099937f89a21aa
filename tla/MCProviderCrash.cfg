CONSTANTS
    m1 = m1 m2 = m2 p1 = p1 p2 = p2 ip1 = ip1 ip2 = ip2
    c1 = c1 c2 = c2
    None = None Blank = Blank NoHost = NoHost
    Machines = {m1}
    Pools = {p1}
    IPs = {ip1, ip2}
    Clusters = {c1}
    ClusterOf <- OneCluster
    Masters = {m1}
    Unsupported = {}
    BlankIPs = {ip2}
    MaxCount = 1
    MaxLag = 0
    Faults = {"api", "crash"}
CHECK_DEADLOCK FALSE
SPECIFICATION ProviderSpec
PROPERTIES
    IdentityStable
    EndpointStable
