CONSTANTS
    a = a b = b
    None = None
    Machines = {a, b}
    Masters = {a}
    Samples <- MCSamples
    DataSet <- MCDataSet
    Paths = {"ca.crt", "ca.key", "kubeadm.yaml", "join.yaml", "user"}
    PkiPaths = {"ca.crt", "ca.key"}
    TmpPaths = {"kubeadm.yaml", "join.yaml"}
    MaxLines = 6
    Failures = {"put", "exec", "run", "connect", "drop"}
SPECIFICATION Spec
INVARIANTS
    RunsOnOwnFiles
    JoinsIdentified
    ReadsAsWritten
PROPERTIES
    SucceedsOnlyJoined
