CONSTANTS
    w1 = w1  w2 = w2  id1 = id1  id2 = id2  ip1 = ip1  ip2 = ip2
    k1 = k1  k2 = k2  k3 = k3
    Workers = {w1, w2}
    Ids = {id1, id2}
    Ips = {ip1, ip2}
    Refs = {k1, k2, k3}
    VaultRefs = {k1, k2}
    Requests <- AllRequests
    NoExpiry = NoExpiry
    NoSession = NoSession
    MaxNow = 1
    Durable = TRUE
    SqlErrors = TRUE
    Isolated = TRUE
SPECIFICATION Spec
INVARIANT TypeOK
INVARIANT Agreement
PROPERTY ImplementsRegistry
