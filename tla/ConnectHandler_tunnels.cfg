SPECIFICATION Spec
CONSTANTS
    id1 = id1  id2 = id2  ip1 = ip1  ip2 = ip2  k1 = k1  k2 = k2  d1 = d1  d2 = d2
    w1 = w1  w2 = w2  t1 = t1
    Workers = {w1, w2}
    Ids = {id1, id2}
    Ips = {ip1, ip2}
    NoId = NoId
    NoIp = NoIp
    Refs = {k1, k2}
    NoRef = NoRef
    Wanted <- Asks
    Domains = {d1, d2}
    Allowed <- OneDomainEach
    Tunnels = {t1}
INVARIANT TypeOK
INVARIANT VmHasItsSession
INVARIANT OwnPlaceholdersWork
INVARIANT OnlyOwnKeys
SYMMETRY Same
