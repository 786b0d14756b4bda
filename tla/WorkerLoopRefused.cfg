SPECIFICATION NfSpec
CONSTANTS
    Functions = {"loop"}
    c1 = c1  c2 = c2  c3 = c3
    Client = {c1, c2, c3}
    Flow <- MCFlow
    height = 2
    width = 2
    crc <- MCCrc
    max_flows = 2
    max_clients = 2
    ExpirationTime = 1
    cleanup_interval = 2
    MaxTime = 4
    MaxAttempts = 3
    f1 = f1  f2 = f2
    Ip = {a, b, c}
    DROP = DROP
    None = None
    LbFlow = {f1, f2}
    fhash <- MCBalancerHash
    LbDevice = {lan, wan}
    wan_device = wan
    flow_capacity = 1
    backend_capacity = 2
    cht_height = 3
    ChtHeights = {2}
    ChtCapacities = {1}
    FlowExpiration = 2
    BackendExpiration = 1
    LbMaxTime = 3
    Key = {k1, k2}
    Value = {v1, v2}
    KvClient = {lan, wan}
    KvCapacity = 1
    KvExpiration = 1
    KvMaxTime = 2
    MaxInFlight = 2
    Src = {s1, s2, s3}
    Port = {p1, p2, p3}
    khash <- MCPortHash
    ZeroKey <- MCZeroKey
    max_ports = 2
    PsExpiration = 1
    PsMaxTime = 4
    s1 = s1  s2 = s2  s3 = s3  p1 = p1  p2 = p2  p3 = p3
    SourceCapacity = 1
    devices_count = 3
    BATCH_SIZE = 3
    Mbuf = {m1, m2, m3, m4}
    TxMayRefuse = TRUE
VIEW View
SYMMETRY Symmetry
INVARIANT
    BuffersAccounted
