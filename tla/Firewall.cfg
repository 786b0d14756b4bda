SPECIFICATION FairSpec
CONSTANTS
    a = a  b = b  lan = lan  wan = wan  DROP = DROP
    MaxFlows = 2
    Endpoint = {a, b}
    Device = {lan, wan, hairpin}
    internal_devs = {lan}
    Flow <- MCFlow
    khash <- MCHash
    ZeroFlow <- MCZeroFlow
    fwd_rules <- MCRules
    ExpirationTime = 1
    MaxTime = 3
VIEW View
INVARIANTS
    Coherent
    MapCallsAllowed
PROPERTIES
    ImplementsPolicy
    PacketDecided
