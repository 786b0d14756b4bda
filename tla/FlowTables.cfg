SPECIFICATION NfSpec
CONSTANTS
    x = x  y = y  z = z  lan_device = lan  wan_device = wan  DROP = DROP
    a = a  b = b  lan = lan  wan = wan
    Host = {a, b}
    natHash <- MCNatHash
    natZeroFlow <- MCNatZeroFlow
    natDevice = {lan, wan}
    natInternal = {lan}
    natRules <- MCNatRules
    natExpiration = 1
    natMaxTime = 3
    MaxFlows = 2
    Flow = {x, y, z}
    ZeroFlow = x
    khash <- MCHash
    Device = {lan, wan, other}
    Rate = 2
    Burst = 3
    NS_TO_S_MULTIPLIER = 3
    Length = {1, 2}
    Word = 64
    ExpirationTime = 4
    MaxTime = 6
VIEW View
INVARIANT
    RateEnforced
PROPERTIES
    PortNotShared
    ReplyGoesBack
    PortKept
