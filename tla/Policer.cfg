SPECIFICATION Spec
CONSTANTS
    x = x  y = y  lan = lan  wan = wan  DROP = DROP
    MaxFlows = 2
    Flow = {x, y}
    ZeroFlow = x
    khash <- MCHash
    Device = {lan, wan}
    internal_devs = {lan}
    fwd_rules <- MCRules
    Rate = 2
    Burst = 4
    NS_TO_S_MULTIPLIER = 1
    Length = {1, 3}
    Word = 64
    ExpirationTime <- exp_time
    MaxTime = 4
VIEW View
INVARIANT
    Coherent
