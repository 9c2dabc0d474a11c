SPECIFICATION FairSpec
CONSTANTS
    Users = {window, cli}
    NoUser = nobody
    MaxTunnels = 3
    MaxHosts = 2
    MaxCalls = 3
    MaxTroubles = 1
INVARIANTS
    TypeOK
    OnlyTheManagersTunnel
    
PROPERTIES
    GivesUpForGood
    TunnelComesUp
CHECK_DEADLOCK FALSE
