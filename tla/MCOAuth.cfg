\* c1 reads the cache file when it needs it, c2 in __init__; c2 may be built
\* with use_existing_credentials_only.
SPECIFICATION FairSpec
CONSTANTS
    c1 = c1
    c2 = c2
    Clients <- TwoClients
    MayRefuse = {c2}
    EagerLoad = {c2}
    MaxPort = 1
    MaxLogins = 2
    MaxIssue = 3
    MaxCallbacks = 2
    MaxUpsets = 1
    None = None
    Torn = Torn
    Failed = Failed
INVARIANTS
    TypeOK
    OwnCodeOnce
    OwnRefreshTokenKept
    CacheFileUsable
    ServerReleased
PROPERTIES
    NeverCachesDeadToken
    CallsEnd
\* The bounds on grants, logins, callbacks and upsets stop the system.
CHECK_DEADLOCK FALSE
