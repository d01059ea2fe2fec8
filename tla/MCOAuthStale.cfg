\* One client that logs in again after a login that failed.
SPECIFICATION Spec
CONSTANTS
    c1 = c1
    c2 = c2
    Clients <- OneClient
    MayRefuse = {}
    EagerLoad = {}
    MaxPort = 1
    MaxLogins = 2
    MaxIssue = 2
    MaxCallbacks = 1
    MaxUpsets = 0
    None = None
    Torn = Torn
    Failed = Failed
INVARIANT
    WaitReturnsNewRequest
CHECK_DEADLOCK FALSE
