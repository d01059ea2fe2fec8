SPECIFICATION Spec
CONSTANTS
    h1 = h1
    h2 = h2
    w1 = w1
    w2 = w2
    r1 = r1
    r2 = r2
    o1 = o1
    Handlers = {h1, h2}
    Warehouses = {w1, w2}
    Dest <- TwoWarehouses
    AppRecords = {r1, r2}
    OwnRecords = {o1}
    HandlersOf <- SeparateLoggers
    Keys = {1, 2, 3}
    Key <- RecordKeys
    TryLimits = {0, 2}
    Sentinel = Sentinel
    NoRecord = NoRecord
INVARIANT
    RightWarehouse
\* The program may exit.
CHECK_DEADLOCK FALSE
