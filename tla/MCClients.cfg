SPECIFICATION Spec
CONSTANTS
    None = None
    Ways <- MCWays
    PageSize = 2
    MaxItems = 5
    Banks = {"monzo", "truelayer"}
    Fields = {"available", "current"}
    Threshold = 2
    Latency = 1
    MaxTime = 4
    Accounts = {account1}
    Pots = {pot1, pot2}
    Amounts = {1, 2}
    OwnIds = {ownId}
    MaxSeconds = 1
    MaxIntents = 2
    Albums = {album1, album2}
    Photos <- MCPhotos
    Directories = {"cwd"}
    FileNames = {"chosen"}
    MaxDownloads = 2
    Writers = {writer1, writer2}
    Readers = {reader}
    TimeToLive = 1
    MaxRecords = 3
    MaxReads = 1
    LastTick = 3
    Mixin = mixin
    Classes = {class1, class2}
    value1 = value1
    value2 = value2
    Values <- MCValues
    MaxInstances = 2
    Local = {0, 1}
    Zones = {0, 1}
    Day = 2
    DaysBack = {1}
    Limits = {0, 1}
    LastHour = 3
INVARIANTS
    PagesComplete
    BalanceFresh
    
    PhotosRight
    RecordsRight
    DuplicatesJustified
    RangesRight
\* The bounds end every machine.
CHECK_DEADLOCK FALSE
