SPECIFICATION FairSpec
CONSTANTS
    Playing = Playing
    Idle = Idle
    PlayStates = {Playing, Idle}
    Actions = {Playing}
    Volumes = {28, 29}
    MaxWorkers = 2
    MaxIncidents = 2
    Unset = Unset
    None = None
INVARIANTS
    ServicesKept
    ListeningServed
    LocalFollowsDevice
PROPERTIES
    ListenEnds
    StopStops
\* The bounds stop the system.
CHECK_DEADLOCK FALSE
