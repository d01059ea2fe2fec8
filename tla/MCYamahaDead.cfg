\* One listener thread, one failure.
SPECIFICATION Spec
CONSTANTS
    Playing = Playing
    Idle = Idle
    PlayStates = {Playing, Idle}
    Actions = {Playing}
    Volumes = {28}
    MaxWorkers = 1
    MaxIncidents = 1
    Unset = Unset
    None = None
INVARIANT
    IsListening
CHECK_DEADLOCK FALSE
