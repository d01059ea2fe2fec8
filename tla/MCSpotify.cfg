SPECIFICATION Spec
CONSTANTS
    p1 = p1
    p2 = p2
    None = None
    Playlists = {p1, p2}
    MaxInstances = 3
    MaxChanges = 2
    MaxFailures = 1
INVARIANTS SnapshotNotAhead TracksRight OneInstancePerPlaylist
PROPERTY RefreshFindsAll
CHECK_DEADLOCK FALSE
