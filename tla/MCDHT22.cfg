SPECIFICATION Spec
CONSTANTS
    ByteBits = 2
    MaxNoResponse = 2
    Replies <- MCReplies
    Gaps = {4, 8}
    Quiet = 2
    Wrap = 7
    MaxTriggers = 4
    MaxTimeouts = 2
    MaxUpsets = 2
    None = None
INVARIANTS
    Accounted
    ResetsJustified
PROPERTY
    ReadingSent
\* The application may stop.
CHECK_DEADLOCK FALSE
