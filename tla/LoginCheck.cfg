\* A batch of one: the check looks at session 0 and never at 1, and wraps
\* around after every call but one. The queue holds a CLOSE and the CONNECT
\* behind it; one of the two sessions may go astray.
SPECIFICATION Spec
CONSTANTS
    MaxSessionCount = 2
    Batch = 1
    Timeout = 1
    MaxQueue = 2
    MaxAstray = 1
INVARIANTS
    ListFollowsNetwork
PROPERTIES
    SkippedNeverForced
    ClosedEarlyOnlyIfReused
    TimeOverIsClosed
