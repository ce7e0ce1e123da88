SPECIFICATION Spec
CONSTANTS
    MaxSessionCount = 2
    Batch = 2
    Timeout = 2
    MaxQueue = 2
    MaxAstray = 0
PROPERTY LoggedInNotClosed
