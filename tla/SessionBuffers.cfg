SPECIFICATION Spec
CONSTANTS
    HeaderSize = 2
    MaxBody = 1
    Bodies <- MCBodies
    RecvBufferSize = 4
    MaxRequests = 2
    MaxFramed = 2
    SendBufferSize = 3
    Responses = {2}
    MaxNotifications = 1
INVARIANTS
    SendSizeInRange
    SlotLeftEmpty
    ReceiveFits
    IntactForLockStep
    StreamIntact
    LockStepNeverDropped
PROPERTIES
    FramingExact
    AnswersArrive
CHECK_DEADLOCK FALSE
