SPECIFICATION FairQueueSpec
CONSTANTS
    MaxMessages = 2
    MaxLen = 2
    Offsets <- MCOffsets
    Pauses = {0, 2}
    MaxPause = 1
    MaxDelays = 2
    Idle = Idle
INVARIANT QueueTypeOK
INVARIANT TimerArmed
PROPERTY Delivers
PROPERTY PausesRespected
PROPERTY EveryByteWritten
CHECK_DEADLOCK FALSE
