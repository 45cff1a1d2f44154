SPECIFICATION FairSpec
CONSTANTS
    Frames <- MCShortFrames
    Messages <- MCMessages
    MaxFrames = 2
    MaxMessages = 1
    MaxShort = 5
    MaxMedium = 6
    Capacity = 10
    Pace <- MCAny
    Delivery <- MCAny
INVARIANTS ReadsInBuffer MessagesIntact RepliesReadable
PROPERTIES FramesHandled SessionEnds
CHECK_DEADLOCK FALSE
