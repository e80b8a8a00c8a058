SPECIFICATION ConnSpec
CONSTANTS
    m1 = m1
    m2 = m2
    m3 = m3
    Messages = {m1, m2, m3}
    SizeOf <- MCSizeOf
    BufferSize = 2
    Nothing = Nothing
INVARIANTS
    FramesWhole
PROPERTIES
    SentArrives
CHECK_DEADLOCK FALSE
