SPECIFICATION Spec
CONSTANTS
    socket_size = 4
    MaxBytes = 9
    Segments <- AnySegments
    Returns <- SecondBytes
    Sizes <- AnySize
    Habits <- Both
INVARIANT TypeOK
INVARIANT ReadsTheStream
INVARIANT LineIsAsSent
CHECK_DEADLOCK FALSE
