SPECIFICATION Spec
CONSTANTS
    socket_num = 2
    Clients = {c1, c2}
    connectPolls = {c1}
    SndBuf = 2
    Writes <- SomeWrites
    Settings <- AllSettings
INVARIANT RegularHeldOnce
INVARIANT RegularHasSocket
INVARIANT AnswerMeetsCaller
PROPERTY CallsReturn
CHECK_DEADLOCK FALSE
